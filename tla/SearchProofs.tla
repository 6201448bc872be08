---------------------------- MODULE SearchProofs ----------------------------
(***************************************************************************)
(* Theorems about the incremental search and replace: what SearchHistory   *)
(* states of the running job, for every source, pattern, replacement and   *)
(* selection, every window and frame budget, and whatever the user edits   *)
(* between two frames.                                                     *)
(*                                                                         *)
(* The proof goes from the inside out.  A scan of a window finds matches   *)
(* in order and apart (ScanIsRight); what is kept of them touches nothing  *)
(* that could not be read (FoundIsRight); a step keeps the searcher inside *)
(* its range and answers with such matches (SteppedIsRight); a replacement *)
(* substitutes a match by new bytes in one transaction                     *)
(* (ReplacementReplaces), and a step of replace-all does so for each match *)
(* it found, shifted by the replacements before it (ReplacedFacts).        *)
(*                                                                         *)
(* The inductive invariant of the job (JobInv) is that the document is     *)
(* good, each byte of its add buffer has a letter, and the searcher of the *)
(* running job is inside a range that ends where the job may reach.  That  *)
(* of an undisturbed replace-all (AskedInv) remembers the document it      *)
(* began with: what the job has done since is nothing or one transaction.  *)
(*                                                                         *)
(* The third theorem needs what the letters say. The recursion of          *)
(* Substituted is solved once (SubstitutedRecursion), and any text that    *)
(* has the replacement at each shifted match and the old letters between   *)
(* them is its value (SubstitutedIs). The cells of the last document of a  *)
(* step are such a text, by induction over its replacements (CellsOfStep), *)
(* and so are the letters they show (TextPut), because bytes added earlier *)
(* keep their place in the add buffer.                                     *)
(*                                                                         *)
(* That nothing is left out needs the reverse of the first lemmas: no      *)
(* skip of a scan passes over a match (ScanMissesNone), what is dropped    *)
(* of the matches found touches bytes that cannot be read (FilterKeeps),   *)
(* and windows read far enough behind their end to see each match that     *)
(* begins in them (FoundMissesNone). So no match of the part of the range  *)
(* that a searcher has been past is unanswered (Progress), and in a        *)
(* search for all the list so far is where the left-to-right choice of     *)
(* matches begins (Listing, GreedyBegins). As long as the user edits       *)
(* nothing, the text is that of the question (SearchedInv).                *)
(*                                                                         *)
(* A replace-all changes its own text, so the two are brought together.    *)
(* The text it began with, with the matches replaced so far, is the text   *)
(* it sees (PutIn), and replacing in that what a step finds is replacing   *)
(* both lists in the first one (PutInTwice). Behind the searcher the two   *)
(* texts differ only by where they lie, so what a step finds is found in   *)
(* the first one too (Ahead, SteppedAhead), and a new searcher behind the  *)
(* last replacement goes on where the old one was (RestartAhead). That is  *)
(* what stays true of the job (ReplacingInv); when it has been past the    *)
(* whole range, its list is the left-to-right choice (EndIsAll).           *)
(***************************************************************************)
EXTENDS SearchHistory, DocumentProofs

-----------------------------------------------------------------------------
(* Scanning a window (pattern.rs). *)

\* A skip never goes beyond the pattern and always goes on.
LEMMA StrideIs ==
  ASSUME NEW p, Len(p) \in Nat \ {0}, NEW data, NEW i
  PROVE  Stride(data, p, i) \in Nat \ {0}
<1>. DEFINE last == data[i + Len(p)]
            at == {k \in 1 .. Len(p) - 1 : p[k] = last}
<1>1. CASE ~ IsConcrete(p)
  BY <1>1 DEF Stride
<1>2. CASE IsConcrete(p) /\ at = {}
  BY <1>2 DEF Stride, Skip
<1>3. CASE IsConcrete(p) /\ at # {}
  <2>1. at \in SUBSET (0 .. (Len(p) - 1)) /\ Len(p) - 1 \in Nat
    OBVIOUS
  <2>2. \E k \in at : \A j \in at : j <= k
    <3>. HIDE DEF at
    <3>1. QED
      BY <1>3, <2>1, GreatestExists
  <2>. DEFINE k == CHOOSE k \in at : \A j \in at : j <= k
  <2>3. k \in at
    <3>. HIDE DEF at
    <3>1. QED
      BY <2>2
  <2>4. Stride(data, p, i) = Len(p) - k
    BY <1>3 DEF Stride, Skip
  <2>5. k \in 1 .. Len(p) - 1
    <3>. HIDE DEF k
    <3>1. QED
      BY <2>3
  <2>. HIDE DEF k
  <2>6. QED
    BY <2>4, <2>5
<1>4. QED
  BY <1>1, <1>2, <1>3

\* What a scan of data for p answers with: matches in order, apart, in the range.
ScanFinds(data, p, upTo, from, out) ==
  /\ out \in Seq(Nat)
  /\ \A k \in 1 .. Len(out) : /\ from <= out[k] /\ out[k] < upTo
                              /\ MatchesAt(data, p, out[k])
  /\ \A k \in 1 .. Len(out) - 1 : out[k] + Len(p) <= out[k + 1]

ScanAfter(data, p, i) ==
  IF MatchesAt(data, p, i) THEN i + Len(p) ELSE i + Stride(data, p, i)

\* What scans from each position answer with.
ScanFrom(f, data, p, upTo) ==
  \A i \in Nat : f[i] = IF i >= upTo \/ i + Len(p) > Len(data) THEN <<>>
                         ELSE IF MatchesAt(data, p, i) THEN <<i>> \o f[i + Len(p)]
                         ELSE f[i + Stride(data, p, i)]

\* Scan is one of the values of a solution of the scan's recursion.
ScanSolved(data, p, upTo, from) ==
  \E f : ScanFrom(f, data, p, upTo) /\ Scan(data, p, upTo, from) = f[from]

\* The scan's recursion has a solution, and Scan is one of its values.
LEMMA ScanRecursion ==
  ASSUME NEW p, Len(p) \in Nat \ {0}, NEW data, Len(data) \in Nat, NEW upTo \in Nat, NEW from \in Nat
  PROVE  ScanSolved(data, p, upTo, from)
<1>. DEFINE S == Seq(Nat)
            m == Len(p)
            room == Len(data) - m + 1
            n == IF room < 0 THEN 0 ELSE IF room < upTo THEN room ELSE upTo
            base == [i \in Nat |-> <<>>]
            after == [i \in Nat |-> ScanAfter(data, p, i)]
            step == [x \in Nat \X S |-> IF MatchesAt(data, p, x[1]) THEN <<x[1]>> \o x[2] ELSE x[2]]
            Body(f) == [i \in Nat |->
                          IF i >= upTo \/ i + Len(p) > Len(data) THEN <<>>
                          ELSE IF MatchesAt(data, p, i) THEN <<i>> \o f[i + Len(p)]
                          ELSE f[i + Stride(data, p, i)]]
            c == CHOOSE f : f = Body(f)
<1>1. \A i \in Nat : Stride(data, p, i) \in Nat \ {0}
  BY StrideIs
<1>2. \A i \in Nat : ScanAfter(data, p, i) \in Nat /\ i < ScanAfter(data, p, i)
  <2>1. ASSUME NEW i \in Nat PROVE ScanAfter(data, p, i) \in Nat /\ i < ScanAfter(data, p, i)
    <3>. HIDE DEF S, m, n, room, base, after, step
    <3>1. Stride(data, p, i) \in Nat /\ Stride(data, p, i) > 0
      BY <1>1
    <3>2. QED
      BY <3>1 DEF ScanAfter
  <2>2. QED
    BY <2>1
<1>0. n \in Nat
  <2>1. room \in Int /\ upTo \in Int
    OBVIOUS
  <2>. HIDE DEF room
  <2>2. QED
    BY <2>1
<1>3. \A i \in Nat : i < n <=> ~ (i >= upTo \/ i + Len(p) > Len(data))
  OBVIOUS
<1>4. after \in Forward
  BY <1>2 DEF Forward
<1>5. base \in [Nat -> S]
  <2>1. <<>> \in S
    OBVIOUS
  <2>. HIDE DEF S
  <2>2. QED
    BY <2>1
<1>6. step \in [Nat \X S -> S]
  <2>1. ASSUME NEW x \in Nat, NEW s \in S PROVE <<x>> \o s \in S
    <3>1. <<x>> \in S
      OBVIOUS
    <3>2. QED
      BY <3>1
  <2>. HIDE DEF S
  <2>2. QED
    BY <2>1
<1>7. PICK f \in [Nat -> S] :
        \A i \in Nat : f[i] = IF i < n THEN step[<<i, f[after[i]]>>] ELSE base[i]
  <2>. HIDE DEF S, n, base, after, step
  <2>1. DownwardRecursions(S, n, base, after, step) # {}
    BY ONLY <1>0, <1>4, <1>5, <1>6, DownwardRecursionExists
  <2>2. QED
    BY <2>1 DEF DownwardRecursions
<1>8. ASSUME NEW i \in Nat PROVE f[i] = Body(f)[i]
  <2>1. after[i] \in Nat /\ after[i] = ScanAfter(data, p, i)
    BY <1>2
  <2>2. f[after[i]] \in S
    <3>. HIDE DEF after, S
    <3>1. QED
      BY <2>1
  <2>3. i < n => f[i] = IF MatchesAt(data, p, i) THEN <<i>> \o f[after[i]] ELSE f[after[i]]
    <3>1. i < n => f[i] = step[<<i, f[after[i]]>>]
      <4>. HIDE DEF after, S, step, n
      <4>1. QED
        BY <1>7
    <3>2. step[<<i, f[after[i]]>>] = IF MatchesAt(data, p, i) THEN <<i>> \o f[after[i]] ELSE f[after[i]]
      <4>. DEFINE z == f[after[i]]
      <4>1. z \in S
        BY <2>2
      <4>. HIDE DEF S, z
      <4>2. <<i, z>> \in Nat \X S
        BY <4>1
      <4>3. step[<<i, z>>] = IF MatchesAt(data, p, i) THEN <<i>> \o z ELSE z
        BY <4>2
      <4>4. QED
        BY <4>3 DEF z
    <3>3. QED
      BY <3>1, <3>2
  <2>4. ~ (i < n) => f[i] = <<>>
    <3>1. ~ (i < n) => f[i] = base[i]
      <4>. HIDE DEF after, S, step, n, base
      <4>1. QED
        BY <1>7
    <3>2. QED
      BY <3>1
  <2>5. f[i] = IF ~ (i < n) THEN <<>>
               ELSE IF MatchesAt(data, p, i) THEN <<i>> \o f[i + Len(p)]
               ELSE f[i + Stride(data, p, i)]
    <3>. HIDE DEF n, after
    <3>1. QED
      BY <2>1, <2>3, <2>4 DEF ScanAfter
  <2>6. ~ (i < n) <=> i >= upTo \/ i + Len(p) > Len(data)
    <3>. HIDE DEF n
    <3>1. QED
      BY <1>3
  <2>. HIDE DEF n
  <2>7. QED
    BY <2>5, <2>6
<1>9. f = Body(f)
  <2>1. f = [i \in Nat |-> f[i]]
    OBVIOUS
  <2>2. Body(f) = [i \in Nat |-> Body(f)[i]]
    OBVIOUS
  <2>. HIDE DEF Body
  <2>3. QED
    BY <1>8, <2>1, <2>2
<1>10. c = Body(c)
  <2>. HIDE DEF Body
  <2>1. QED
    BY <1>9
<1>11. Scan(data, p, upTo, from) = c[from]
  BY DEF Scan
<1>12. QED
  <2>1. \A i \in Nat : c[i] = Body(c)[i]
    <3>. HIDE DEF Body, c
    <3>1. QED
      BY <1>10
  <2>. HIDE DEF c
  <2>2. \A i \in Nat : Body(c)[i] = IF i >= upTo \/ i + Len(p) > Len(data) THEN <<>>
                          ELSE IF MatchesAt(data, p, i) THEN <<i>> \o c[i + Len(p)]
                          ELSE c[i + Stride(data, p, i)]
    OBVIOUS
  <2>3. ScanFrom(c, data, p, upTo)
    <3>. HIDE DEF Body
    <3>1. QED
      BY <2>1, <2>2 DEF ScanFrom
  <2>. HIDE DEF Body
  <2>4. QED
    BY <2>3, <1>11 DEF ScanSolved

\* What a scan from i finds, one match before what a scan behind it finds.
LEMMA OneMore ==
  ASSUME NEW p, Len(p) \in Nat \ {0}, NEW data, NEW upTo \in Nat, NEW i \in Nat, i < upTo,
         MatchesAt(data, p, i), NEW out, ScanFinds(data, p, upTo, i + Len(p), out)
  PROVE  ScanFinds(data, p, upTo, i, <<i>> \o out)
<1>. DEFINE z == <<i>> \o out
            m == Len(p)
<1>1. out \in Seq(Nat) /\ m \in Nat /\ m > 0
  BY DEF ScanFinds
<1>2. /\ z \in Seq(Nat) /\ Len(z) = Len(out) + 1 /\ z[1] = i /\ Len(out) \in Nat
      /\ \A k \in 1 .. Len(out) : z[k + 1] = out[k]
  BY <1>1
<1>3. \A k \in 1 .. Len(out) : i + m <= out[k] /\ out[k] < upTo /\ MatchesAt(data, p, out[k])
  BY DEF ScanFinds
<1>4. \A k \in 1 .. Len(out) - 1 : out[k] + m <= out[k + 1]
  BY DEF ScanFinds
<1>5. \A k \in 1 .. Len(out) : out[k] \in Nat
  BY <1>1
<1>. HIDE DEF z, m
<1>6. ASSUME NEW k \in 1 .. Len(z) PROVE i <= z[k] /\ z[k] < upTo /\ MatchesAt(data, p, z[k])
  <2>1. CASE k = 1
    BY <2>1, <1>2
  <2>2. CASE k # 1
    <3>1. k - 1 \in 1 .. Len(out) /\ (k - 1) + 1 = k
      BY <1>2, <2>2
    <3>2. z[k] = out[k - 1]
      BY <1>2, <3>1
    <3>3. QED
      BY <1>1, <1>3, <1>5, <3>1, <3>2
  <2>3. QED
    BY <2>1, <2>2
<1>7. ASSUME NEW k \in 1 .. Len(z) - 1 PROVE z[k] + m <= z[k + 1]
  <2>1. k \in 1 .. Len(out) /\ z[k + 1] = out[k]
    BY <1>2
  <2>2. CASE k = 1
    BY <2>1, <2>2, <1>2, <1>3
  <2>3. CASE k # 1
    <3>1. k - 1 \in 1 .. Len(out) - 1 /\ (k - 1) + 1 = k /\ k - 1 \in 1 .. Len(out)
      BY <2>1, <2>3, <1>2
    <3>2. z[k] = out[k - 1]
      BY <1>2, <3>1
    <3>3. out[k - 1] + m <= out[(k - 1) + 1]
      BY <1>4, <3>1
    <3>4. QED
      BY <2>1, <3>1, <3>2, <3>3
  <2>4. QED
    BY <2>2, <2>3
<1>8. QED
  BY <1>2, <1>6, <1>7 DEF ScanFinds, z, m

\* A scan finds matches of its range, in order and apart (Pattern::scan).
LEMMA ScanIsRight ==
  ASSUME NEW p, Len(p) \in Nat \ {0}, NEW data, Len(data) \in Nat, NEW upTo \in Nat, NEW from \in Nat
  PROVE  ScanFinds(data, p, upTo, from, Scan(data, p, upTo, from))
<1>0. PICK f : ScanFrom(f, data, p, upTo) /\ Scan(data, p, upTo, from) = f[from]
  <2>1. ScanSolved(data, p, upTo, from)
    BY ScanRecursion
  <2>2. QED
    BY <2>1 DEF ScanSolved
<1>1. \A i \in Nat : f[i] =
        IF i >= upTo \/ i + Len(p) > Len(data) THEN <<>>
        ELSE IF MatchesAt(data, p, i) THEN <<i>> \o f[i + Len(p)]
        ELSE f[i + Stride(data, p, i)]
  BY <1>0 DEF ScanFrom
<1>. DEFINE S == {k \in Nat : \A i \in Nat : upTo <= i + k => ScanFinds(data, p, upTo, i, f[i])}
<1>2. ASSUME NEW i \in Nat PROVE ScanFinds(data, p, upTo, i, <<>>)
  BY DEF ScanFinds
<1>3. 0 \in S
  <2>1. ASSUME NEW i \in Nat, upTo <= i + 0 PROVE ScanFinds(data, p, upTo, i, f[i])
    <3>1. i >= upTo
      BY <2>1
    <3>2. f[i] = <<>>
      BY <1>1, <3>1
    <3>3. QED
      BY <1>2, <3>2
  <2>2. QED
    BY <2>1
<1>4. ASSUME NEW k \in Nat, k \in S PROVE k + 1 \in S
  <2>1. SUFFICES ASSUME NEW i \in Nat, upTo <= i + (k + 1) PROVE ScanFinds(data, p, upTo, i, f[i])
    OBVIOUS
  <2>2. \A j \in Nat : upTo <= j + k => ScanFinds(data, p, upTo, j, f[j])
    BY <1>4
  <2>3. CASE i >= upTo \/ i + Len(p) > Len(data)
    <3>1. f[i] = <<>>
      BY <1>1, <2>3
    <3>2. QED
      BY <1>2, <3>1
  <2>4. CASE ~ (i >= upTo \/ i + Len(p) > Len(data)) /\ MatchesAt(data, p, i)
    <3>1. f[i] = <<i>> \o f[i + Len(p)]
      BY <1>1, <2>4
    <3>2. i + Len(p) \in Nat /\ upTo <= (i + Len(p)) + k /\ i < upTo
      BY <2>1, <2>4
    <3>3. ScanFinds(data, p, upTo, i + Len(p), f[i + Len(p)])
      BY <2>2, <3>2
    <3>4. QED
      BY <2>4, <3>1, <3>2, <3>3, OneMore
  <2>5. CASE ~ (i >= upTo \/ i + Len(p) > Len(data)) /\ ~ MatchesAt(data, p, i)
    <3>. DEFINE j == i + Stride(data, p, i)
    <3>1. f[i] = f[j]
      BY <1>1, <2>5
    <3>2. j \in Nat /\ i < j /\ upTo <= j + k
      BY StrideIs, <2>1
    <3>3. ScanFinds(data, p, upTo, j, f[j])
      BY <2>2, <3>2
    <3>. HIDE DEF j
    <3>4. /\ f[j] \in Seq(Nat)
          /\ \A l \in 1 .. Len(f[j]) : /\ j <= f[j][l] /\ f[j][l] < upTo
                                       /\ MatchesAt(data, p, f[j][l])
          /\ \A l \in 1 .. Len(f[j]) - 1 : f[j][l] + Len(p) <= f[j][l + 1]
      BY <3>3 DEF ScanFinds
    <3>5. \A l \in 1 .. Len(f[j]) : i <= f[j][l]
      BY <3>2, <3>4
    <3>6. QED
      BY <3>1, <3>4, <3>5 DEF ScanFinds
  <2>6. QED
    BY <2>3, <2>4, <2>5
<1>5. upTo \in S
  <2>. HIDE DEF S
  <2>1. Nat \subseteq S
    BY <1>3, <1>4, SetInduction
  <2>2. QED
    BY <2>1
<1>6. QED
  BY <1>0, <1>5

-----------------------------------------------------------------------------
(* What a window finds. *)

\* What matches in a window read from c0 on occurs in the text, c0 further on.
LEMMA WindowMatches ==
  ASSUME NEW text, Len(text) \in Nat, NEW p, Len(p) \in Nat \ {0},
         NEW c0 \in Nat, NEW e \in Int, e <= Len(text)
  PROVE  LET data == SubSeq(text, c0 + 1, e)
         IN  /\ Len(data) \in Nat
             /\ \A i \in Nat : MatchesAt(data, p, i) => Occurs(text, p, c0 + i)
<1>. DEFINE S == {text[i] : i \in c0 + 1 .. e}
            data == SubSeq(text, c0 + 1, e)
<1>1. /\ Len(data) = IF c0 + 1 <= e THEN e - (c0 + 1) + 1 ELSE 0
      /\ \A i \in 1 .. e - (c0 + 1) + 1 : data[i] = text[c0 + 1 + i - 1]
  <2>1. \A i \in c0 + 1 .. e : text[i] \in S
    OBVIOUS
  <2>2. c0 + 1 \in Int
    OBVIOUS
  <2>. HIDE DEF S
  <2>3. QED
    BY <2>1, <2>2, SubSeqProperties
<1>. HIDE DEF data
<1>2. Len(data) \in Nat
  BY <1>1
<1>3. ASSUME NEW i \in Nat, MatchesAt(data, p, i) PROVE Occurs(text, p, c0 + i)
  <2>1. i + Len(p) <= Len(data) /\ \A k \in 1 .. Len(p) : p[k] = Any \/ p[k] = data[i + k]
    BY <1>3 DEF MatchesAt
  <2>2. c0 + 1 <= e /\ Len(data) = e - c0
    BY <1>1, <2>1
  <2>3. c0 + i + Len(p) <= Len(text)
    BY <2>1, <2>2
  <2>4. ASSUME NEW k \in 1 .. Len(p) PROVE p[k] \in {Any, text[c0 + i + k]}
    <3>1. i + k \in 1 .. e - (c0 + 1) + 1 /\ c0 + 1 + (i + k) - 1 = c0 + i + k
      BY <2>1, <2>2
    <3>2. data[i + k] = text[c0 + i + k]
      BY <1>1, <3>1
    <3>3. QED
      BY <2>1, <3>2
  <2>5. QED
    BY <2>3, <2>4 DEF Occurs
<1>4. QED
  BY <1>2, <1>3 DEF data

\* What a window must find: matches that start in it, in order and apart, none of
\* which touches what could not be read.
Sightings(out, p, text, unread, c0, c1) ==
  /\ out \in Seq(Nat)
  /\ \A k \in 1 .. Len(out) :
       /\ c0 <= out[k] /\ out[k] < c1
       /\ Occurs(text, p, out[k]) /\ ~ TouchesUnread(unread, out[k], Len(p))
  /\ \A k \in 1 .. Len(out) - 1 : out[k] + Len(p) <= out[k + 1]

\* The filter keeps the order and the distance of what it keeps.
LEMMA Kept ==
  ASSUME NEW p, Len(p) \in Nat, NEW text, NEW unread, NEW c0 \in Nat, NEW c1 \in Nat,
         NEW rel \in Seq(Nat),
         \A k \in 1 .. Len(rel) : c0 + rel[k] < c1 /\ Occurs(text, p, c0 + rel[k]),
         \A k \in 1 .. Len(rel) - 1 : rel[k] + Len(p) <= rel[k + 1],
         NEW out, \A k \in 0 .. Len(rel) : out[k] =
                    IF k = 0 THEN <<>>
                    ELSE IF TouchesUnread(unread, c0 + rel[k], Len(p)) THEN out[k - 1]
                    ELSE Append(out[k - 1], c0 + rel[k])
  PROVE  Sightings(out[Len(rel)], p, text, unread, c0, c1)
<1>. DEFINE m == Len(p)
            n == Len(rel)
            Before(k) == k < n => \A j \in 1 .. Len(out[k]) : out[k][j] + m <= c0 + rel[k + 1]
            S == {k \in 0 .. n : Sightings(out[k], p, text, unread, c0, c1) /\ Before(k)}
<1>1. n \in Nat /\ \A k \in 1 .. n : rel[k] \in Nat
  OBVIOUS
<1>2. 0 \in S
  <2>1. out[0] = <<>> /\ 0 \in 0 .. n
    BY <1>1
  <2>2. Sightings(<<>>, p, text, unread, c0, c1)
    BY DEF Sightings
  <2>3. \A j \in 1 .. Len(<<>>) : FALSE
    OBVIOUS
  <2>4. Before(0)
    BY <2>1, <2>3
  <2>. HIDE DEF Before
  <2>5. QED
    BY <2>1, <2>2, <2>4
<1>3. ASSUME NEW k \in 1 .. n, k - 1 \in S PROVE k \in S
  <2>. DEFINE o == out[k - 1]
              x == c0 + rel[k]
  <2>1. /\ k \in 0 .. n /\ k - 1 \in 0 .. n /\ k - 1 < n /\ (k - 1) + 1 = k
        /\ rel[k] \in Nat /\ x \in Nat /\ c0 <= x
        /\ k < n => k + 1 \in 1 .. n /\ k \in 1 .. n - 1 /\ rel[k + 1] \in Nat
    <3>1. n \in Nat /\ rel[k] \in Nat
      BY <1>1
    <3>2. /\ k \in 0 .. n /\ k - 1 \in 0 .. n /\ k - 1 < n /\ (k - 1) + 1 = k
          /\ k < n => k + 1 \in 1 .. n /\ k \in 1 .. n - 1
      <4>. HIDE DEF n
      <4>1. QED
        BY <3>1
    <3>3. x \in Nat /\ c0 <= x
      <4>. DEFINE u == rel[k]
      <4>. HIDE DEF u
      <4>1. u \in Nat
        BY <3>1 DEF u
      <4>2. c0 + u \in Nat /\ c0 <= c0 + u
        BY <4>1
      <4>3. QED
        BY <4>2 DEF u
    <3>4. k < n => rel[k + 1] \in Nat
      <4>. HIDE DEF n
      <4>1. QED
        BY <1>1, <3>2
    <3>. HIDE DEF n, x
    <3>5. QED
      BY <3>1, <3>2, <3>3, <3>4
  <2>2. /\ o \in Seq(Nat)
        /\ \A j \in 1 .. Len(o) :
             /\ c0 <= o[j] /\ o[j] < c1
             /\ Occurs(text, p, o[j]) /\ ~ TouchesUnread(unread, o[j], m)
        /\ \A j \in 1 .. Len(o) - 1 : o[j] + m <= o[j + 1]
    <3>1. Sightings(o, p, text, unread, c0, c1)
      BY <1>3
    <3>2. QED
      BY <3>1 DEF Sightings
  <2>3. \A j \in 1 .. Len(o) : o[j] + m <= x
    <3>1. Before(k - 1)
      BY <1>3
    <3>2. QED
      BY <2>1, <3>1
  <2>. DEFINE y == c0 + rel[k + 1]
  <2>4. k < n => x + m <= y /\ x <= y /\ y \in Nat
    <3>1. SUFFICES ASSUME k < n PROVE x + m <= y /\ x <= y /\ y \in Nat
      OBVIOUS
    <3>2. k \in 1 .. Len(rel) - 1 /\ rel[k + 1] \in Nat /\ rel[k] \in Nat
      BY <2>1, <3>1
    <3>3. rel[k] + m <= rel[k + 1]
      BY <3>2
    <3>. DEFINE u == rel[k]
                v == rel[k + 1]
    <3>. HIDE DEF u, v
    <3>4. u \in Nat /\ v \in Nat /\ u + m <= v
      BY <3>2, <3>3 DEF u, v
    <3>5. c0 + u + m <= c0 + v /\ c0 + u <= c0 + v /\ c0 + v \in Nat
      BY <3>4
    <3>6. QED
      BY <3>5 DEF u, v
  <2>5. \A j \in 1 .. Len(o) : o[j] \in Nat
    <3>1. o \in Seq(Nat)
      BY <2>2
    <3>. HIDE DEF o
    <3>2. QED
      BY ONLY <3>1
  <2>6. CASE TouchesUnread(unread, x, m)
    <3>1. out[k] = o
      <4>1. k \in 0 .. Len(rel) /\ k # 0
        BY <2>1
      <4>2. QED
        BY <4>1, <2>6
    <3>3. Before(k)
      <4>. HIDE DEF o, x, y, m
      <4>1. ASSUME k < n, NEW j \in 1 .. Len(o) PROVE o[j] + m <= y
        <5>1. o[j] + m <= x /\ o[j] \in Nat /\ x \in Nat /\ m \in Nat /\ x <= y /\ y \in Nat
          BY <2>1, <2>3, <2>4, <2>5, <4>1 DEF m
        <5>2. QED
          BY <5>1
      <4>2. QED
        BY <4>1, <3>1 DEF y, m
    <3>. HIDE DEF Before
    <3>4. Sightings(out[k], p, text, unread, c0, c1)
      BY <1>3, <3>1
    <3>5. QED
      BY <2>1, <3>3, <3>4
  <2>7. CASE ~ TouchesUnread(unread, x, m)
    <3>1. out[k] = Append(o, x)
      <4>1. k \in 0 .. Len(rel) /\ k # 0
        BY <2>1
      <4>2. QED
        BY <4>1, <2>7
    <3>. DEFINE z == Append(o, x)
    <3>. HIDE DEF o, x
    <3>2. /\ z \in Seq(Nat) /\ Len(z) = Len(o) + 1 /\ z[Len(o) + 1] = x /\ Len(o) \in Nat
          /\ \A j \in 1 .. Len(o) : z[j] = o[j]
      BY <2>1, <2>2
    <3>. HIDE DEF z
    <3>3. x < c1 /\ Occurs(text, p, x)
      BY DEF x
    <3>4. \A j \in 1 .. Len(z) : j \in 1 .. Len(o) \/ j = Len(o) + 1
      BY <3>2
    <3>5. \A j \in 1 .. Len(z) :
             /\ c0 <= z[j] /\ z[j] < c1
             /\ Occurs(text, p, z[j]) /\ ~ TouchesUnread(unread, z[j], m)
      BY <2>1, <2>2, <2>7, <3>2, <3>3, <3>4
    <3>6. ASSUME NEW j \in 1 .. Len(z) - 1 PROVE z[j] + m <= z[j + 1]
      <4>1. j \in 1 .. Len(o) /\ z[j] = o[j]
        BY <3>2
      <4>2. CASE j = Len(o)
        BY <2>3, <3>2, <4>1, <4>2
      <4>3. CASE j # Len(o)
        <5>1. j \in 1 .. Len(o) - 1 /\ j + 1 \in 1 .. Len(o)
          BY <3>2, <4>1, <4>3
        <5>2. QED
          BY <2>2, <3>2, <4>1, <5>1
      <4>4. QED
        BY <4>2, <4>3
    <3>7. Sightings(z, p, text, unread, c0, c1)
      BY <3>2, <3>5, <3>6 DEF Sightings
    <3>8. k < n => \A j \in 1 .. Len(z) : z[j] + m <= y
      <4>. HIDE DEF y, m
      <4>1. SUFFICES ASSUME k < n, NEW j \in 1 .. Len(z) PROVE z[j] + m <= y
        OBVIOUS
      <4>2. x + m <= y /\ x <= y /\ x \in Nat /\ y \in Nat /\ m \in Nat
        BY <2>1, <2>4, <4>1 DEF m
      <4>3. CASE j = Len(o) + 1
        BY <3>2, <4>2, <4>3
      <4>4. CASE j \in 1 .. Len(o)
        <5>1. z[j] = o[j] /\ o[j] + m <= x /\ o[j] \in Nat
          BY <2>3, <2>5, <3>2, <4>4
        <5>2. QED
          BY <4>2, <5>1
      <4>5. QED
        BY <3>4, <4>3, <4>4
    <3>9. Before(k)
      BY <3>1, <3>8 DEF z, y
    <3>. HIDE DEF Before
    <3>10. QED
      BY <2>1, <3>1, <3>7, <3>9 DEF z
  <2>8. QED
    BY <2>6, <2>7
<1>4. \A k \in 0 .. n : k \in S
  <2>. HIDE DEF S
  <2>1. QED
    BY <1>1, <1>2, <1>3, PrefixInduction
<1>5. n \in 0 .. n
  BY <1>1
<1>6. QED
  BY <1>4, <1>5

\* The filter is a recursion along what the scan found.
KeptUpTo(p, unread, c0, rel) ==
  CHOOSE f : f = [k \in 0 .. Len(rel) |->
                    IF k = 0 THEN <<>>
                    ELSE IF TouchesUnread(unread, c0 + rel[k], Len(p)) THEN f[k - 1]
                    ELSE Append(f[k - 1], c0 + rel[k])]

\* The filter's recursion has a solution, and Found is its last value
\* (search.rs:121-132).
LEMMA KeptRecursion ==
  ASSUME NEW p, NEW unread, NEW c0 \in Nat, NEW rel \in Seq(Nat)
  PROVE  \A k \in 0 .. Len(rel) : KeptUpTo(p, unread, c0, rel)[k] =
           IF k = 0 THEN <<>>
           ELSE IF TouchesUnread(unread, c0 + rel[k], Len(p)) THEN KeptUpTo(p, unread, c0, rel)[k - 1]
           ELSE Append(KeptUpTo(p, unread, c0, rel)[k - 1], c0 + rel[k])
<1>. DEFINE n == Len(rel)
            C == Seq(Nat)
            Next1(s, k) == IF TouchesUnread(unread, c0 + rel[k], Len(p)) THEN s ELSE Append(s, c0 + rel[k])
            step == [x \in C \X (1 .. n) |-> Next1(x[1], x[2])]
            Body(f) == [k \in 0 .. Len(rel) |->
                          IF k = 0 THEN <<>>
                          ELSE IF TouchesUnread(unread, c0 + rel[k], Len(p)) THEN f[k - 1]
                          ELSE Append(f[k - 1], c0 + rel[k])]
            c == KeptUpTo(p, unread, c0, rel)
<1>1. n \in Nat /\ \A k \in 1 .. n : rel[k] \in Nat /\ c0 + rel[k] \in Nat
  OBVIOUS
<1>2. <<>> \in C
  OBVIOUS
<1>3. step \in [C \X (1 .. n) -> C]
  <2>1. \A s \in C, k \in 1 .. n : Append(s, c0 + rel[k]) \in C
    BY <1>1
  <2>. HIDE DEF C, n
  <2>2. \A s \in C, k \in 1 .. n : Next1(s, k) \in C
    BY <2>1
  <2>. HIDE DEF Next1
  <2>3. QED
    BY <2>2
<1>4. PICK r : r \in Recursions(C, n, <<>>, step)
  <2>. HIDE DEF C, n, step
  <2>1. QED
    BY <1>1, <1>2, <1>3, RecursionExists
<1>5. /\ r \in [0 .. n -> C] /\ r[0] = <<>>
      /\ \A k \in 1 .. n : r[k] = step[<<r[k - 1], k>>]
  <2>. HIDE DEF C, n, step
  <2>1. QED
    BY <1>4 DEF Recursions
<1>6. ASSUME NEW k \in 0 .. n PROVE r[k] = Body(r)[k]
  <2>1. CASE k = 0
    BY <1>5, <2>1
  <2>2. CASE k # 0
    <3>1. k \in 1 .. n /\ k - 1 \in 0 .. n
      BY <1>1, <2>2
    <3>2. r[k - 1] \in C
      <4>. HIDE DEF C, n
      <4>1. QED
        BY <1>5, <3>1
    <3>3. r[k] = Next1(r[k - 1], k)
      <4>. HIDE DEF Next1, C, n
      <4>1. r[k] = step[<<r[k - 1], k>>]
        <5>. HIDE DEF step
        <5>1. QED
          BY <1>5, <3>1
      <4>. DEFINE z == r[k - 1]
      <4>2. z \in C
        BY <3>2
      <4>. HIDE DEF z
      <4>3. step[<<z, k>>] = Next1(z, k)
        BY <3>1, <4>2
      <4>4. QED
        BY <4>1, <4>3 DEF z
    <3>4. QED
      BY <2>2, <3>3
  <2>3. QED
    BY <2>1, <2>2
<1>7. r = Body(r)
  <2>1. r = [k \in 0 .. n |-> r[k]]
    <3>. HIDE DEF C
    <3>1. QED
      BY <1>5
  <2>2. Body(r) = [k \in 0 .. n |-> Body(r)[k]]
    OBVIOUS
  <2>. HIDE DEF Body, n
  <2>3. QED
    BY <1>6, <2>1, <2>2
<1>8. c = Body(c)
  <2>1. c = CHOOSE f : f = Body(f)
    BY DEF KeptUpTo
  <2>. HIDE DEF Body
  <2>2. QED
    BY <1>7, <2>1
<1>9. \A k \in 0 .. Len(rel) : c[k] =
               IF k = 0 THEN <<>>
               ELSE IF TouchesUnread(unread, c0 + rel[k], Len(p)) THEN c[k - 1]
               ELSE Append(c[k - 1], c0 + rel[k])
  <2>1. \A k \in 0 .. n : c[k] = Body(c)[k]
    <3>. HIDE DEF Body
    <3>1. QED
      BY <1>8
  <2>2. QED
    BY <2>1
<1>10. QED
  BY <1>9

\* What a window finds (search.rs:114-140).
LEMMA FoundIsRight ==
  ASSUME NEW s, s.backward \in BOOLEAN, s.next \in Int, s.stop \in Nat,
         NEW p, Len(p) \in Nat \ {0}, NEW text, Len(text) \in Nat, NEW unread,
         NEW c0 \in Nat, NEW c1 \in Nat, c0 <= c1
  PROVE  Sightings(Found(s, p, text, unread, c0, c1), p, text, unread, c0, c1)
<1>. DEFINE m == Len(p)
            e == Least(c0 + ReadLen(s, c0, c1, m), Len(text))
            data == SubSeq(text, c0 + 1, e)
            from == IF s.backward THEN 0 ELSE Monus(s.next, c0)
            rel == Scan(data, p, c1 - c0, from)
            out == KeptUpTo(p, unread, c0, rel)
<1>1. e \in Int /\ e <= Len(text) /\ from \in Nat /\ c1 - c0 \in Nat
  BY DEF Least, ReadLen, Monus, Most
<1>2. Len(data) \in Nat /\ \A i \in Nat : MatchesAt(data, p, i) => Occurs(text, p, c0 + i)
  <2>. HIDE DEF e
  <2>1. QED
    BY <1>1, WindowMatches
<1>3. ScanFinds(data, p, c1 - c0, from, rel)
  <2>. HIDE DEF data, from
  <2>1. QED
    BY <1>1, <1>2, ScanIsRight
<1>. HIDE DEF data, from
<1>4. rel \in Seq(Nat)
  <2>. HIDE DEF rel
  <2>1. QED
    BY <1>3 DEF ScanFinds
<1>5. Found(s, p, text, unread, c0, c1) = out[Len(rel)]
  BY DEF Found, KeptUpTo, data, from
<1>. HIDE DEF rel
<1>6. \A k \in 0 .. Len(rel) : out[k] =
               IF k = 0 THEN <<>>
               ELSE IF TouchesUnread(unread, c0 + rel[k], m) THEN out[k - 1]
               ELSE Append(out[k - 1], c0 + rel[k])
  BY <1>4, KeptRecursion
<1>. HIDE DEF out
<1>7. \A k \in 1 .. Len(rel) : c0 + rel[k] < c1 /\ Occurs(text, p, c0 + rel[k])
  <2>1. \A k \in 1 .. Len(rel) : rel[k] \in Nat
    BY <1>4
  <2>2. \A k \in 1 .. Len(rel) : rel[k] < c1 - c0 /\ MatchesAt(data, p, rel[k])
    BY <1>3 DEF ScanFinds
  <2>3. QED
    BY <1>2, <2>1, <2>2
<1>8. \A k \in 1 .. Len(rel) - 1 : rel[k] + Len(p) <= rel[k + 1]
  BY <1>3 DEF ScanFinds
<1>9. Sightings(out[Len(rel)], p, text, unread, c0, c1)
  BY <1>4, <1>6, <1>7, <1>8, Kept
<1>10. QED
  BY <1>5, <1>9

-----------------------------------------------------------------------------
(* The searcher. *)

Searchers ==
  [start : Nat, stop : Nat, backward : BOOLEAN, wrap : BOOLEAN, origin : Nat, pos : Nat,
   wrapped : BOOLEAN, finished : BOOLEAN, next : Nat]

\* A searcher inside its range: its window begins at a candidate, or at the end.
GoodSearcher(s, m) ==
  /\ s \in Searchers /\ s.start <= s.stop
  /\ s.start <= s.origin /\ s.origin <= CandEnd(s.start, s.stop, m)
  /\ s.start <= s.pos /\ s.pos <= CandEnd(s.start, s.stop, m)

\* What the candidates of a range end with.
LEMMA CandEndIs ==
  ASSUME NEW start \in Nat, NEW stop \in Nat, NEW m \in Nat \ {0}
  PROVE  /\ CandEnd(start, stop, m) \in Nat /\ start <= CandEnd(start, stop, m)
         /\ CandEnd(start, stop, m) = Larger(stop - m + 1, start)
         /\ start < CandEnd(start, stop, m) => CandEnd(start, stop, m) + m - 1 = stop
         /\ start <= stop => CandEnd(start, stop, m) <= stop
BY DEF CandEnd, Most, Monus, Larger

\* The candidates left in a pass lie in the range, and matches there end in it.
LEMMA GoodIsInRange ==
  ASSUME NEW m \in Nat \ {0}, NEW s, GoodSearcher(s, m)
  PROVE  /\ InRange(s, m)
         /\ Lo(s) \in Nat /\ Hi(s, m) \in Nat
         /\ s.start <= Lo(s) /\ Lo(s) <= CandEnd(s.start, s.stop, m)
         /\ s.start <= Hi(s, m) /\ Hi(s, m) <= CandEnd(s.start, s.stop, m)
         /\ Lo(s) < Hi(s, m) => Hi(s, m) + m - 1 <= s.stop
<1>. DEFINE c == CandEnd(s.start, s.stop, m)
<1>1. /\ s.start \in Nat /\ s.stop \in Nat /\ s.origin \in Nat /\ s.pos \in Nat
      /\ s.backward \in BOOLEAN /\ s.wrapped \in BOOLEAN /\ s.finished \in BOOLEAN
      /\ s.start <= s.stop /\ s.start <= s.origin /\ s.origin <= c
      /\ s.start <= s.pos /\ s.pos <= c
  BY DEF GoodSearcher, Searchers
<1>2. /\ c \in Nat /\ s.start <= c /\ c = Larger(s.stop - m + 1, s.start)
      /\ s.start < c => c + m - 1 = s.stop
  <2>. DEFINE a == s.start
              b == s.stop
  <2>1. a \in Nat /\ b \in Nat /\ c = CandEnd(a, b, m)
    BY <1>1
  <2>. HIDE DEF a, b, c
  <2>2. /\ c \in Nat /\ a <= c /\ c = Larger(b - m + 1, a)
        /\ a < c => c + m - 1 = b
    BY <2>1, CandEndIs
  <2>3. QED
    BY <2>2 DEF a, b
<1>3. /\ Lo(s) \in Nat /\ Hi(s, m) \in Nat
      /\ s.start <= Lo(s) /\ Lo(s) <= c /\ s.start <= Hi(s, m) /\ Hi(s, m) <= c
  <2>1. Lo(s) \in {s.pos, s.origin, s.start} /\ Hi(s, m) \in {s.pos, s.origin, c}
    BY DEF Lo, Hi
  <2>. HIDE DEF c
  <2>2. QED
    BY <1>1, <1>2, <2>1
<1>. HIDE DEF c
<1>4. Lo(s) < Hi(s, m) => Hi(s, m) + m - 1 <= s.stop
  <2>1. SUFFICES ASSUME Lo(s) < Hi(s, m) PROVE Hi(s, m) + m - 1 <= s.stop
    OBVIOUS
  <2>2. s.start < c
    BY <1>1, <1>2, <1>3, <2>1
  <2>3. QED
    BY <1>1, <1>2, <1>3, <2>2
<1>5. InRange(s, m)
  BY <1>1, <1>2, <1>3, <1>4 DEF InRange
<1>6. QED
  BY <1>3, <1>4, <1>5 DEF c

\* A new searcher is one.
LEMMA NewIsGood ==
  ASSUME NEW m \in Nat \ {0}, NEW start \in Nat, NEW stop \in Nat, start <= stop,
         NEW len \in Nat, NEW from \in Nat, NEW backward \in BOOLEAN, NEW wrap \in BOOLEAN
  PROVE  LET s == NewSearcher(start, stop, len, from, backward, wrap, m)
         IN  GoodSearcher(s, m) /\ s.stop <= stop /\ s.stop <= len /\ s.start = Least(start, len)
<1>. DEFINE a == Least(start, len)
            b == Least(stop, len)
            c == CandEnd(a, b, m)
            o == Most(a, Least(from, c))
            s == NewSearcher(start, stop, len, from, backward, wrap, m)
<1>1. a \in Nat /\ b \in Nat /\ a <= b /\ b <= stop /\ b <= len
  BY DEF Least
<1>2. c \in Nat /\ a <= c
  <2>. HIDE DEF a, b
  <2>1. QED
    BY <1>1, CandEndIs
<1>3. o \in Nat /\ a <= o /\ o <= c
  <2>. HIDE DEF a, b, c
  <2>1. QED
    BY <1>1, <1>2 DEF Least, Most
<1>4. s = [start |-> a, stop |-> b, backward |-> backward, wrap |-> wrap,
           origin |-> o, pos |-> o, wrapped |-> FALSE, finished |-> a >= c, next |-> o]
  BY DEF NewSearcher
<1>5. (a >= c) \in BOOLEAN
  OBVIOUS
<1>. DEFINE f == (a >= c)
<1>6. f \in BOOLEAN
  BY <1>5
<1>. HIDE DEF a, b, o, f
<1>7. /\ s \in Searchers /\ s.start = a /\ s.stop = b /\ s.origin = o /\ s.pos = o
  <2>1. s = [start |-> a, stop |-> b, backward |-> backward, wrap |-> wrap,
             origin |-> o, pos |-> o, wrapped |-> FALSE, finished |-> f, next |-> o]
    BY <1>4 DEF f
  <2>. HIDE DEF s, c
  <2>2. QED
    BY <1>1, <1>3, <1>6, <2>1 DEF Searchers
<1>. HIDE DEF s
<1>8. QED
  BY <1>1, <1>3, <1>7 DEF GoodSearcher, s, a

\* The end of a pass keeps the searcher in its range.
LEMMA AdvanceKeeps ==
  ASSUME NEW m \in Nat \ {0}, NEW s, GoodSearcher(s, m)
  PROVE  /\ GoodSearcher(AdvancePass(s, m), m)
         /\ AdvancePass(s, m).start = s.start /\ AdvancePass(s, m).stop = s.stop
<1>. DEFINE c == CandEnd(s.start, s.stop, m)
            t == AdvancePass(s, m)
<1>1. /\ s \in Searchers /\ s.start \in Nat /\ s.stop \in Nat /\ s.origin \in Nat
      /\ s.backward \in BOOLEAN /\ s.wrapped \in BOOLEAN /\ s.wrap \in BOOLEAN
      /\ s.start <= s.stop /\ s.start <= s.origin /\ s.origin <= c
      /\ s.start <= s.pos /\ s.pos <= c
  BY DEF GoodSearcher, Searchers
<1>2. c \in Nat /\ s.start <= c
  BY <1>1, CandEndIs
<1>3. (c <= s.origin) \in BOOLEAN /\ (s.start >= s.origin) \in BOOLEAN
  OBVIOUS
<1>4. /\ t \in Searchers /\ t.start = s.start /\ t.stop = s.stop /\ t.origin = s.origin
      /\ t.pos \in {s.pos, c, s.start}
  <2>1. t \in {[s EXCEPT !.finished = TRUE],
               [s EXCEPT !.wrapped = TRUE, !.pos = c, !.finished = c <= s.origin],
               [s EXCEPT !.wrapped = TRUE, !.pos = s.start, !.next = s.start,
                         !.finished = s.start >= s.origin]}
    BY DEF AdvancePass
  <2>. HIDE DEF t, c
  <2>2. CASE t = [s EXCEPT !.finished = TRUE]
    BY <1>1, <2>2 DEF Searchers
  <2>. DEFINE f == (c <= s.origin)
              g == (s.start >= s.origin)
  <2>3. f \in BOOLEAN /\ g \in BOOLEAN
    BY <1>3
  <2>4. CASE t = [s EXCEPT !.wrapped = TRUE, !.pos = c, !.finished = f]
    <3>. HIDE DEF f
    <3>1. QED
      BY <1>1, <1>2, <2>3, <2>4 DEF Searchers
  <2>5. CASE t = [s EXCEPT !.wrapped = TRUE, !.pos = s.start, !.next = s.start, !.finished = g]
    <3>. HIDE DEF g
    <3>1. QED
      BY <1>1, <2>3, <2>5 DEF Searchers
  <2>6. QED
    BY <2>1, <2>2, <2>4, <2>5
<1>. HIDE DEF t
<1>5. QED
  BY <1>1, <1>2, <1>4 DEF GoodSearcher, t

\* What a step answers with: matches of the text at that moment, inside the range
\* of the searcher, in order and apart, of bytes that could be read.
StepFinds(out, s, p, text, unread) ==
  /\ out \in Seq(Nat)
  /\ \A k \in 1 .. Len(out) :
       /\ s.start <= out[k] /\ out[k] + Len(p) <= s.stop
       /\ Occurs(text, p, out[k]) /\ ~ TouchesUnread(unread, out[k], Len(p))
  /\ \A k \in 1 .. Len(out) - 1 : out[k] + Len(p) <= out[k + 1]

StepKeeps(st, s, p, text, unread) ==
  /\ GoodSearcher(st.searcher, Len(p))
  /\ st.searcher.start = s.start /\ st.searcher.stop = s.stop
  /\ st.scanned \in Nat
  /\ StepFinds(st.out, s, p, text, unread)

\* A step keeps the searcher in its range (search.rs:78-147).
LEMMA SteppedIsRight ==
  ASSUME NEW p, Len(p) \in Nat \ {0}, NEW s, GoodSearcher(s, Len(p)),
         NEW text, Len(text) \in Nat, NEW unread, NEW room \in Int
  PROVE  StepKeeps(Stepped(s, p, text, unread, room), s, p, text, unread)
<1>. DEFINE m == Len(p)
            lo == Lo(s)
            hi == Hi(s, m)
            c == CandEnd(s.start, s.stop, m)
            window == Most(1, Least(room, Window))
            c0 == IF s.backward THEN Most(Monus(hi, window), lo) ELSE lo
            c1 == IF s.backward THEN hi ELSE Least(lo + window, hi)
            out == Found(s, p, text, unread, c0, c1)
            moved == [s EXCEPT !.pos = IF s.backward THEN c0 ELSE c1,
                               !.next = IF s.backward \/ out = <<>> THEN @ ELSE out[Len(out)] + m]
            over == IF s.backward THEN c0 <= Lo(s) ELSE c1 >= Hi(s, m)
            st == Stepped(s, p, text, unread, room)
<1>1. /\ s \in Searchers /\ s.start \in Nat /\ s.stop \in Nat /\ s.origin \in Nat
      /\ s.backward \in BOOLEAN /\ s.next \in Nat
      /\ s.start <= s.stop /\ s.start <= s.origin /\ s.origin <= c
  BY DEF GoodSearcher, Searchers
<1>2. /\ lo \in Nat /\ hi \in Nat /\ s.start <= lo /\ lo <= c /\ hi <= c
      /\ lo < hi => hi + m - 1 <= s.stop
  BY GoodIsInRange
<1>3. StepFinds(<<>>, s, p, text, unread)
  BY DEF StepFinds
<1>4. CASE s.finished
  <2>1. st = [searcher |-> s, out |-> <<>>, scanned |-> 0]
    BY <1>4 DEF Stepped
  <2>2. QED
    BY <1>3, <2>1 DEF StepKeeps
<1>5. CASE ~ s.finished /\ lo >= hi
  <2>1. st = [searcher |-> AdvancePass(s, m), out |-> <<>>, scanned |-> 0]
    BY <1>5 DEF Stepped
  <2>2. QED
    BY <1>3, <2>1, AdvanceKeeps DEF StepKeeps
<1>6. CASE ~ s.finished /\ lo < hi
  <2>1. window \in Nat /\ window >= 1
    BY WindowAssumption DEF Most, Least
  <2>2. c0 \in Nat /\ c1 \in Nat /\ c0 < c1 /\ lo <= c0 /\ c1 <= hi
    <3>. HIDE DEF lo, hi, window
    <3>1. QED
      BY <1>1, <1>2, <1>6, <2>1 DEF Most, Least, Monus
  <2>. HIDE DEF c0, c1
  <2>3. Sightings(out, p, text, unread, c0, c1)
    <3>1. c0 <= c1
      BY <2>2
    <3>2. QED
      BY <1>1, <2>2, <3>1, FoundIsRight
  <2>4. st = [searcher |-> IF over THEN AdvancePass(moved, m) ELSE moved, out |-> out, scanned |-> c1 - c0]
    <3>1. ~ (lo >= hi) /\ ~ s.finished
      BY <1>2, <1>6
    <3>2. st = AfterWindow(s, m, c0, c1, out)
      <4>. HIDE DEF out, over, moved
      <4>1. QED
        BY <3>1 DEF Stepped, c0, c1, out
    <3>3. QED
      BY <3>2 DEF AfterWindow
  <2>. HIDE DEF out
  <2>5. /\ out \in Seq(Nat)
        /\ \A k \in 1 .. Len(out) :
             /\ c0 <= out[k] /\ out[k] < c1
             /\ Occurs(text, p, out[k]) /\ ~ TouchesUnread(unread, out[k], m)
        /\ \A k \in 1 .. Len(out) - 1 : out[k] + m <= out[k + 1]
    BY <2>3 DEF Sightings
  <2>6. StepFinds(out, s, p, text, unread)
    <3>1. ASSUME NEW k \in 1 .. Len(out) PROVE s.start <= out[k] /\ out[k] + m <= s.stop
      <4>1. out[k] \in Nat /\ c0 <= out[k] /\ out[k] < c1
        BY <2>5
      <4>. DEFINE x == out[k]
      <4>. HIDE DEF x, lo, hi, c, m
      <4>2. x \in Nat /\ c0 <= x /\ x < c1 /\ m \in Nat
        BY <4>1 DEF x, m
      <4>3. s.start <= x
        BY <1>1, <1>2, <2>2, <4>2
      <4>4. hi + m - 1 <= s.stop
        BY <1>2, <1>6
      <4>5. x + m <= s.stop
        BY <1>1, <1>2, <2>2, <4>2, <4>4
      <4>6. QED
        BY <4>3, <4>5 DEF x
    <3>2. QED
      BY <2>5, <3>1 DEF StepFinds
  <2>7. (IF s.backward \/ out = <<>> THEN s.next ELSE out[Len(out)] + m) \in Nat
    <3>1. out # <<>> => out[Len(out)] \in Nat
      BY <2>5
    <3>2. QED
      BY <1>1, <3>1
  <2>8. /\ moved \in Searchers /\ moved.start = s.start /\ moved.stop = s.stop
        /\ moved.origin = s.origin /\ moved.pos \in {c0, c1}
    <3>. DEFINE x == IF s.backward \/ out = <<>> THEN s.next ELSE out[Len(out)] + m
                y == IF s.backward THEN c0 ELSE c1
    <3>1. moved = [s EXCEPT !.pos = y, !.next = x]
      OBVIOUS
    <3>2. x \in Nat /\ y \in Nat /\ y \in {c0, c1}
      BY <2>2, <2>7
    <3>. HIDE DEF x, y, moved
    <3>3. QED
      BY <1>1, <3>1, <3>2 DEF Searchers
  <2>9. GoodSearcher(moved, m)
    <3>. HIDE DEF moved, lo, hi, c
    <3>1. s.start <= moved.pos /\ moved.pos <= c
      <4>1. c \in Nat
        BY <1>1, CandEndIs DEF c
      <4>2. QED
        BY <1>1, <1>2, <2>2, <2>8, <4>1
    <3>2. QED
      BY <1>1, <2>8, <3>1 DEF GoodSearcher, c
  <2>10. /\ GoodSearcher(st.searcher, m)
         /\ st.searcher.start = s.start /\ st.searcher.stop = s.stop
    <3>1. st.searcher \in {moved, AdvancePass(moved, m)}
      <4>. HIDE DEF moved, over
      <4>1. QED
        BY <2>4
    <3>. HIDE DEF moved, st
    <3>2. QED
      BY <2>8, <2>9, <3>1, AdvanceKeeps
  <2>11. st.out = out /\ st.scanned = c1 - c0 /\ c1 - c0 \in Nat
    <3>. HIDE DEF moved, over
    <3>1. QED
      BY <2>2, <2>4
  <2>12. QED
    <3>. HIDE DEF st
    <3>1. QED
      BY <2>6, <2>10, <2>11 DEF StepKeeps, st
<1>7. QED
  BY <1>1, <1>2, <1>4, <1>5, <1>6

-----------------------------------------------------------------------------
(* One replacement, as what it does to the document. *)

\* w is c with the cells y instead of the m cells at `at`.
Substitutes(c, w, at, m, y) ==
  /\ at + m <= Len(c) /\ Len(w) = Len(c) - m + Len(y)
  /\ \A i \in 1 .. at : w[i] = c[i]
  /\ \A i \in 1 .. Len(y) : w[at + i] = y[i]
  /\ \A i \in at + m + 1 .. Len(c) : w[i - m + Len(y)] = c[i]

\* Taking m cells out and putting y in there substitutes them.
LEMMA JoinedSubstitutes ==
  ASSUME NEW c \in Seq(Cell), NEW v \in Seq(Cell), NEW w \in Seq(Cell),
         NEW x \in Seq(Cell), NEW y \in Seq(Cell), NEW at \in Nat, NEW m \in Nat,
         Len(x) = m, Joined(v, c, at, x), Joined(v, w, at, y)
  PROVE  Substitutes(c, w, at, m, y)
<1>1. /\ Len(c) = Len(v) + m /\ Len(w) = Len(v) + Len(y) /\ at <= Len(v)
      /\ Len(c) \in Nat /\ Len(v) \in Nat /\ Len(w) \in Nat /\ Len(y) \in Nat
      /\ \A i \in 1 .. at : c[i] = v[i] /\ w[i] = v[i]
      /\ \A i \in 1 .. Len(y) : w[at + i] = y[i]
      /\ \A i \in at + 1 .. Len(v) : c[m + i] = v[i] /\ w[Len(y) + i] = v[i]
  <2>1. /\ Len(c) = Len(v) + m /\ at \in 0 .. Len(v)
        /\ \A i \in 1 .. at : c[i] = v[i]
        /\ \A i \in at + 1 .. Len(v) : c[m + i] = v[i]
    BY DEF Joined
  <2>2. /\ Len(w) = Len(v) + Len(y)
        /\ \A i \in 1 .. at : w[i] = v[i]
        /\ \A i \in 1 .. Len(y) : w[at + i] = y[i]
        /\ \A i \in at + 1 .. Len(v) : w[Len(y) + i] = v[i]
    BY DEF Joined
  <2>3. Len(c) \in Nat /\ Len(v) \in Nat /\ Len(w) \in Nat /\ Len(y) \in Nat
    OBVIOUS
  <2>4. QED
    BY <2>1, <2>2, <2>3
<1>2. ASSUME NEW i \in at + m + 1 .. Len(c) PROVE w[i - m + Len(y)] = c[i]
  <2>. DEFINE j == i - m
  <2>1. j \in at + 1 .. Len(v) /\ m + j = i /\ Len(y) + j = i - m + Len(y)
    BY <1>1
  <2>2. c[m + j] = v[j] /\ w[Len(y) + j] = v[j]
    <3>. HIDE DEF j
    <3>1. QED
      BY <1>1, <2>1
  <2>. HIDE DEF j
  <2>3. QED
    BY <2>1, <2>2
<1>3. at + m <= Len(c) /\ Len(w) = Len(c) - m + Len(y)
  BY <1>1
<1>4. QED
  BY <1>1, <1>2, <1>3 DEF Substitutes

\* Merging and committing leave the add buffer alone.
LEMMA MergeAdded ==
  ASSUME NEW d \in Docs(Piece)
  PROVE  /\ MergeWithPrevious(d).added = d.added /\ MergeWithPrevious(d).table = d.table
         /\ MergeWithPrevious(d).resizable = d.resizable
<1>1. CASE MayMerge(d)
  <2>. DEFINE u == Append(SubSeq(d.undo, 1, Len(d.undo) - 1 - 1),
                          d.undo[Len(d.undo) - 1] \o d.undo[Len(d.undo) - 1 + 1])
              s == CASE d.savedDepth = Len(d.undo) - 1     -> Unreachable
                     [] d.savedDepth = Len(d.undo) - 1 + 1 -> Len(d.undo) - 1
                     [] OTHER                -> d.savedDepth
  <2>1. MergeWithPrevious(d) = [d EXCEPT !.undo = u, !.savedDepth = s]
    BY <1>1 DEF MergeWithPrevious
  <2>. HIDE DEF u, s
  <2>2. QED
    BY <2>1 DEF Docs
<1>2. CASE ~ MayMerge(d)
  BY <1>2 DEF MergeWithPrevious
<1>3. QED
  BY <1>1, <1>2

\* Committing a table leaves the add buffer alone (document.rs, commit).
LEMMA CommitAdded ==
  ASSUME NEW d \in Docs(Piece), NEW tx
  PROVE  Commit(d, tx).added = d.added /\ Commit(d, tx).table = d.table
<1>. DEFINE u == Append(d.undo, tx)
            s == IF d.savedDepth > Len(d.undo) + 1 THEN Unreachable ELSE d.savedDepth
<1>1. Commit(d, tx) = [d EXCEPT !.undo = u, !.redo = <<>>, !.savedDepth = s]
  BY DEF Commit
<1>. HIDE DEF u, s
<1>2. QED
  BY <1>1 DEF Docs

\* Inserting n bytes appends n to the add buffer.
LEMMA InsertionAdded ==
  ASSUME NEW d \in GoodDocs, NEW offset \in Nat, NEW n \in Nat \ {0}, offset <= Length(d),
         NEW covered
  PROVE  CommitInsertion(d, offset, n, covered).added = d.added + n
<1>. DEFINE h == WithInsertion(d, offset, n)
            t == Apply(d.table, Inserting(d, offset, n))
            tx == Append(covered, Inserting(d, offset, n))
<1>1. h \in Docs(Piece)
  BY InsertionLeads
<1>2. h.added = d.added + n
  <2>1. d \in Docs(Piece)
    BY DEF GoodDocs
  <2>2. h = [d EXCEPT !.added = d.added + n, !.spilled = Spills(d, n), !.table = t]
    BY <2>1 DEF WithInsertion, Appended, Docs
  <2>. HIDE DEF h, t
  <2>3. QED
    BY <2>1, <2>2 DEF Docs
<1>3. CommitInsertion(d, offset, n, covered) = Commit(h, tx)
  BY DEF CommitInsertion
<1>. HIDE DEF h, tx
<1>4. QED
  BY <1>1, <1>2, <1>3, CommitAdded

\* The bytes an edit adds are the next ones of the add buffer.
AddedCells(d, n, y) ==
  y \in Seq(Cell) /\ Len(y) = n /\ \A i \in 1 .. n : y[i] = <<"Added", d.added + i - 1>>

\* What add_bytes hands to an edit are the next bytes of the buffer (add_buffer.rs).
LEMMA NewCells ==
  ASSUME NEW d \in GoodDocs, NEW n \in Nat
  PROVE  AddedCells(d, n, Content(<<AddedPiece(d, n)>>))
<1>. DEFINE p == AddedPiece(d, n)
<1>1. p \in Piece /\ p.len = n /\ p.store = "Added" /\ p.offset = d.added
  BY AddedBytes DEF AddedPiece
<1>. HIDE DEF p
<1>2. Content(<<p>>) = Bytes(p)
  BY <1>1, ContentOfOne
<1>3. /\ Bytes(p) \in Seq(Cell) /\ Len(Bytes(p)) = p.len
      /\ \A i \in 1 .. p.len : Bytes(p)[i] = <<p.store, p.offset + i - 1>>
  BY <1>1, BytesType
<1>4. QED
  BY <1>1, <1>2, <1>3 DEF AddedCells, p

\* What one replacement makes of a document.
Replaces(d, g, at, m, n) ==
  /\ Commits(d, g)
  /\ g.added = d.added + n
  /\ \E y : AddedCells(d, n, y) /\ Substitutes(Content(d.table), Content(g.table), at, m, y)

\* An overwrite of as many bytes.
LEMMA OverwriteReplaces ==
  ASSUME NEW d \in GoodDocs, NEW at \in Nat, NEW m \in Nat \ {0}, at + m <= Length(d),
         MayOverwrite(d, at, m)
  PROVE  Replaces(d, Overwrite(d, at, m), at, m, m)
<1>. DEFINE u == Uncovered(d, at, m)
            v == Covered(d, at, m)
            g == Overwrite(d, at, m)
            c == Content(d.table)
            y == Content(<<AddedPiece(u, m)>>)
<1>1. /\ Commits(d, g) /\ g \in GoodDocs
      /\ at <= Length(d) /\ Length(d) \in Nat
  <2>1. at <= Length(d) /\ Length(d) \in Nat
    BY GoodDocFields
  <2>2. QED
    BY <2>1, OverwriteCommits, OverwriteGood
<1>2. /\ u \in GoodDocs /\ u.added = d.added /\ at <= Length(u)
      /\ v \in Seq(Edits(Piece)) /\ TxLeads(c, v, Content(u.table))
      /\ c \in Seq(Cell) /\ Content(u.table) \in Seq(Cell)
      /\ \E x \in Seq(Cell) : Len(x) = Overlap(d, at, m) /\ Joined(Content(u.table), c, at, x)
  BY <1>1, UncoveredLeads
<1>3. Overlap(d, at, m) = m
  BY <1>1 DEF Overlap, Smaller
<1>4. g = CommitInsertion(u, at, m, v)
  <2>1. AddedPiece(d, m) = AddedPiece(u, m)
    BY <1>2 DEF AddedPiece
  <2>2. QED
    BY <2>1 DEF Overwrite, CommitInsertion, Inserting, WithInsertion
<1>5. AddedCells(d, m, y)
  <2>1. AddedCells(u, m, y)
    BY <1>2, NewCells
  <2>2. QED
    BY <1>2, <2>1 DEF AddedCells
<1>. HIDE DEF g, u, v, c
<1>6. g.added = d.added + m
  BY <1>2, <1>4, InsertionAdded
<1>7. Joined(Content(u.table), Content(g.table), at, y) /\ Content(g.table) \in Seq(Cell)
  <2>1. EndsWithInsertion(c, u, at, m, g)
    BY <1>2, <1>4, CommitInsertionLeads
  <2>2. QED
    BY <2>1 DEF EndsWithInsertion
<1>. HIDE DEF y
<1>8. Substitutes(c, Content(g.table), at, m, y)
  <2>1. PICK x \in Seq(Cell) : Len(x) = m /\ Joined(Content(u.table), c, at, x)
    BY <1>2, <1>3
  <2>2. y \in Seq(Cell)
    BY <1>5 DEF AddedCells
  <2>. DEFINE a == Content(u.table)
              w == Content(g.table)
  <2>3. a \in Seq(Cell) /\ w \in Seq(Cell) /\ Joined(a, c, at, x) /\ Joined(a, w, at, y)
    BY <1>2, <1>7, <2>1
  <2>. HIDE DEF a, w
  <2>4. Substitutes(c, w, at, m, y)
    BY <1>2, <2>1, <2>2, <2>3, JoinedSubstitutes
  <2>5. QED
    BY <2>4 DEF w
<1>9. QED
  BY <1>1, <1>5, <1>6, <1>8 DEF Replaces, c, g

\* A deletion, as far as the content and the add buffer go.
LEMMA DeleteTakesOut ==
  ASSUME NEW d \in GoodDocs, NEW at \in Nat, NEW m \in Nat \ {0}, MayDelete(d, at, m)
  PROVE  /\ Commits(d, Delete(d, at, m)) /\ Delete(d, at, m) \in GoodDocs
         /\ Delete(d, at, m).added = d.added /\ Delete(d, at, m).resizable
         /\ at <= Length(Delete(d, at, m))
         /\ Content(d.table) \in Seq(Cell) /\ Content(Delete(d, at, m).table) \in Seq(Cell)
         /\ \E x \in Seq(Cell) :
              Len(x) = m /\ Joined(Content(Delete(d, at, m).table), Content(d.table), at, x)
<1>. DEFINE h == WithDeletion(d, at, m)
            e == Deleting(d, at, m)
            g == Delete(d, at, m)
<1>1. at + m <= Length(d) /\ d.resizable /\ Length(d) \in Nat
  BY GoodDocFields DEF MayDelete
<1>2. /\ h \in Docs(Piece) /\ h \in GoodDocs /\ h.resizable = d.resizable /\ h.added = d.added
      /\ Content(d.table) \in Seq(Cell) /\ Content(h.table) \in Seq(Cell)
      /\ Length(h) = Length(d) - m
      /\ \E x \in Seq(Cell) : Len(x) = m /\ Joined(Content(h.table), Content(d.table), at, x)
  BY <1>1, DeletionLeads
<1>3. g = Commit(h, <<e>>) /\ g \in GoodDocs /\ Commits(d, g)
  BY DeleteGood, DeleteCommits DEF Delete, WithDeletion, Deleting
<1>. HIDE DEF h, e, g
<1>4. g.added = d.added /\ g.table = h.table
  BY <1>2, <1>3, CommitAdded
<1>5. g.resizable = d.resizable
  BY <1>3 DEF Commits
<1>6. at <= Length(g)
  <2>1. Length(g) = Length(h)
    BY <1>4 DEF Length
  <2>2. QED
    BY <1>1, <1>2, <2>1
<1>7. QED
  BY <1>1, <1>2, <1>3, <1>4, <1>5, <1>6 DEF g

\* apply_replacement is one transaction that substitutes the bytes (gui/src/search.rs).
LEMMA ReplacementReplaces ==
  ASSUME NEW d \in GoodDocs, NEW at \in Nat, NEW m \in Nat \ {0}, NEW n \in Nat,
         at + m <= Length(d), MayReplace(d, at, m, n)
  PROVE  Replaces(d, ApplyReplacement(d, at, m, n), at, m, n)
<1>1. CASE n = m
  BY <1>1, OverwriteReplaces DEF MayReplace, ApplyReplacement
<1>2. CASE n # m
  <2>. DEFINE g == Delete(d, at, m)
              c == Content(d.table)
  <2>1. MayDelete(d, at, m)
    BY <1>2 DEF MayReplace
  <2>2. /\ Commits(d, g) /\ g \in GoodDocs /\ g.added = d.added /\ g.resizable
        /\ at <= Length(g) /\ c \in Seq(Cell) /\ Content(g.table) \in Seq(Cell)
    BY <2>1, DeleteTakesOut
  <2>3. PICK x \in Seq(Cell) : Len(x) = m /\ Joined(Content(g.table), c, at, x)
    BY <2>1, DeleteTakesOut
  <2>. DEFINE a == Content(g.table)
  <2>4. CASE n = 0
    <3>1. ApplyReplacement(d, at, m, n) = g
      BY <1>2, <2>4 DEF ApplyReplacement
    <3>2. AddedCells(d, n, <<>>)
      BY <2>4 DEF AddedCells
    <3>3. Joined(a, a, at, <<>>)
      <4>1. at \in 0 .. Len(a)
        BY <2>3 DEF Joined
      <4>. HIDE DEF a
      <4>2. QED
        BY <2>2, <4>1 DEF Joined, a
    <3>4. Substitutes(c, a, at, m, <<>>)
      <4>1. <<>> \in Seq(Cell)
        OBVIOUS
      <4>. HIDE DEF a, c, g
      <4>2. a \in Seq(Cell) /\ Joined(a, c, at, x)
        BY <2>2, <2>3 DEF a
      <4>3. QED
        BY <2>2, <2>3, <3>3, <4>1, <4>2, JoinedSubstitutes
    <3>5. g.added = d.added + n
      <4>1. d.added \in Nat
        BY GoodDocFields
      <4>. HIDE DEF g
      <4>2. QED
        BY <2>2, <2>4, <4>1
    <3>. HIDE DEF g, c, a
    <3>6. QED
      BY <2>2, <3>1, <3>2, <3>4, <3>5 DEF Replaces, c, a
  <2>5. CASE n # 0
    <3>. DEFINE o == Insert(g, at, n)
                h == MergeWithPrevious(o)
                y == Content(<<AddedPiece(g, n)>>)
    <3>1. ApplyReplacement(d, at, m, n) = h
      BY <1>2, <2>5 DEF ApplyReplacement
    <3>. HIDE DEF g
    <3>2. MayInsert(g, at, n) /\ n \in Nat \ {0}
      BY <2>2, <2>5 DEF MayInsert
    <3>3. Commits(g, o)
      BY <2>2, <3>2, InsertCommits
    <3>4. o \in GoodDocs /\ o \in Docs(Piece)
      BY <3>3 DEF Commits, GoodDocs
    <3>5. AddedCells(d, n, y)
      <4>1. AddedCells(g, n, y)
        BY <2>2, NewCells
      <4>2. QED
        BY <2>2, <4>1 DEF AddedCells
    <3>6. o = CommitInsertion(g, at, n, <<>>)
      <4>1. Append(<<>>, Inserting(g, at, n)) = <<Inserting(g, at, n)>>
        OBVIOUS
      <4>2. QED
        BY <4>1 DEF Insert, CommitInsertion, Inserting, WithInsertion
    <3>7. <<>> \in Seq(Edits(Piece)) /\ TxLeads(a, <<>>, a)
      BY <2>2, NothingLeads
    <3>. HIDE DEF o
    <3>8. Joined(a, Content(o.table), at, y) /\ Content(o.table) \in Seq(Cell)
      <4>1. EndsWithInsertion(a, g, at, n, o)
        BY <2>2, <3>2, <3>6, <3>7, CommitInsertionLeads
      <4>2. QED
        BY <4>1 DEF EndsWithInsertion
    <3>9. o.added = d.added + n
      BY <2>2, <3>2, <3>6, InsertionAdded
    <3>10. h.added = d.added + n /\ h.table = o.table
      BY <3>4, <3>9, MergeAdded
    <3>11. Commits(d, h)
      BY <2>2, <3>3, MergeCommits
    <3>. HIDE DEF y, h
    <3>12. Substitutes(c, Content(h.table), at, m, y)
      <4>. DEFINE w == Content(o.table)
      <4>1. y \in Seq(Cell)
        BY <3>5 DEF AddedCells
      <4>2. a \in Seq(Cell) /\ w \in Seq(Cell) /\ c \in Seq(Cell) /\ Joined(a, c, at, x) /\ Joined(a, w, at, y)
        BY <2>2, <2>3, <3>8
      <4>. HIDE DEF a, w, c
      <4>3. Substitutes(c, w, at, m, y)
        BY <2>3, <4>1, <4>2, JoinedSubstitutes
      <4>4. QED
        BY <3>10, <4>3 DEF w
    <3>13. QED
      BY <3>1, <3>5, <3>10, <3>11, <3>12 DEF Replaces
  <2>6. QED
    BY <2>4, <2>5
<1>3. QED
  BY <1>1, <1>2

-----------------------------------------------------------------------------
(* The replacements of a step, one after the other. *)

\* The product with one more factor, for how far the text has shifted.
LEMMA OneMoreTimes ==
  ASSUME NEW k \in Int, NEW x \in Int
  PROVE  k * x = (k - 1) * x + x /\ k * x \in Int /\ (k - 1) * x \in Int
OBVIOUS

\* Where the matches of a step lie while they are replaced from left to right:
\* each behind the replacement before it.
LEMMA ShiftedApart ==
  ASSUME NEW out \in Seq(Nat), NEW m \in Nat, NEW n \in Nat,
         \A k \in 1 .. Len(out) - 1 : out[k] + m <= out[k + 1]
  PROVE  /\ \A k \in 1 .. Len(out) : Shifted(out, k, n - m) \in Nat
         /\ \A k \in 1 .. Len(out) - 1 : Shifted(out, k, n - m) + n <= Shifted(out, k + 1, n - m)
<1>. DEFINE sh(k) == Shifted(out, k, n - m)
            S == {k \in 0 .. Len(out) : k > 0 => sh(k) \in Nat}
<1>1. Len(out) \in Nat /\ \A k \in 1 .. Len(out) : out[k] \in Nat
  OBVIOUS
<1>2. ASSUME NEW k \in 1 .. Len(out) PROVE sh(k) \in Int /\ sh(k) = out[k] + (k - 1) * (n - m)
  <2>1. k \in Int /\ n - m \in Int /\ out[k] \in Int
    BY <1>1
  <2>2. (k - 1) * (n - m) \in Int
    BY <2>1, OneMoreTimes
  <2>3. QED
    BY <2>1, <2>2 DEF Shifted
<1>3. ASSUME NEW k \in 1 .. Len(out) - 1 PROVE sh(k) + n <= sh(k + 1)
  <2>1. k \in 1 .. Len(out) /\ k + 1 \in 1 .. Len(out) /\ (k + 1) - 1 = k /\ k \in Int /\ n - m \in Int
    BY <1>1
  <2>. DEFINE a == (k - 1) * (n - m)
              b == k * (n - m)
              u == out[k]
              v == out[k + 1]
  <2>2. b = a + (n - m) /\ a \in Int /\ b \in Int
    BY <2>1, OneMoreTimes
  <2>3. sh(k) = u + a /\ sh(k + 1) = v + b
    <3>1. sh(k + 1) = out[k + 1] + ((k + 1) - 1) * (n - m)
      BY <1>2, <2>1
    <3>2. QED
      BY <1>2, <2>1, <3>1
  <2>4. u \in Nat /\ v \in Nat /\ u + m <= v
    BY <1>1, <2>1
  <2>. HIDE DEF sh, a, b, u, v
  <2>5. QED
    BY <2>2, <2>3, <2>4
<1>. HIDE DEF sh
<1>4. 0 \in S
  BY <1>1
<1>5. ASSUME NEW k \in 1 .. Len(out), k - 1 \in S PROVE k \in S
  <2>1. CASE k = 1
    <3>1. sh(1) = out[1] + (1 - 1) * (n - m) /\ out[1] \in Nat /\ (1 - 1) * (n - m) = 0
      BY <1>1, <1>2, <2>1
    <3>2. QED
      BY <2>1, <3>1
  <2>2. CASE k # 1
    <3>1. k - 1 \in 1 .. Len(out) - 1 /\ (k - 1) + 1 = k /\ k - 1 > 0
      BY <1>1, <2>2
    <3>2. sh(k - 1) \in Nat
      BY <1>5, <3>1
    <3>3. sh(k - 1) + n <= sh((k - 1) + 1)
      BY <1>3, <3>1
    <3>4. sh(k) \in Int
      BY <1>2
    <3>5. sh(k) \in Nat
      BY <3>1, <3>2, <3>3, <3>4
    <3>6. QED
      BY <3>5
  <2>3. QED
    BY <2>1, <2>2
<1>6. \A k \in 0 .. Len(out) : k \in S
  <2>. HIDE DEF S
  <2>1. QED
    BY <1>1, <1>4, <1>5, PrefixInduction
<1>7. \A k \in 1 .. Len(out) : sh(k) \in Nat
  <2>1. \A k \in 1 .. Len(out) : k \in 0 .. Len(out) /\ k > 0
    BY <1>1
  <2>2. QED
    BY <1>6, <2>1
<1>8. QED
  BY <1>3, <1>7 DEF sh

\* A replacement keeps a document good, wherever it is.
LEMMA ReplacementGood ==
  ASSUME NEW d \in GoodDocs, NEW at \in Nat, NEW m \in Nat \ {0}, NEW n \in Nat, NEW count \in Nat
  PROVE  /\ ApplyReplacement(d, at, m, n) \in GoodDocs
         /\ MergedAfter(ApplyReplacement(d, at, m, n), count) \in GoodDocs
<1>1. ApplyReplacement(d, at, m, n) \in GoodDocs
  <2>1. CASE n = m
    BY <2>1, OverwriteGood DEF ApplyReplacement
  <2>2. CASE n # m /\ n = 0
    BY <2>2, DeleteGood DEF ApplyReplacement
  <2>3. CASE n # m /\ n # 0
    <3>1. Delete(d, at, m) \in GoodDocs
      BY DeleteGood
    <3>2. Insert(Delete(d, at, m), at, n) \in GoodDocs
      BY <2>3, <3>1, InsertGood
    <3>3. QED
      BY <2>3, <3>2, MergeGood DEF ApplyReplacement
  <2>4. QED
    BY <2>1, <2>2, <2>3
<1>2. QED
  BY <1>1, MergeGood DEF MergedAfter

ReplaceStep(g, out, j, k) ==
  MergedAfter(ApplyReplacement(g, Shifted(out, k, Len(j.replacement) - Len(j.pattern)),
                               Len(j.pattern), Len(j.replacement)),
              j.count + k - 1)

\* The documents a step goes through are good.
LEMMA ReplacedRecursion ==
  ASSUME NEW d \in GoodDocs, NEW out \in Seq(Nat), NEW j,
         Len(j.pattern) \in Nat \ {0}, Len(j.replacement) \in Nat, j.count \in Nat,
         \A k \in 1 .. Len(out) - 1 : out[k] + Len(j.pattern) <= out[k + 1]
  PROVE  /\ \A k \in 0 .. Len(out) : ReplacedUpTo(d, out, j)[k] \in GoodDocs
         /\ ReplacedUpTo(d, out, j)[0] = d
         /\ \A k \in 1 .. Len(out) :
              ReplacedUpTo(d, out, j)[k] = ReplaceStep(ReplacedUpTo(d, out, j)[k - 1], out, j, k)
<1>. DEFINE C == GoodDocs
            c == Len(out)
            step == [x \in C \X (1 .. c) |-> ReplaceStep(x[1], out, j, x[2])]
            Body(f) == [k \in 0 .. Len(out) |-> IF k = 0 THEN d ELSE ReplaceStep(f[k - 1], out, j, k)]
            e == ReplacedUpTo(d, out, j)
<1>1. c \in Nat /\ \A g \in C, k \in 1 .. c : ReplaceStep(g, out, j, k) \in C
  <2>1. c \in Nat
    OBVIOUS
  <2>2. \A k \in 1 .. c : Shifted(out, k, Len(j.replacement) - Len(j.pattern)) \in Nat
    BY ShiftedApart
  <2>3. \A k \in 1 .. c : j.count + k - 1 \in Nat
    BY <2>1
  <2>4. QED
    BY <2>1, <2>2, <2>3, ReplacementGood DEF ReplaceStep
<1>2. e = CHOOSE f : f = Body(f)
  BY DEF ReplacedUpTo, ReplaceStep
<1>. HIDE DEF c, C
<1>3. step \in [C \X (1 .. c) -> C]
  <2>1. \A x \in C \X (1 .. c) : x[1] \in C /\ x[2] \in 1 .. c
    OBVIOUS
  <2>2. QED
    BY <1>1, <2>1
<1>4. PICK r \in [0 .. c -> C] :
        r[0] = d /\ \A i \in 1 .. c : r[i] = step[<<r[i - 1], i>>]
  <2>1. Recursions(C, c, d, step) # {}
    <3>1. d \in C
      BY DEF C
    <3>. HIDE DEF step
    <3>2. QED
      BY <1>1, <1>3, <3>1, RecursionExists, Zenon
  <2>2. QED
    BY <2>1 DEF Recursions
<1>5. r[0] = d /\ \A k \in 1 .. c : r[k] = ReplaceStep(r[k - 1], out, j, k)
  <2>1. \A k \in 1 .. c : k - 1 \in 0 .. c
    BY <1>1
  <2>2. \A k \in 1 .. c : <<r[k - 1], k>> \in C \X (1 .. c)
    BY <2>1
  <2>3. QED
    BY <2>2, <1>4
<1>6. r = Body(r)
  <2>1. ASSUME NEW k \in 0 .. c PROVE r[k] = IF k = 0 THEN d ELSE ReplaceStep(r[k - 1], out, j, k)
    <3>1. k = 0 \/ k \in 1 .. c
      BY <1>1
    <3>2. QED
      BY <3>1, <1>5
  <2>2. QED
    BY <2>1 DEF c
<1>7. e = Body(e)
  <2>. HIDE DEF Body, e
  <2>1. QED
    BY <1>2, <1>6
<1>. HIDE DEF e
<1>8. \A k \in 0 .. c : e[k] = IF k = 0 THEN d ELSE ReplaceStep(e[k - 1], out, j, k)
  <2>1. \A k \in 0 .. c : e[k] = Body(e)[k]
    <3>. HIDE DEF Body
    <3>1. QED
      BY <1>7
  <2>2. \A k \in 0 .. c : Body(e)[k] = IF k = 0 THEN d ELSE ReplaceStep(e[k - 1], out, j, k)
    BY DEF c
  <2>3. QED
    BY <2>1, <2>2
<1>9. e[0] = d /\ \A k \in 1 .. c : e[k] = ReplaceStep(e[k - 1], out, j, k)
  <2>1. 0 \in 0 .. c /\ \A k \in 1 .. c : k \in 0 .. c /\ k # 0
    BY <1>1
  <2>2. QED
    BY <1>8, <2>1
<1>10. \A k \in 0 .. c : e[k] \in C
  <2>. DEFINE S == {k \in 0 .. c : e[k] \in C}
  <2>1. 0 \in S
    BY <1>1, <1>9 DEF C
  <2>2. ASSUME NEW k \in 1 .. c, k - 1 \in S PROVE k \in S
    BY <2>2, <1>1, <1>9
  <2>3. \A k \in 0 .. c : k \in S
    <3>. HIDE DEF S
    <3>1. QED
      BY <1>1, <2>1, <2>2, PrefixInduction
  <2>4. QED
    BY <2>3
<1>11. QED
  BY <1>9, <1>10 DEF e, c, C

\* A document is as long as its content (Document::len).
LEMMA LengthIs ==
  ASSUME NEW d \in GoodDocs
  PROVE  Length(d) = Len(Content(d.table)) /\ Length(d) \in Nat /\ Content(d.table) \in Seq(Cell)
BY GoodDocFields, ContentLength, ContentType DEF Length

\* A job that has made count replacements since the document was d0: nothing yet,
\* or one transaction.
Since(d0, count, g) == (count = 0 /\ g = d0) \/ (count > 0 /\ Commits(d0, g))

\* What step k of the replacements makes of the document before it.
Replacing(f, g, at, m, n) ==
  \E y : AddedCells(f, n, y) /\ Substitutes(Content(f.table), Content(g.table), at, m, y)

\* The documents a step goes through: how long they are, what they have added, and
\* that undo leads back in one transaction.
ReplacedIs(d0, d, out, j, k, f) ==
  /\ f[k] \in GoodDocs
  /\ f[k].added = d.added + k * Len(j.replacement)
  /\ Length(f[k]) = Length(d) + k * (Len(j.replacement) - Len(j.pattern))
  /\ f[k].resizable = d.resizable
  /\ Since(d0, j.count, d) => Since(d0, j.count + k, f[k])

\* The document h after one more replacement, as the job leaves it.
ReplacedOnce(d0, count, g, h, at, m, n) ==
  /\ h \in GoodDocs /\ h.added = g.added + n
  /\ Length(h) = Length(g) - m + n /\ h.resizable = g.resizable
  /\ Since(d0, count, g) => Since(d0, count + 1, h)
  /\ Replacing(g, h, at, m, n)

\* A replacement at a place where it fits, merged with what the job did before.
LEMMA OneReplaced ==
  ASSUME NEW d0 \in GoodDocs, NEW g \in GoodDocs, NEW at \in Nat, NEW m \in Nat \ {0}, NEW n \in Nat,
         NEW count \in Nat, at + m <= Length(g), MayReplace(g, at, m, n)
  PROVE  ReplacedOnce(d0, count, g, MergedAfter(ApplyReplacement(g, at, m, n), count), at, m, n)
<1>. DEFINE a == ApplyReplacement(g, at, m, n)
            h == MergedAfter(a, count)
<1>1. /\ Commits(g, a) /\ a.added = g.added + n /\ Replacing(g, a, at, m, n)
  BY ReplacementReplaces DEF Replaces, Replacing
<1>2. a \in GoodDocs /\ h \in GoodDocs
  BY ReplacementGood
<1>. HIDE DEF a
<1>3. a \in Docs(Piece) /\ a.resizable = g.resizable
  BY <1>1, <1>2 DEF GoodDocs, Commits
<1>4. h.added = a.added /\ h.table = a.table
  BY <1>3, MergeAdded DEF MergedAfter
<1>5. Replacing(g, h, at, m, n)
  BY <1>1, <1>4 DEF Replacing
<1>6. ASSUME Since(d0, count, g) PROVE Since(d0, count + 1, h)
  <2>1. CASE count = 0
    <3>1. h = a /\ g = d0
      BY <1>6, <2>1 DEF MergedAfter, Since
    <3>. HIDE DEF h
    <3>2. QED
      BY <1>1, <2>1, <3>1 DEF Since
  <2>2. CASE count > 0
    <3>1. h = MergeWithPrevious(a) /\ Commits(d0, g)
      BY <1>6, <2>2 DEF MergedAfter, Since
    <3>2. Commits(d0, MergeWithPrevious(a))
      BY <1>1, <3>1, MergeCommits
    <3>. HIDE DEF h
    <3>3. QED
      BY <2>2, <3>1, <3>2 DEF Since
  <2>3. QED
    BY <2>1, <2>2
<1>7. h.resizable = g.resizable
  BY <1>3, MergeAdded DEF MergedAfter
<1>. HIDE DEF h
<1>8. Length(h) = Length(g) - m + n
  <2>1. PICK y : AddedCells(g, n, y) /\ Substitutes(Content(g.table), Content(h.table), at, m, y)
    BY <1>5 DEF Replacing
  <2>2. Len(y) = n /\ Len(Content(h.table)) = Len(Content(g.table)) - m + Len(y)
    BY <2>1 DEF AddedCells, Substitutes
  <2>3. QED
    BY <1>2, <2>2, LengthIs
<1>9. QED
  <2>1. ReplacedOnce(d0, count, g, h, at, m, n)
    BY <1>1, <1>2, <1>4, <1>5, <1>6, <1>7, <1>8 DEF ReplacedOnce
  <2>2. QED
    BY <2>1 DEF h, a

\* Every replacement of a step fits where it is made, so each document of the
\* step comes from the one before it by one substitution, and all of them are one
\* transaction since d0 (drive.rs:76-94).
LEMMA ReplacedFacts ==
  ASSUME NEW d0 \in GoodDocs, NEW d \in GoodDocs, NEW out \in Seq(Nat), NEW j,
         Len(j.pattern) \in Nat \ {0}, Len(j.replacement) \in Nat, j.count \in Nat,
         \A k \in 1 .. Len(out) - 1 : out[k] + Len(j.pattern) <= out[k + 1],
         \A k \in 1 .. Len(out) : out[k] + Len(j.pattern) <= Length(d),
         out # <<>> => MayReplace(d, out[1], Len(j.pattern), Len(j.replacement))
  PROVE  /\ \A k \in 0 .. Len(out) : ReplacedIs(d0, d, out, j, k, ReplacedUpTo(d, out, j))
         /\ \A k \in 1 .. Len(out) :
              Replacing(ReplacedUpTo(d, out, j)[k - 1], ReplacedUpTo(d, out, j)[k],
                        Shifted(out, k, Len(j.replacement) - Len(j.pattern)),
                        Len(j.pattern), Len(j.replacement))
<1>. DEFINE m == Len(j.pattern)
            n == Len(j.replacement)
            c == j.count
            f == ReplacedUpTo(d, out, j)
            sh(k) == Shifted(out, k, n - m)
            S == {k \in 0 .. Len(out) : /\ ReplacedIs(d0, d, out, j, k, f)
                                        /\ k > 0 => Replacing(f[k - 1], f[k], sh(k), m, n)}
<1>1. /\ \A k \in 0 .. Len(out) : f[k] \in GoodDocs
      /\ f[0] = d
      /\ \A k \in 1 .. Len(out) : f[k] = ReplaceStep(f[k - 1], out, j, k)
  BY ReplacedRecursion
<1>. HIDE DEF f
<1>2. /\ Len(out) \in Nat /\ \A k \in 1 .. Len(out) : out[k] \in Nat
      /\ m \in Nat /\ m > 0 /\ m \in Nat \ {0} /\ n \in Nat /\ c \in Nat
      /\ Length(d) \in Nat /\ d.added \in Nat
  <2>1. Length(d) \in Nat /\ d.added \in Nat
    BY GoodDocFields
  <2>2. QED
    BY <2>1
<1>3. /\ \A k \in 1 .. Len(out) : sh(k) \in Nat
      /\ \A k \in 1 .. Len(out) : sh(k) = out[k] + (k - 1) * (n - m)
  BY ShiftedApart DEF Shifted
<1>9. /\ \A k \in 1 .. Len(out) : out[k] + m <= Length(d)
      /\ out # <<>> => MayReplace(d, out[1], m, n)
  OBVIOUS
<1>10. ASSUME NEW k \in 1 .. Len(out), NEW g
       PROVE  ReplaceStep(g, out, j, k) = MergedAfter(ApplyReplacement(g, sh(k), m, n), c + k - 1)
  BY DEF ReplaceStep
<1>11. ASSUME NEW k \in Nat
       PROVE  ReplacedIs(d0, d, out, j, k, f) <=>
                /\ f[k] \in GoodDocs
                /\ f[k].added = d.added + k * n
                /\ Length(f[k]) = Length(d) + k * (n - m)
                /\ f[k].resizable = d.resizable
                /\ Since(d0, c, d) => Since(d0, c + k, f[k])
  BY DEF ReplacedIs
<1>. HIDE DEF m, n, c, sh
<1>4. 0 \in S
  <2>1. 0 * n = 0 /\ 0 * (n - m) = 0
    BY <1>2
  <2>2. d.added = d.added + 0 * n /\ Length(d) = Length(d) + 0 * (n - m) /\ c + 0 = c
    BY <1>2, <2>1
  <2>3. ReplacedIs(d0, d, out, j, 0, f)
    BY <1>1, <1>9, <1>11, <2>2
  <2>4. QED
    BY <1>2, <2>3
<1>5. ASSUME NEW k \in 1 .. Len(out), k - 1 \in S PROVE k \in S
  <2>. DEFINE g == f[k - 1]
              at == sh(k)
              count == c + (k - 1)
              x == (k - 1) * (n - m)
              y == (k - 1) * n
  <2>1. /\ g \in GoodDocs /\ g.added = d.added + y /\ Length(g) = Length(d) + x
        /\ g.resizable = d.resizable /\ (Since(d0, c, d) => Since(d0, count, g))
    <3>1. ReplacedIs(d0, d, out, j, k - 1, f) /\ k - 1 \in Nat
      BY <1>2, <1>5
    <3>2. QED
      BY <1>11, <3>1
  <2>2. /\ k * (n - m) = x + (n - m) /\ x \in Int /\ k * (n - m) \in Int
        /\ k * n = y + n /\ y \in Int /\ k * n \in Int
    <3>1. k \in Int /\ n - m \in Int /\ n \in Int
      BY <1>2
    <3>2. QED
      BY <3>1, OneMoreTimes
  <2>3. at \in Nat /\ at = out[k] + x /\ out[k] \in Nat /\ out[k] + m <= Length(d)
    BY <1>2, <1>3, <1>9
  <2>4. count \in Nat /\ c + k - 1 = count /\ c + k = count + 1
    BY <1>2
  <2>5. f[k] = MergedAfter(ApplyReplacement(g, at, m, n), count)
    BY <1>1, <1>10, <2>4
  <2>6. at + m <= Length(g)
    <3>. DEFINE u == out[k]
                l == Length(g)
                v == Length(d)
    <3>. HIDE DEF x, u, at, l, v
    <3>0. v \in Nat /\ l = v + x /\ at = u + x /\ u \in Nat /\ u + m <= v /\ x \in Int
      BY <1>2, <2>1, <2>2, <2>3 DEF u, l, v
    <3>1. at + m <= l
      BY <1>2, <3>0
    <3>2. QED
      BY <3>1 DEF l
  <2>7. MayReplace(g, at, m, n)
    <3>1. MayReplace(d, out[1], m, n)
      <4>1. out # <<>>
        BY <1>2
      <4>2. QED
        BY <1>9, <4>1
    <3>2. CASE n = m
      <4>1. at <= Length(g) /\ at + n <= Length(g) /\ n > 0
        <5>1. Length(g) \in Nat
          BY <2>1, LengthIs
        <5>. HIDE DEF at, g
        <5>2. QED
          BY <1>2, <2>3, <2>6, <3>2, <5>1
      <4>2. QED
        BY <3>2, <4>1 DEF MayReplace, MayOverwrite
    <3>3. CASE n # m
      <4>1. d.resizable
        BY <3>1, <3>3 DEF MayReplace, MayDelete
      <4>2. QED
        BY <1>2, <2>1, <2>6, <3>3, <4>1 DEF MayReplace, MayDelete
    <3>4. QED
      BY <3>2, <3>3
  <2>. HIDE DEF g, at, count, x, y
  <2>8. /\ f[k] \in GoodDocs /\ f[k].added = g.added + n
        /\ Length(f[k]) = Length(g) - m + n /\ f[k].resizable = g.resizable
        /\ Since(d0, count, g) => Since(d0, count + 1, f[k])
        /\ Replacing(g, f[k], at, m, n)
    <3>. DEFINE h == MergedAfter(ApplyReplacement(g, at, m, n), count)
    <3>1. ReplacedOnce(d0, count, g, h, at, m, n)
      BY <1>2, <2>1, <2>3, <2>4, <2>6, <2>7, OneReplaced
    <3>2. h = f[k]
      BY <2>5
    <3>. HIDE DEF h
    <3>3. QED
      BY <3>1, <3>2 DEF ReplacedOnce
  <2>9. f[k].added = d.added + k * n
    <3>. DEFINE z == k * n
                u == d.added
    <3>. HIDE DEF z, u
    <3>1. z = y + n /\ g.added = u + y /\ u \in Nat /\ y \in Int /\ f[k].added = g.added + n
      BY <1>2, <2>1, <2>2, <2>8 DEF z, u
    <3>2. u + y + n = u + z
      BY <1>2, <3>1
    <3>3. QED
      BY <3>1, <3>2 DEF z, u
  <2>10. Length(f[k]) = Length(d) + k * (n - m)
    <3>. DEFINE z == k * (n - m)
                v == Length(d)
    <3>. HIDE DEF z, v
    <3>1. z = x + (n - m) /\ Length(g) = v + x /\ v \in Nat /\ x \in Int /\ Length(f[k]) = Length(g) - m + n
      BY <1>2, <2>1, <2>2, <2>8 DEF z, v
    <3>2. (v + x) - m + n = v + z
      BY <1>2, <3>1
    <3>3. QED
      BY <3>1, <3>2 DEF z, v
  <2>11. ReplacedIs(d0, d, out, j, k, f)
    <3>1. k \in Nat
      BY <1>2
    <3>2. QED
      BY <1>11, <2>1, <2>4, <2>8, <2>9, <2>10, <3>1
  <2>12. k \in 0 .. Len(out)
    BY <1>2
  <2>13. QED
    BY <2>8, <2>11, <2>12 DEF g, at
<1>6. \A k \in 0 .. Len(out) : k \in S
  <2>. HIDE DEF S
  <2>1. QED
    BY <1>2, <1>4, <1>5, PrefixInduction
<1>7. \A k \in 1 .. Len(out) : k \in 0 .. Len(out) /\ k > 0
  BY <1>2
<1>8. QED
  BY <1>6, <1>7 DEF f, sh, m, n

-----------------------------------------------------------------------------
(* The letters of what is added, and the job. *)

Alphabet == Typed \cup UNION {{r[k] : k \in 1 .. Len(r)} : r \in Replacements}

\* The letters of a source or of a replacement form a sequence.
LEMMA SequenceOf ==
  ASSUME NEW s, IsSequence(s)
  PROVE  Len(s) \in Nat /\ s \in Seq({s[k] : k \in 1 .. Len(s)})
BY DEF IsSequence

\* What a job adds consists of letters (drive.rs:83).
LEMMA ReplacementLetters ==
  ASSUME NEW r \in Replacements \cup {<<>>}
  PROVE  r \in Seq(Alphabet) /\ Len(r) \in Nat
<1>1. CASE r \in Replacements
  <2>1. Len(r) \in Nat /\ r \in Seq({r[k] : k \in 1 .. Len(r)})
    BY <1>1, SearchAssumption, SequenceOf
  <2>2. {r[k] : k \in 1 .. Len(r)} \subseteq Alphabet
    BY <1>1 DEF Alphabet
  <2>3. QED
    BY <2>1, <2>2, SeqMono
<1>2. CASE r = <<>>
  BY <1>2
<1>3. QED
  BY <1>1, <1>2

\* A pattern is not empty (pattern.rs:25, 35, 52, 61).
LEMMA PatternLength ==
  ASSUME NEW p \in Patterns
  PROVE  Len(p) \in Nat \ {0}
BY SearchAssumption

\* The text read from a document is as long as the document (Document::read).
LEMMA TextLength ==
  ASSUME NEW d \in GoodDocs, NEW ls
  PROVE  /\ Len(TextOf(d, ls)) = Length(d) /\ Length(d) \in Nat /\ Len(TextOf(d, ls)) \in Nat
<1>1. Length(d) = Len(Content(d.table)) /\ Length(d) \in Nat
  BY LengthIs
<1>. DEFINE c == Content(d.table)
            t == TextOf(d, ls)
<1>2. \E f : t = [k \in 1 .. Len(c) |-> f[k]]
  <2>. DEFINE f == [k \in 1 .. Len(c) |-> IF c[k][1] = "Added" THEN ls[c[k][2] + 1]
                      ELSE IF c[k][2] \in bad THEN ZeroLetter ELSE source[c[k][2] + 1]]
  <2>1. t = f
    BY DEF TextOf
  <2>2. f = [k \in 1 .. Len(c) |-> f[k]]
    OBVIOUS
  <2>. HIDE DEF f, c, t
  <2>3. QED
    BY <2>1, <2>2
<1>. HIDE DEF t, c
<1>3. Len(t) = Len(c)
  <2>1. PICK f : t = [k \in 1 .. Len(c) |-> f[k]]
    BY <1>2
  <2>2. Len(c) \in Nat
    BY <1>1 DEF c
  <2>3. QED
    BY <2>1, <2>2
<1>4. QED
  BY <1>1, <1>3 DEF t, c

\* The documents and the letters of the add buffer.
LEMMA AddedLength ==
  ASSUME NEW ls \in Seq(Alphabet), NEW r \in Seq(Alphabet), NEW k \in Nat
  PROVE  /\ AddedBy(ls, r, k) \in Seq(Alphabet)
         /\ Len(AddedBy(ls, r, k)) = Len(ls) + k * Len(r)
         /\ \A i \in 1 .. Len(ls) : AddedBy(ls, r, k)[i] = ls[i]
         /\ \A i \in 1 .. k * Len(r) : AddedBy(ls, r, k)[Len(ls) + i] = r[((i - 1) % Len(r)) + 1]
<1>. DEFINE n == Len(r)
            x == k * n
            z == [i \in 1 .. x |-> r[((i - 1) % n) + 1]]
<1>1. n \in Nat /\ x \in Nat
  BY OneMoreTimes
<1>2. ASSUME NEW i \in 1 .. x PROVE r[((i - 1) % n) + 1] \in Alphabet
  <2>1. n > 0
    <3>1. x > 0
      BY <1>1
    <3>2. n = 0 => x = 0
      OBVIOUS
    <3>. HIDE DEF x
    <3>3. QED
      BY <1>1, <3>1, <3>2
  <2>2. i - 1 \in Nat
    BY <1>1
  <2>. DEFINE q == (i - 1) % n
  <2>3. q \in 0 .. n - 1
    <3>. HIDE DEF n
    <3>1. QED
      BY <1>1, <2>1, <2>2
  <2>. HIDE DEF q
  <2>4. q + 1 \in 1 .. Len(r)
    BY <2>3
  <2>5. r[q + 1] \in Alphabet
    BY <2>4
  <2>6. QED
    BY <2>5 DEF q
<1>3. z \in Seq(Alphabet) /\ Len(z) = x
  <2>. HIDE DEF x, n
  <2>1. QED
    BY <1>1, <1>2
<1>4. AddedBy(ls, r, k) = ls \o z
  BY DEF AddedBy
<1>5. \A i \in 1 .. x : z[i] = r[((i - 1) % n) + 1]
  OBVIOUS
<1>. HIDE DEF z, x, n
<1>6. /\ ls \o z \in Seq(Alphabet) /\ Len(ls \o z) = Len(ls) + x
      /\ \A i \in 1 .. Len(ls) : (ls \o z)[i] = ls[i]
      /\ \A i \in 1 .. x : (ls \o z)[Len(ls) + i] = z[i]
  BY <1>3
<1>7. QED
  BY <1>4, <1>5, <1>6 DEF x, n

\* The jobs that may run: searcher and range end agree.
Jobs ==
  [kind : {"Next", "All", "ReplaceAll"}, pattern : Patterns,
   replacement : Replacements \cup {<<>>}, rangeEnd : Nat, count : Nat,
   results : Seq(Nat), searcher : Searchers]

GoodJob(j) ==
  j \in Jobs /\ GoodSearcher(j.searcher, Len(j.pattern)) /\ j.searcher.stop <= j.rangeEnd

\* What a running job consists of (gui/src/search.rs, SearchJob).
LEMMA JobFields ==
  ASSUME NEW j, GoodJob(j)
  PROVE  /\ j.kind \in {"Next", "All", "ReplaceAll"} /\ j.pattern \in Patterns
         /\ j.replacement \in Replacements \cup {<<>>} /\ j.rangeEnd \in Nat /\ j.count \in Nat
         /\ j.results \in Seq(Nat) /\ j.searcher \in Searchers
         /\ Len(j.pattern) \in Nat \ {0} /\ Len(j.replacement) \in Nat
         /\ j.replacement \in Seq(Alphabet)
         /\ GoodSearcher(j.searcher, Len(j.pattern)) /\ j.searcher.stop <= j.rangeEnd
         /\ j.searcher.stop \in Nat /\ j # NoJob
<1>1. /\ j.kind \in {"Next", "All", "ReplaceAll"} /\ j.pattern \in Patterns
      /\ j.replacement \in Replacements \cup {<<>>} /\ j.rangeEnd \in Nat /\ j.count \in Nat
      /\ j.results \in Seq(Nat) /\ j.searcher \in Searchers
  BY DEF GoodJob, Jobs
<1>2. j.searcher.stop \in Nat
  BY <1>1 DEF Searchers
<1>3. j # NoJob
  BY <1>1 DEF NoJob
<1>4. QED
  BY <1>1, <1>2, <1>3, PatternLength, ReplacementLetters DEF GoodJob

\* A new job is good.
JobWith(kind, p, r, b, s) ==
  [kind |-> kind, pattern |-> p, replacement |-> r, rangeEnd |-> b,
   count |-> 0, results |-> <<>>, searcher |-> s]

\* A job begins inside its range (Searcher::new, search.rs:29-62).
LEMMA NewJobGood ==
  ASSUME NEW kind \in {"Next", "All", "ReplaceAll"}, NEW p \in Patterns,
         NEW r \in Replacements \cup {<<>>}, NEW b \in Nat,
         NEW s, GoodSearcher(s, Len(p)), s.stop <= b
  PROVE  /\ GoodJob(JobWith(kind, p, r, b, s)) /\ JobWith(kind, p, r, b, s).count = 0
         /\ JobWith(kind, p, r, b, s).kind = kind
<1>. DEFINE j == JobWith(kind, p, r, b, s)
<1>1. s \in Searchers
  BY DEF GoodSearcher
<1>2. j \in Jobs /\ j.searcher = s /\ j.rangeEnd = b /\ j.pattern = p /\ j.kind = kind /\ j.count = 0
  <2>1. j = [kind |-> kind, pattern |-> p, replacement |-> r, rangeEnd |-> b,
             count |-> 0, results |-> <<>>, searcher |-> s]
    BY DEF JobWith
  <2>2. <<>> \in Seq(Nat) /\ 0 \in Nat
    OBVIOUS
  <2>. HIDE DEF j
  <2>3. QED
    BY <1>1, <2>1, <2>2 DEF Jobs
<1>. HIDE DEF j
<1>3. QED
  BY <1>2 DEF GoodJob, j

-----------------------------------------------------------------------------
(* What the operations add. *)

\* An append that fails leaves a good document and an add buffer as it was.
LEMMA FailedAppend ==
  ASSUME NEW d \in GoodDocs, NEW n \in Nat, NEW f \in AppendFailures(d, n)
  PROVE  f \in GoodDocs /\ f.added = d.added
<1>1. PICK s \in {d.spilled, TRUE} : f = [d EXCEPT !.spilled = s]
  BY DEF AppendFailures
<1>2. d \in Docs(Piece)
  BY DEF GoodDocs
<1>3. QED
  BY <1>1, <1>2, AppendFailuresGood DEF Docs

\* So does a replacement whose append fails (gui/src/search.rs, apply_replacement).
LEMMA FailedReplacementGood ==
  ASSUME NEW d \in GoodDocs, NEW at \in Nat, NEW m \in Nat \ {0}, NEW n \in Nat,
         NEW f \in FailedReplacements(d, at, m, n)
  PROVE  f \in GoodDocs /\ f.added = d.added
<1>1. CASE n = m /\ n # 0
  <2>1. f \in AppendFailures(Uncovered(d, at, n), n)
    BY <1>1 DEF FailedReplacements, FailedOverwrites
  <2>2. Uncovered(d, at, n) \in GoodDocs /\ Uncovered(d, at, n).added = d.added
    BY UncoveredGood
  <2>3. QED
    BY <2>1, <2>2, FailedAppend
<1>2. CASE n # m /\ n # 0
  <2>1. f \in AppendFailures(Delete(d, at, m), n)
    BY <1>2 DEF FailedReplacements
  <2>2. Delete(d, at, m) \in GoodDocs /\ Delete(d, at, m).added = d.added
    <3>. DEFINE g == [d EXCEPT !.table = Remove(@, at, m)]
                tx == <<DeleteEdit(at, Removed(d.table, at, m))>>
    <3>1. g \in GoodDocs /\ g.added = d.added
      BY RemoveGood
    <3>2. g \in Docs(Piece)
      BY <3>1 DEF GoodDocs
    <3>3. Delete(d, at, m) = Commit(g, tx)
      BY DEF Delete
    <3>. HIDE DEF g, tx
    <3>4. QED
      BY <3>1, <3>2, <3>3, CommitAdded, DeleteGood
  <2>3. QED
    BY <2>1, <2>2, FailedAppend
<1>3. n # 0
  BY DEF FailedReplacements
<1>4. QED
  BY <1>1, <1>2, <1>3

\* A letter typed is one byte of the add buffer (hexview.rs, typing).
LEMMA TypingAdds ==
  ASSUME NEW d \in GoodDocs, NEW at \in Nat
  PROVE  /\ MayInsert(d, at, 1) => Insert(d, at, 1).added = d.added + 1
         /\ MayOverwrite(d, at, 1) => Overwrite(d, at, 1).added = d.added + 1
<1>1. ASSUME MayInsert(d, at, 1) PROVE Insert(d, at, 1).added = d.added + 1
  <2>1. Append(<<>>, Inserting(d, at, 1)) = <<Inserting(d, at, 1)>>
    OBVIOUS
  <2>2. Insert(d, at, 1) = CommitInsertion(d, at, 1, <<>>)
    BY <2>1 DEF Insert, CommitInsertion, Inserting, WithInsertion
  <2>3. at <= Length(d) /\ 1 \in Nat \ {0}
    BY <1>1 DEF MayInsert
  <2>4. QED
    BY <2>2, <2>3, InsertionAdded
<1>2. ASSUME MayOverwrite(d, at, 1) PROVE Overwrite(d, at, 1).added = d.added + 1
  <2>. DEFINE u == Uncovered(d, at, 1)
              v == Covered(d, at, 1)
  <2>1. at <= Length(d) /\ 1 \in Nat \ {0}
    BY <1>2 DEF MayOverwrite
  <2>2. u \in GoodDocs /\ u.added = d.added /\ at <= Length(u)
    BY <2>1, UncoveredLeads
  <2>3. AddedPiece(d, 1) = AddedPiece(u, 1)
    BY <2>2 DEF AddedPiece
  <2>4. Overwrite(d, at, 1) = CommitInsertion(u, at, 1, v)
    BY <2>3 DEF Overwrite, CommitInsertion, Inserting, WithInsertion
  <2>. HIDE DEF u, v
  <2>5. CommitInsertion(u, at, 1, v).added = u.added + 1
    BY <2>1, <2>2, InsertionAdded
  <2>6. QED
    BY <2>2, <2>4, <2>5
<1>3. QED
  BY <1>1, <1>2

\* Undo and redo leave the add buffer alone (document.rs, undo and redo).
LEMMA UndoAdds ==
  ASSUME NEW d \in GoodDocs
  PROVE  Undo(d).added = d.added /\ Redo(d).added = d.added
<1>1. d \in Docs(Piece)
  BY DEF GoodDocs
<1>2. \E a, b, c : Undo(d) = [d EXCEPT !.table = a, !.undo = b, !.redo = c]
  <2>1. Undo(d) = [d EXCEPT
           !.table = RevertedUpTo(d.table, d.undo[Len(d.undo)])[Len(d.undo[Len(d.undo)])],
           !.undo = SubSeq(d.undo, 1, Len(d.undo) - 1),
           !.redo = Append(d.redo, d.undo[Len(d.undo)])]
    BY DEF Undo
  <2>2. QED
    BY <2>1
<1>3. \E a, b, c : Redo(d) = [d EXCEPT !.table = a, !.redo = b, !.undo = c]
  <2>1. Redo(d) = [d EXCEPT
           !.table = AppliedUpTo(d.table, d.redo[Len(d.redo)])[Len(d.redo[Len(d.redo)])],
           !.redo = SubSeq(d.redo, 1, Len(d.redo) - 1),
           !.undo = Append(d.undo, d.redo[Len(d.redo)])]
    BY DEF Redo
  <2>2. QED
    BY <2>1
<1>4. QED
  BY <1>1, <1>2, <1>3 DEF Docs

\* The job goes on behind the last replacement, inside its shifted range
\* (drive.rs:95-107).
LEMMA RestartedGood ==
  ASSUME NEW j, GoodJob(j), NEW d \in GoodDocs, NEW st, NEW text, NEW unread,
         StepKeeps(st, j.searcher, j.pattern, text, unread)
  PROVE  /\ GoodJob(Restarted(j, st, d)) /\ Restarted(j, st, d).kind = j.kind
         /\ Restarted(j, st, d).count = j.count + Len(st.out)
<1>. DEFINE m == Len(j.pattern)
            n == Len(j.replacement)
            out == st.out
            l == Len(out)
            stop == j.rangeEnd + l * (n - m)
            at == Resume(out, n - m, n)
            s == NewSearcher(at, stop, Length(d), at, FALSE, FALSE, m)
            k == j.count + l
            g == Restarted(j, st, d)
<1>1. /\ j \in Jobs /\ m \in Nat \ {0} /\ n \in Nat /\ j.rangeEnd \in Nat /\ j.count \in Nat
      /\ j.searcher.stop \in Nat /\ j.searcher.stop <= j.rangeEnd /\ Length(d) \in Nat
  BY JobFields, GoodDocFields DEF GoodJob
<1>2. /\ out \in Seq(Nat) /\ l \in Nat
      /\ \A i \in 1 .. l : out[i] + m <= j.searcher.stop
      /\ \A i \in 1 .. l - 1 : out[i] + m <= out[i + 1]
      /\ GoodSearcher(st.searcher, m) /\ st.searcher.stop = j.searcher.stop
      /\ st.searcher \in Searchers
  BY DEF StepKeeps, StepFinds, GoodSearcher
<1>3. k \in Nat
  BY <1>1, <1>2
<1>4. CASE n = m \/ out = <<>>
  <2>1. g = [j EXCEPT !.searcher = st.searcher, !.count = j.count + l]
    BY <1>4 DEF Restarted
  <2>2. g = [j EXCEPT !.searcher = st.searcher, !.count = k]
    BY <2>1
  <2>. HIDE DEF g, k
  <2>3. /\ g \in Jobs /\ g.searcher = st.searcher /\ g.rangeEnd = j.rangeEnd
        /\ g.pattern = j.pattern /\ g.kind = j.kind /\ g.count = k
    BY <1>1, <1>2, <1>3, <2>2 DEF Jobs
  <2>4. QED
    BY <1>1, <1>2, <2>3 DEF GoodJob, g, k
<1>5. CASE ~ (n = m \/ out = <<>>)
  <2>1. l \in 1 .. l /\ l >= 1 /\ out[l] \in Nat /\ out[l] + m <= j.searcher.stop
    <3>1. out # <<>>
      BY <1>5
    <3>. HIDE DEF out, m
    <3>2. l \in Nat /\ l # 0
      BY <1>2, <3>1
    <3>3. l \in 1 .. l /\ l >= 1
      <4>. HIDE DEF l
      <4>1. QED
        BY <3>2
    <3>4. out[l] \in Nat
      BY <1>2, <3>3
    <3>5. QED
      BY <1>2, <3>3, <3>4
  <2>2. Shifted(out, l, n - m) \in Nat
    BY <1>1, <1>2, <2>1, ShiftedApart
  <2>. DEFINE x == (l - 1) * (n - m)
              y == l * (n - m)
              u == out[l]
              e == j.rangeEnd
  <2>3. at \in Nat /\ at = u + x + n
    <3>1. at = Shifted(out, l, n - m) + n /\ Shifted(out, l, n - m) = u + x
      BY DEF Resume, Shifted
    <3>. DEFINE z == Shifted(out, l, n - m)
    <3>2. z \in Nat /\ at = z + n /\ z = u + x /\ n \in Nat
      BY <1>1, <2>2, <3>1
    <3>. HIDE DEF at, u, x, m, n, z
    <3>3. QED
      BY <3>2
  <2>4. at <= stop /\ stop \in Nat
    <3>1. n - m \in Int /\ l \in Int
      BY <1>1, <1>2
    <3>2. y = x + (n - m) /\ x \in Int /\ y \in Int
      BY <3>1, OneMoreTimes
    <3>3. u \in Nat /\ u + m <= j.searcher.stop /\ stop = e + y
      BY <2>1
    <3>4. e \in Nat /\ j.searcher.stop <= e /\ m \in Nat /\ n \in Nat
      BY <1>1
    <3>. HIDE DEF x, u, at, m, n, y, e, stop
    <3>5. at <= e + y
      BY <1>1, <2>3, <3>2, <3>3, <3>4
    <3>6. e + y \in Int
      BY <3>2, <3>4
    <3>7. QED
      BY <2>3, <3>3, <3>5, <3>6
  <2>. HIDE DEF x, y, u, e
  <2>5. GoodSearcher(s, m) /\ s.stop <= stop
    <3>. HIDE DEF at, stop, m
    <3>1. QED
      BY <1>1, <2>3, <2>4, NewIsGood
  <2>6. s \in Searchers
    BY <2>5 DEF GoodSearcher
  <2>7. g = [j EXCEPT !.rangeEnd = stop, !.count = j.count + l, !.searcher = s]
    BY <1>5 DEF Restarted
  <2>8. g = [j EXCEPT !.rangeEnd = stop, !.count = k, !.searcher = s]
    BY <2>7
  <2>. HIDE DEF g, s, stop, k
  <2>9. /\ g \in Jobs /\ g.searcher = s /\ g.rangeEnd = stop
        /\ g.pattern = j.pattern /\ g.kind = j.kind /\ g.count = k
    BY <1>1, <1>3, <2>4, <2>6, <2>8 DEF Jobs
  <2>10. QED
    BY <2>5, <2>9 DEF GoodJob, g, k
<1>6. QED
  BY <1>4, <1>5

-----------------------------------------------------------------------------
(* The invariant of the job. *)

JobInv ==
  /\ doc \in GoodDocs /\ budget \in Nat
  /\ letters \in Seq(Alphabet) /\ Len(letters) = doc.added
  /\ job = NoJob \/ (GoodJob(job) /\ outcome = Pending)

\* While a replace-all nobody disturbed runs: the document it began with, and that
\* undo leads back there.
AskedInv ==
  job # NoJob /\ job.kind = "ReplaceAll" /\ asked.is = "known" =>
    \E d0 \in GoodDocs :
      /\ Len(d0.undo) = asked.depth /\ Content(d0.table) = asked.content
      /\ Since(d0, job.count, doc)

\* A step of the running job is right for the text it sees (search.rs:78-147).
LEMMA StepOfJob ==
  ASSUME JobInv, job # NoJob
  PROVE  StepKeeps(Step, job.searcher, job.pattern, Text, Unread)
<1>1. /\ doc \in GoodDocs /\ budget \in Int
      /\ GoodSearcher(job.searcher, Len(job.pattern)) /\ Len(job.pattern) \in Nat \ {0}
  BY JobFields DEF JobInv
<1>2. Len(Text) \in Nat
  BY <1>1, TextLength DEF Text
<1>3. QED
  BY <1>1, <1>2, SteppedIsRight DEF Step

\* The documents a step of the job makes.
LEMMA StepReplaces ==
  ASSUME JobInv, job # NoJob, NEW d0 \in GoodDocs,
         Step.out # <<>> =>
           MayReplace(doc, Step.out[1], Len(job.pattern), Len(job.replacement))
  PROVE  /\ \A k \in 0 .. Len(Step.out) :
              ReplacedIs(d0, doc, Step.out, job, k, ReplacedUpTo(doc, Step.out, job))
         /\ \A k \in 1 .. Len(Step.out) :
              Replacing(ReplacedUpTo(doc, Step.out, job)[k - 1], ReplacedUpTo(doc, Step.out, job)[k],
                        Shifted(Step.out, k, Len(job.replacement) - Len(job.pattern)),
                        Len(job.pattern), Len(job.replacement))
<1>. DEFINE out == Step.out
            m == Len(job.pattern)
            n == Len(job.replacement)
<1>1. doc \in GoodDocs /\ GoodJob(job)
  BY DEF JobInv
<1>2. m \in Nat \ {0} /\ n \in Nat /\ job.count \in Nat
  BY <1>1, JobFields
<1>3. StepFinds(out, job.searcher, job.pattern, Text, Unread)
  BY StepOfJob DEF StepKeeps
<1>4. Len(Text) = Length(doc)
  BY <1>1, TextLength DEF Text
<1>. HIDE DEF out
<1>5. /\ out \in Seq(Nat)
      /\ \A k \in 1 .. Len(out) - 1 : out[k] + m <= out[k + 1]
      /\ \A k \in 1 .. Len(out) : out[k] + m <= Length(doc)
  BY <1>3, <1>4 DEF StepFinds, Occurs
<1>6. out # <<>> => MayReplace(doc, out[1], m, n)
  BY DEF out
<1>7. /\ \A k \in 0 .. Len(out) : ReplacedIs(d0, doc, out, job, k, ReplacedUpTo(doc, out, job))
      /\ \A k \in 1 .. Len(out) :
           Replacing(ReplacedUpTo(doc, out, job)[k - 1], ReplacedUpTo(doc, out, job)[k],
                     Shifted(out, k, n - m), m, n)
  BY <1>1, <1>2, <1>5, <1>6, ReplacedFacts
<1>8. QED
  BY <1>7 DEF out

\* A step of replace-all that ends well, and one whose append fails.
ReplacesStep ==
  /\ Step.out # <<>> => MayReplace(doc, Step.out[1], Len(job.pattern), Len(job.replacement))
  /\ doc' = ReplacedUpTo(doc, Step.out, job)[Len(Step.out)]
  /\ letters' = AddedBy(letters, job.replacement, Len(Step.out))
  /\ \/ job' = NoJob /\ budget' = 0 /\ Step.searcher.finished
        /\ outcome' = [kind |-> "Replaced", count |-> job.count + Len(Step.out)]
     \/ GoesOn(Restarted(job, Step, doc'), Step.scanned)

TearsStep ==
  /\ \E k \in 1 .. Len(Step.out) :
       /\ doc' \in FailedReplacements(ReplacedUpTo(doc, Step.out, job)[k - 1],
                     Shifted(Step.out, k, Len(job.replacement) - Len(job.pattern)),
                     Len(job.pattern), Len(job.replacement))
       /\ letters' = AddedBy(letters, job.replacement, k - 1)
  /\ Step.out # <<>> => MayReplace(doc, Step.out[1], Len(job.pattern), Len(job.replacement))
  /\ Finish(Ended("Torn"))

RefusesStep == Finish(Ended("Error")) /\ UNCHANGED <<doc, letters>>

\* A step of replace-all replaces all it found, tears, or is refused
\* (drive.rs:76-112).
LEMMA DriveReplaceAllIs ==
  ASSUME DriveReplaceAll
  PROVE  /\ job.kind = "ReplaceAll" /\ job # NoJob
         /\ ReplacesStep \/ TearsStep \/ RefusesStep
<1>1. job.kind = "ReplaceAll" /\ job # NoJob
  BY DEF DriveReplaceAll, NoJob
<1>2. ReplacesStep \/ TearsStep \/ RefusesStep
  BY DEF DriveReplaceAll, ReplacesStep, TearsStep, RefusesStep, Finish
<1>3. QED
  BY <1>1, <1>2

\* A job that goes on only spends the budget of its frame (drive.rs:27-34).
LEMMA GoesOnKeeps ==
  ASSUME NEW next, NEW scanned \in Nat, budget \in Nat, GoesOn(next, scanned)
  PROVE  job' = next /\ budget' \in Nat /\ outcome' = outcome
<1>1. Monus(budget, Larger(scanned, 1)) \in Nat
  BY DEF Monus, Most, Larger
<1>2. QED
  BY <1>1 DEF GoesOn

\* A step of replace-all keeps the invariant, in each of its three ways.
LEMMA DriveReplaceAllKeeps ==
  ASSUME JobInv, DriveReplaceAll
  PROVE  JobInv'
<1>1. /\ doc \in GoodDocs /\ GoodJob(job) /\ job # NoJob /\ outcome = Pending /\ budget \in Nat
      /\ letters \in Seq(Alphabet) /\ Len(letters) = doc.added
  BY DriveReplaceAllIs DEF JobInv
<1>2. /\ Len(job.pattern) \in Nat \ {0} /\ Len(job.replacement) \in Nat
      /\ job.replacement \in Seq(Alphabet)
  BY <1>1, JobFields
<1>. DEFINE out == Step.out
            m == Len(job.pattern)
            n == Len(job.replacement)
            f == ReplacedUpTo(doc, Step.out, job)
<1>3. /\ StepKeeps(Step, job.searcher, job.pattern, Text, Unread) /\ Step.scanned \in Nat
      /\ out \in Seq(Nat) /\ Len(out) \in Nat
      /\ \A k \in 1 .. Len(out) - 1 : out[k] + m <= out[k + 1]
  <2>1. StepKeeps(Step, job.searcher, job.pattern, Text, Unread)
    BY <1>1, StepOfJob
  <2>2. StepFinds(out, job.searcher, job.pattern, Text, Unread) /\ Step.scanned \in Nat
    BY <2>1 DEF StepKeeps
  <2>. HIDE DEF out
  <2>3. out \in Seq(Nat) /\ \A k \in 1 .. Len(out) - 1 : out[k] + m <= out[k + 1]
    BY <2>2 DEF StepFinds
  <2>4. Len(out) \in Nat
    BY <2>3
  <2>5. QED
    BY <2>1, <2>2, <2>3, <2>4
<1>4. ASSUME NEW k \in 0 .. Len(out),
             Step.out # <<>> => MayReplace(doc, Step.out[1], Len(job.pattern), Len(job.replacement))
      PROVE  /\ f[k] \in GoodDocs
             /\ AddedBy(letters, job.replacement, k) \in Seq(Alphabet)
             /\ Len(AddedBy(letters, job.replacement, k)) = f[k].added
  <2>1. ReplacedIs(doc, doc, out, job, k, f)
    BY <1>1, <1>4, StepReplaces
  <2>2. f[k] \in GoodDocs /\ f[k].added = doc.added + k * n
    BY <2>1 DEF ReplacedIs
  <2>3. k \in Nat
    BY <1>3
  <2>4. QED
    <3>. DEFINE r == job.replacement
                g == f[k]
                x == AddedBy(letters, r, k)
    <3>1. x \in Seq(Alphabet) /\ Len(x) = Len(letters) + k * Len(r)
      BY <1>1, <1>2, <2>3, AddedLength
    <3>2. g \in GoodDocs /\ g.added = doc.added + k * Len(r)
      BY <2>2
    <3>. HIDE DEF x, g
    <3>3. g \in GoodDocs /\ x \in Seq(Alphabet) /\ Len(x) = g.added
      BY <1>1, <3>1, <3>2
    <3>4. QED
      BY <3>3 DEF x, g
<1>5. CASE ReplacesStep
  <2>1. /\ doc' = f[Len(out)] /\ letters' = AddedBy(letters, job.replacement, Len(out))
        /\ Step.out # <<>> => MayReplace(doc, Step.out[1], Len(job.pattern), Len(job.replacement))
    BY <1>5 DEF ReplacesStep
  <2>2. Len(out) \in 0 .. Len(out)
    BY <1>3
  <2>3. doc' \in GoodDocs /\ letters' \in Seq(Alphabet) /\ Len(letters') = doc'.added
    BY <1>4, <2>1, <2>2
  <2>4. budget' \in Nat /\ (job' = NoJob \/ (GoodJob(job') /\ outcome' = Pending))
    <3>1. CASE job' = NoJob /\ budget' = 0
      BY <3>1
    <3>2. CASE GoesOn(Restarted(job, Step, doc'), Step.scanned)
      <4>1. job' = Restarted(job, Step, doc') /\ budget' \in Nat /\ outcome' = outcome
        BY <1>1, <1>3, <3>2, GoesOnKeeps
      <4>2. GoodJob(Restarted(job, Step, doc'))
        BY <1>1, <1>3, <2>3, RestartedGood
      <4>3. QED
        BY <1>1, <4>1, <4>2
    <3>3. QED
      BY <1>5, <3>1, <3>2 DEF ReplacesStep
  <2>5. QED
    BY <2>3, <2>4 DEF JobInv
<1>6. CASE TearsStep
  <2>1. PICK k \in 1 .. Len(out) :
          /\ doc' \in FailedReplacements(f[k - 1], Shifted(out, k, n - m), m, n)
          /\ letters' = AddedBy(letters, job.replacement, k - 1)
    BY <1>6 DEF TearsStep
  <2>2. k - 1 \in 0 .. Len(out)
    BY <1>3
  <2>3. /\ f[k - 1] \in GoodDocs /\ letters' \in Seq(Alphabet)
        /\ Len(letters') = f[k - 1].added
    BY <1>4, <1>6, <2>1, <2>2 DEF TearsStep
  <2>4. Shifted(out, k, n - m) \in Nat
    BY <1>2, <1>3, ShiftedApart
  <2>5. doc' \in GoodDocs /\ doc'.added = f[k - 1].added
    <3>. DEFINE g == f[k - 1]
                at == Shifted(out, k, n - m)
    <3>1. g \in GoodDocs /\ at \in Nat /\ doc' \in FailedReplacements(g, at, m, n)
      BY <2>1, <2>3, <2>4
    <3>. HIDE DEF g, at, m, n
    <3>2. doc' \in GoodDocs /\ doc'.added = g.added
      BY <1>2, <3>1, FailedReplacementGood DEF m, n
    <3>3. QED
      BY <3>2 DEF g
  <2>6. job' = NoJob /\ budget' = 0
    BY <1>6 DEF TearsStep, Finish
  <2>7. QED
    BY <2>3, <2>5, <2>6 DEF JobInv
<1>7. CASE RefusesStep
  BY <1>1, <1>7 DEF RefusesStep, Finish, JobInv
<1>8. QED
  BY <1>5, <1>6, <1>7, DriveReplaceAllIs

-----------------------------------------------------------------------------
(* The steps of a job, and of the user. *)

\* The other steps of a job.
LEMMA DriveOthersKeep ==
  ASSUME JobInv, DriveNext \/ DriveAll
  PROVE  JobInv' /\ UNCHANGED <<doc, letters>> /\ (job' # NoJob => job'.kind # "ReplaceAll")
<1>1. /\ GoodJob(job) /\ job # NoJob /\ outcome = Pending /\ budget \in Nat
      /\ UNCHANGED <<doc, letters>> /\ job.kind # "ReplaceAll"
  <2>1. job.kind \in {"Next", "All"} /\ UNCHANGED <<doc, letters>>
    BY DEF DriveNext, DriveAll
  <2>2. job # NoJob
    BY <2>1 DEF NoJob
  <2>3. QED
    BY <2>1, <2>2 DEF JobInv
<1>2. /\ job \in Jobs /\ job.results \in Seq(Nat)
      /\ GoodSearcher(job.searcher, Len(job.pattern)) /\ job.searcher.stop <= job.rangeEnd
  BY <1>1, JobFields DEF GoodJob
<1>. DEFINE s == Step.searcher
            out == Step.out
<1>3. /\ GoodSearcher(s, Len(job.pattern)) /\ s.stop = job.searcher.stop
      /\ s \in Searchers /\ out \in Seq(Nat) /\ Step.scanned \in Nat
  <2>1. StepKeeps(Step, job.searcher, job.pattern, Text, Unread)
    BY <1>1, StepOfJob
  <2>2. QED
    BY <2>1 DEF StepKeeps, StepFinds, GoodSearcher
<1>. HIDE DEF s
<1>4. CASE DriveNext
  <2>. DEFINE j == [job EXCEPT !.searcher = s]
  <2>1. \/ job' = NoJob /\ budget' = 0
        \/ GoesOn(j, Step.scanned)
    BY <1>4 DEF DriveNext, Finish, s
  <2>2. /\ j \in Jobs /\ j.searcher = s /\ j.pattern = job.pattern /\ j.rangeEnd = job.rangeEnd
        /\ j.kind = job.kind
    BY <1>2, <1>3 DEF Jobs
  <2>. HIDE DEF j
  <2>3. GoodJob(j)
    BY <1>2, <1>3, <2>2 DEF GoodJob
  <2>4. CASE job' = NoJob /\ budget' = 0
    BY <1>1, <2>4 DEF JobInv
  <2>5. CASE GoesOn(j, Step.scanned)
    <3>1. job' = j /\ budget' \in Nat /\ outcome' = outcome
      BY <1>1, <1>3, <2>5, GoesOnKeeps
    <3>2. QED
      BY <1>1, <2>2, <2>3, <3>1 DEF JobInv
  <2>6. QED
    BY <1>1, <2>1, <2>4, <2>5
<1>5. CASE DriveAll
  <2>. DEFINE all == job.results \o out
              list == SubSeq(all, 1, Smaller(Len(all), MaxResults))
              j == [job EXCEPT !.searcher = s, !.results = list]
  <2>1. \/ job' = NoJob /\ budget' = 0
        \/ GoesOn(j, Step.scanned)
    BY <1>5 DEF DriveAll, Finish, s
  <2>2. list \in Seq(Nat)
    <3>1. all \in Seq(Nat)
      BY <1>2, <1>3
    <3>. HIDE DEF all
    <3>2. Len(all) \in Nat /\ Smaller(Len(all), MaxResults) \in Int /\ Smaller(Len(all), MaxResults) <= Len(all)
      BY <3>1, SearchAssumption DEF Smaller
    <3>3. QED
      BY <3>1, <3>2
  <2>. HIDE DEF list
  <2>3. /\ j \in Jobs /\ j.searcher = s /\ j.pattern = job.pattern /\ j.rangeEnd = job.rangeEnd
        /\ j.kind = job.kind
    BY <1>2, <1>3, <2>2 DEF Jobs
  <2>. HIDE DEF j
  <2>4. GoodJob(j)
    BY <1>2, <1>3, <2>3 DEF GoodJob
  <2>5. CASE job' = NoJob /\ budget' = 0
    BY <1>1, <2>5 DEF JobInv
  <2>6. CASE GoesOn(j, Step.scanned)
    <3>1. job' = j /\ budget' \in Nat /\ outcome' = outcome
      BY <1>1, <1>3, <2>6, GoesOnKeeps
    <3>2. QED
      BY <1>1, <2>3, <2>4, <3>1 DEF JobInv
  <2>7. QED
    BY <1>1, <2>1, <2>5, <2>6
<1>6. QED
  BY <1>4, <1>5

\* A search is asked for an ordered range of positions (gui/src/search.rs).
LEMMA RangesAre ==
  ASSUME doc \in GoodDocs, NEW range \in SearchRanges
  PROVE  /\ range[1] \in Nat /\ range[2] \in Nat /\ range[1] <= range[2]
         /\ \A backward \in BOOLEAN : Froms(range, backward) \subseteq Nat
<1>1. Length(doc) \in Nat
  BY GoodDocFields
<1>2. range[1] \in Nat /\ range[2] \in Nat /\ range[1] <= range[2]
  <2>1. CASE range = Whole(doc)
    BY <1>1, <2>1 DEF Whole
  <2>2. CASE range \in {r \in Ranges : r[1] < r[2] /\ r[2] <= Length(doc)}
    BY <2>2, SearchAssumption
  <2>3. QED
    BY <2>1, <2>2 DEF SearchRanges
<1>3. ASSUME NEW backward \in BOOLEAN PROVE Froms(range, backward) \subseteq Nat
  BY <1>1, <1>2 DEF Froms, Offsets
<1>4. QED
  BY <1>2, <1>3

\* What a job may be asked for: the arguments of its start.
MayAsk(d, kind, p, r, range, from, backward, wrap) ==
  /\ d \in GoodDocs /\ kind \in {"Next", "All", "ReplaceAll"} /\ p \in Patterns
  /\ r \in Replacements \cup {<<>>}
  /\ range[1] \in Nat /\ range[2] \in Nat /\ range[1] <= range[2]
  /\ from \in Nat /\ backward \in BOOLEAN /\ wrap \in BOOLEAN

\* A job that starts is good and has replaced nothing (gui/src/search.rs).
LEMMA JobOfGood ==
  ASSUME NEW d, NEW kind, NEW p, NEW r, NEW range, NEW from, NEW backward, NEW wrap,
         MayAsk(d, kind, p, r, range, from, backward, wrap)
  PROVE  /\ GoodJob(JobOf(d, kind, p, r, range, from, backward, wrap))
         /\ JobOf(d, kind, p, r, range, from, backward, wrap).count = 0
         /\ JobOf(d, kind, p, r, range, from, backward, wrap).kind = kind
<1>. DEFINE a == range[1]
            b == range[2]
            len == Length(d)
            m == Len(p)
            s == NewSearcher(a, b, len, from, backward, wrap, m)
            j == JobOf(d, kind, p, r, range, from, backward, wrap)
<1>1. /\ m \in Nat \ {0} /\ len \in Nat /\ a \in Nat /\ b \in Nat /\ a <= b
      /\ from \in Nat /\ backward \in BOOLEAN /\ wrap \in BOOLEAN
  BY PatternLength, GoodDocFields DEF MayAsk
<1>2. j = JobWith(kind, p, r, b, s)
  BY DEF JobOf, JobWith
<1>. HIDE DEF a, b, len, m
<1>3. GoodSearcher(s, m) /\ s.stop <= b
  BY ONLY <1>1, NewIsGood
<1>. HIDE DEF s, j
<1>4. /\ kind \in {"Next", "All", "ReplaceAll"} /\ p \in Patterns
      /\ r \in Replacements \cup {<<>>} /\ b \in Nat
      /\ GoodSearcher(s, Len(p)) /\ s.stop <= b
  BY <1>1, <1>3 DEF MayAsk, m
<1>5. /\ GoodJob(JobWith(kind, p, r, b, s)) /\ JobWith(kind, p, r, b, s).count = 0
      /\ JobWith(kind, p, r, b, s).kind = kind
  BY ONLY <1>4, NewJobGood
<1>6. QED
  BY <1>2, <1>5 DEF j

\* A job that starts, or the replacement of one match, keeps the invariant, and a
\* replace-all has replaced nothing when it starts.
LEMMA StartKeeps ==
  ASSUME JobInv, Start
  PROVE  /\ JobInv'
         /\ job' # NoJob /\ job'.kind = "ReplaceAll" => job'.count = 0
<1>0. doc \in GoodDocs /\ Length(doc) \in Nat /\ 0 \in Nat /\ <<>> \in Replacements \cup {<<>>}
  BY GoodDocFields DEF JobInv
<1>1. PICK p \in Patterns, wrap \in BOOLEAN :
        \/ \E range \in SearchRanges, backward \in BOOLEAN :
             \E from \in Froms(range, backward) : StartNext(p, backward, wrap, range, from)
        \/ \E range \in SearchRanges : StartAll(p, range)
        \/ \E range \in SearchRanges, r \in Replacements : StartReplaceAll(p, r, range)
        \/ \E r \in Replacements, at \in Offsets : ReplaceCurrent(p, r, at, wrap)
  BY DEF Start
<1>8. p \in Patterns /\ wrap \in BOOLEAN /\ FALSE \in BOOLEAN
  BY <1>1
<1>2. ASSUME NEW range \in SearchRanges, NEW backward \in BOOLEAN,
             NEW from \in Froms(range, backward), StartNext(p, backward, wrap, range, from)
      PROVE  JobInv' /\ (job' # NoJob /\ job'.kind = "ReplaceAll" => job'.count = 0)
  <2>1. range[1] \in Nat /\ range[2] \in Nat /\ range[1] <= range[2] /\ from \in Nat
    BY <1>0, <1>2, RangesAre
  <2>. DEFINE j == JobOf(doc, "Next", p, <<>>, range, from, backward, wrap)
  <2>2. MayAsk(doc, "Next", p, <<>>, range, from, backward, wrap)
    BY <1>0, <1>8, <1>2, <2>1 DEF MayAsk
  <2>3. GoodJob(j) /\ j.count = 0
    BY ONLY <2>2, JobOfGood
  <2>4. job' = j /\ outcome' = Pending /\ UNCHANGED <<doc, letters, budget>>
    BY <1>2 DEF StartNext, Begin
  <2>. HIDE DEF j
  <2>5. QED
    BY <2>3, <2>4 DEF JobInv
<1>3. ASSUME NEW range \in SearchRanges, StartAll(p, range)
      PROVE  JobInv' /\ (job' # NoJob /\ job'.kind = "ReplaceAll" => job'.count = 0)
  <2>1. range[1] \in Nat /\ range[2] \in Nat /\ range[1] <= range[2]
    BY <1>0, <1>3, RangesAre
  <2>. DEFINE no == FALSE
              a == range[1]
              j == JobOf(doc, "All", p, <<>>, range, a, no, no)
  <2>2. MayAsk(doc, "All", p, <<>>, range, a, no, no)
    BY <1>0, <1>8, <2>1 DEF MayAsk
  <2>3. job' = j /\ outcome' = Pending /\ UNCHANGED <<doc, letters, budget>>
    BY <1>3 DEF StartAll, Begin
  <2>. HIDE DEF no, a
  <2>4. GoodJob(j) /\ j.count = 0
    BY ONLY <2>2, JobOfGood
  <2>. HIDE DEF j
  <2>5. QED
    BY <2>3, <2>4 DEF JobInv
<1>4. ASSUME NEW range \in SearchRanges, NEW r \in Replacements, StartReplaceAll(p, r, range)
      PROVE  JobInv' /\ (job' # NoJob /\ job'.kind = "ReplaceAll" => job'.count = 0)
  <2>1. range[1] \in Nat /\ range[2] \in Nat /\ range[1] <= range[2]
    BY <1>0, <1>4, RangesAre
  <2>. DEFINE no == FALSE
              a == range[1]
              j == JobOf(doc, "ReplaceAll", p, r, range, a, no, no)
  <2>2. MayAsk(doc, "ReplaceAll", p, r, range, a, no, no)
    BY <1>0, <1>8, <2>1 DEF MayAsk
  <2>3. job' = j /\ outcome' = Pending /\ UNCHANGED <<doc, letters, budget>>
    BY <1>4 DEF StartReplaceAll, Begin
  <2>. HIDE DEF no, a
  <2>4. GoodJob(j) /\ j.count = 0
    BY ONLY <2>2, JobOfGood
  <2>. HIDE DEF j
  <2>5. QED
    BY <2>3, <2>4 DEF JobInv
<1>5. ASSUME NEW r \in Replacements, NEW at \in Offsets, ReplaceCurrent(p, r, at, wrap)
      PROVE  JobInv' /\ (job' # NoJob /\ job'.kind = "ReplaceAll" => job'.count = 0)
  <2>. DEFINE m == Len(p)
              n == Len(r)
  <2>1. /\ at \in Nat /\ m \in Nat \ {0} /\ n \in Nat /\ r \in Seq(Alphabet)
        /\ at + m <= Length(doc) /\ job = NoJob /\ Replaced(p, r, at, wrap) /\ budget' = budget
    BY <1>0, <1>5, PatternLength, ReplacementLetters DEF ReplaceCurrent, Offsets
  <2>2. letters \in Seq(Alphabet) /\ Len(letters) = doc.added /\ budget \in Nat
    BY DEF JobInv
  <2>3. CASE outcome' = Ended("Error") /\ UNCHANGED <<doc, letters, job>>
    BY <1>0, <2>1, <2>2, <2>3 DEF JobInv
  <2>4. CASE /\ MayReplace(doc, at, m, n)
             /\ doc' = ApplyReplacement(doc, at, m, n)
             /\ letters' = letters \o r
             /\ Begin(JobOf(doc', "Next", p, <<>>, Whole(doc'), at + n, FALSE, wrap))
    <3>1. Replaces(doc, doc', at, m, n)
      BY <1>0, <2>1, <2>4, ReplacementReplaces
    <3>2. doc' \in GoodDocs /\ doc'.added = doc.added + n
      BY <3>1 DEF Replaces, Commits
    <3>. DEFINE w == Whole(doc')
                no == FALSE
                u == at + n
                j == JobOf(doc', "Next", p, <<>>, w, u, no, wrap)
    <3>3. w[1] \in Nat /\ w[2] \in Nat /\ w[1] <= w[2] /\ u \in Nat
      <4>1. Length(doc') \in Nat /\ w = <<0, Length(doc')>>
        BY <3>2, GoodDocFields DEF Whole
      <4>2. QED
        BY <2>1, <4>1
    <3>5. job' = j /\ outcome' = Pending
      BY <2>4 DEF Begin
    <3>4. GoodJob(j) /\ j.count = 0
      <4>0. no \in BOOLEAN
        OBVIOUS
      <4>. HIDE DEF w, u, no
      <4>1. MayAsk(doc', "Next", p, <<>>, w, u, no, wrap)
        BY <1>0, <1>8, <3>2, <3>3, <4>0 DEF MayAsk
      <4>2. QED
        BY ONLY <4>1, JobOfGood
    <3>. HIDE DEF j, m
    <3>6. letters' \in Seq(Alphabet) /\ Len(letters') = doc'.added
      <4>1. letters' = letters \o r /\ r \in Seq(Alphabet) /\ letters \in Seq(Alphabet)
        BY <2>1, <2>2, <2>4
      <4>2. letters' \in Seq(Alphabet) /\ Len(letters') = Len(letters) + Len(r)
        BY <4>1
      <4>3. QED
        BY <2>2, <3>2, <4>2
    <3>7. QED
      BY <2>1, <2>2, <3>2, <3>4, <3>5, <3>6 DEF JobInv
  <2>5. CASE /\ doc' \in FailedReplacements(doc, at, m, n)
             /\ outcome' = Ended("Torn")
             /\ UNCHANGED <<letters, job>>
    <3>1. doc' \in GoodDocs /\ doc'.added = doc.added
      BY <1>0, <2>1, <2>5, FailedReplacementGood
    <3>2. QED
      BY <2>1, <2>2, <2>5, <3>1 DEF JobInv
  <2>6. QED
    BY <2>1, <2>3, <2>4, <2>5 DEF Replaced
<1>6. QED
  BY <1>1, <1>2, <1>3, <1>4, <1>5

\* What the user edits between two frames keeps the invariant and leaves the job
\* as it is.
LEMMA UserKeeps ==
  ASSUME JobInv, User
  PROVE  JobInv' /\ UNCHANGED <<job, outcome>>
<1>1. /\ doc \in GoodDocs /\ Length(doc) \in Nat /\ Offsets \subseteq Nat
      /\ letters \in Seq(Alphabet) /\ Len(letters) = doc.added
      /\ UNCHANGED <<job, outcome, budget>>
  <2>1. doc \in GoodDocs /\ Length(doc) \in Nat
    BY GoodDocFields DEF JobInv
  <2>2. UNCHANGED <<job, outcome, budget>>
    BY DEF User, TypeLetter, DeleteLetter, UndoOrRedo, searchvars
  <2>3. QED
    BY <2>1, <2>2 DEF JobInv, Offsets
<1>2. CASE TypeLetter
  <2>1. PICK at \in Offsets, x \in Typed :
          /\ \/ MayInsert(doc, at, 1) /\ doc' = Insert(doc, at, 1)
             \/ MayOverwrite(doc, at, 1) /\ doc' = Overwrite(doc, at, 1)
          /\ letters' = Append(letters, x)
    BY <1>2 DEF TypeLetter
  <2>2. at \in Nat /\ 1 \in Nat \ {0} /\ x \in Alphabet
    BY <1>1 DEF Alphabet
  <2>3. doc' \in GoodDocs /\ doc'.added = doc.added + 1
    BY <1>1, <2>1, <2>2, TypingAdds, InsertGood, OverwriteGood
  <2>4. letters' \in Seq(Alphabet) /\ Len(letters') = Len(letters) + 1
    BY <1>1, <2>1, <2>2
  <2>5. QED
    BY <1>1, <2>3, <2>4 DEF JobInv
<1>3. CASE DeleteLetter
  <2>1. PICK at \in Offsets : MayDelete(doc, at, 1) /\ doc' = Delete(doc, at, 1)
    BY <1>3 DEF DeleteLetter, DeleteAt
  <2>2. at \in Nat /\ 1 \in Nat \ {0} /\ UNCHANGED letters
    BY <1>1, <1>3 DEF DeleteLetter, searchvars
  <2>3. doc' \in GoodDocs /\ doc'.added = doc.added
    BY <1>1, <2>1, <2>2, DeleteTakesOut
  <2>4. QED
    BY <1>1, <2>2, <2>3 DEF JobInv
<1>4. CASE UndoOrRedo
  <2>1. \/ doc' = doc
        \/ doc.undo # <<>> /\ doc' = Undo(doc)
        \/ doc.redo # <<>> /\ doc' = Redo(doc)
    BY <1>4 DEF UndoOrRedo, UndoStep, RedoStep
  <2>2. doc' \in GoodDocs /\ doc'.added = doc.added
    BY <1>1, <2>1, UndoGood, RedoGood, UndoAdds
  <2>3. UNCHANGED letters
    BY <1>4 DEF UndoOrRedo, searchvars
  <2>4. QED
    BY <1>1, <2>2, <2>3 DEF JobInv
<1>5. QED
  BY <1>1, <1>2, <1>3, <1>4 DEF User

\* A new frame leaves the job and the document as they are (drive.rs:17).
LEMMA BeginFrameKeeps ==
  ASSUME JobInv, BeginFrame
  PROVE  JobInv' /\ UNCHANGED <<doc, job, outcome>>
<1>1. FrameBudget \in Nat
  BY SearchAssumption
<1>2. QED
  BY <1>1 DEF JobInv, BeginFrame

\* A cancelled job leaves the document as it is.
LEMMA CancelKeeps ==
  ASSUME JobInv, Cancel
  PROVE  JobInv'
BY DEF JobInv, Cancel, Finish

\* The editor opens a document with no job running.
LEMMA InitJob == HInit => JobInv
<1>1. SUFFICES ASSUME HInit PROVE JobInv
  OBVIOUS
<1>2. /\ Len(source) \in Nat /\ letters = <<>> /\ job = NoJob /\ budget = 0
  <2>1. IsSequence(source)
    BY <1>1, SearchAssumption DEF HInit, SearchInit
  <2>2. QED
    BY <1>1, <2>1, SequenceOf DEF HInit, SearchInit
<1>3. PICK resizable \in BOOLEAN : doc = NewDocument(Len(source), resizable)
  BY <1>1 DEF HInit, SearchInit
<1>4. doc \in GoodDocs /\ doc.added = 0
  BY <1>2, <1>3, NewDocumentGood DEF NewDocument
<1>5. QED
  BY <1>2, <1>4 DEF JobInv

\* Every step keeps the invariant.
LEMMA NextJob == JobInv /\ [HNext]_hvars => JobInv'
<1>1. SUFFICES ASSUME JobInv, [HNext]_hvars PROVE JobInv'
  OBVIOUS
<1>2. CASE HStart
  BY <1>1, <1>2, StartKeeps DEF HStart
<1>3. CASE BeginFrame
  BY <1>1, <1>3, BeginFrameKeeps
<1>4. CASE Drive
  BY <1>1, <1>4, DriveOthersKeep, DriveReplaceAllKeeps DEF Drive
<1>5. CASE Cancel
  BY <1>1, <1>5, CancelKeeps
<1>6. CASE HUser
  BY <1>1, <1>6, UserKeeps DEF HUser
<1>7. CASE UNCHANGED hvars
  BY <1>1, <1>7 DEF hvars, searchvars, JobInv
<1>8. QED
  BY <1>1, <1>2, <1>3, <1>4, <1>5, <1>6, <1>7 DEF HNext, HEnd

\* In every state the running job, the document and its letters are good.
LEMMA JobInvHolds == HSpec => []JobInv
BY InitJob, NextJob, PTL DEF HSpec

\* Whatever the user edits between two frames, the running searcher keeps inside
\* its range, and its range inside what the job may reach (search.rs:114-115,
\* drive.rs:99).
THEOREM SearchersKeepInside == HSpec => []SearcherStaysInRange
<1>1. ASSUME JobInv PROVE SearcherStaysInRange
  <2>1. SUFFICES ASSUME job # NoJob
                 PROVE  InRange(job.searcher, Len(job.pattern)) /\ job.searcher.stop <= job.rangeEnd
    BY DEF SearcherStaysInRange
  <2>2. GoodJob(job)
    BY <1>1, <2>1 DEF JobInv
  <2>3. QED
    BY <2>2, JobFields, GoodIsInRange
<1>2. QED
  BY <1>1, JobInvHolds, PTL

-----------------------------------------------------------------------------
(* Replace-all as one transaction. *)

\* Every step keeps what a replace-all has made of the document one transaction.
LEMMA NextAsked == JobInv /\ AskedInv /\ [HNext]_hvars => AskedInv'
<1>1. SUFFICES ASSUME JobInv, AskedInv, [HNext]_hvars PROVE AskedInv'
  OBVIOUS
<1>2. CASE HStart
  <2>1. SUFFICES ASSUME job' # NoJob, job'.kind = "ReplaceAll"
                 PROVE  \E d0 \in GoodDocs :
                          /\ Len(d0.undo) = asked'.depth /\ Content(d0.table) = asked'.content
                          /\ Since(d0, job'.count, doc')
    BY DEF AskedInv
  <2>2. JobInv' /\ job'.count = 0
    BY <1>1, <1>2, <2>1, StartKeeps DEF HStart
  <2>3. doc' \in GoodDocs /\ Since(doc', job'.count, doc')
    BY <2>2 DEF JobInv, Since
  <2>4. asked' = AskedNow(doc', letters', job')
    BY <1>2, <2>1 DEF HStart
  <2>5. asked'.depth = Len(doc'.undo) /\ asked'.content = Content(doc'.table)
    BY <2>4 DEF AskedNow
  <2>6. QED
    BY <2>3, <2>5
<1>3. CASE BeginFrame /\ UNCHANGED asked
  BY <1>1, <1>3, BeginFrameKeeps DEF AskedInv
<1>4. CASE HEnd /\ job' = NoJob
  BY <1>4 DEF AskedInv
<1>5. CASE (DriveNext \/ DriveAll) /\ job' # NoJob
  BY <1>1, <1>5, DriveOthersKeep DEF AskedInv
<1>6. CASE DriveReplaceAll /\ job' # NoJob /\ asked' = asked
  <2>1. SUFFICES ASSUME asked.is = "known"
                 PROVE  \E d0 \in GoodDocs :
                          /\ Len(d0.undo) = asked.depth /\ Content(d0.table) = asked.content
                          /\ Since(d0, job'.count, doc')
    BY <1>6 DEF AskedInv
  <2>2. job # NoJob /\ job.kind = "ReplaceAll" /\ (ReplacesStep \/ TearsStep \/ RefusesStep)
    BY <1>6, DriveReplaceAllIs
  <2>3. ReplacesStep
    BY <1>6, <2>2 DEF TearsStep, RefusesStep, Finish
  <2>4. PICK d0 \in GoodDocs :
          /\ Len(d0.undo) = asked.depth /\ Content(d0.table) = asked.content
          /\ Since(d0, job.count, doc)
    BY <1>1, <2>1, <2>2 DEF AskedInv
  <2>5. StepKeeps(Step, job.searcher, job.pattern, Text, Unread) /\ Len(Step.out) \in 0 .. Len(Step.out)
    <3>1. StepKeeps(Step, job.searcher, job.pattern, Text, Unread)
      BY <1>1, <2>2, StepOfJob
    <3>2. Step.out \in Seq(Nat)
      BY <3>1 DEF StepKeeps, StepFinds
    <3>3. Len(Step.out) \in Nat
      BY <3>2
    <3>4. QED
      BY <3>1, <3>3
  <2>6. ReplacedIs(d0, doc, Step.out, job, Len(Step.out), ReplacedUpTo(doc, Step.out, job))
    BY <1>1, <2>2, <2>3, <2>4, <2>5, StepReplaces DEF ReplacesStep
  <2>7. Since(d0, job.count + Len(Step.out), doc')
    BY <2>3, <2>4, <2>6 DEF ReplacedIs, ReplacesStep
  <2>8. job'.count = job.count + Len(Step.out)
    <3>1. job' = Restarted(job, Step, doc')
      BY <1>6, <2>3 DEF ReplacesStep, GoesOn
    <3>2. GoodJob(job) /\ doc' \in GoodDocs
      BY <1>1, <1>6, <2>2, DriveReplaceAllKeeps DEF JobInv
    <3>3. QED
      BY <2>5, <3>1, <3>2, RestartedGood
  <2>9. QED
    BY <2>4, <2>7, <2>8
<1>7. CASE HUser
  <2>1. asked'.is # "known"
    BY <1>7 DEF HUser, NotAsked, Disturbed
  <2>2. QED
    BY <2>1 DEF AskedInv
<1>8. CASE UNCHANGED hvars
  BY <1>1, <1>8 DEF hvars, searchvars, AskedInv
<1>9. ASSUME HEnd, job' # NoJob PROVE (Drive /\ asked' = asked)
  BY <1>9 DEF HEnd, Cancel, Finish
<1>10. QED
  BY <1>1, <1>2, <1>3, <1>4, <1>5, <1>6, <1>7, <1>8, <1>9 DEF HNext, Drive

\* In every state an undisturbed replace-all has made at most one transaction.
LEMMA AskedInvHolds == HSpec => [](JobInv /\ AskedInv)
<1>1. HInit => JobInv /\ AskedInv
  <2>1. HInit => job = NoJob
    BY DEF HInit, SearchInit
  <2>2. QED
    BY <2>1, InitJob DEF AskedInv
<1>2. (JobInv /\ AskedInv) /\ [HNext]_hvars => (JobInv /\ AskedInv)'
  BY NextJob, NextAsked
<1>3. QED
  BY <1>1, <1>2, PTL DEF HSpec

\* What undo makes of a document that a job has changed in one transaction.
LEMMA UndoesAtOnce ==
  ASSUME NEW d0 \in GoodDocs, NEW count \in Nat, NEW g \in GoodDocs, Since(d0, count, g)
  PROVE  IF Len(g.undo) = Len(d0.undo) THEN Content(g.table) = Content(d0.table)
         ELSE Len(g.undo) = Len(d0.undo) + 1 /\ Content(Undo(g).table) = Content(d0.table)
<1>1. CASE g = d0
  BY <1>1
<1>2. CASE Commits(d0, g)
  <2>1. PICK tx \in Seq(Edits(Piece)) :
          g.undo = Append(d0.undo, tx) /\ TxLeads(Content(d0.table), tx, Content(g.table))
    BY <1>2 DEF Commits
  <2>2. d0.undo \in Seq(Seq(Edits(Piece))) /\ g.table \in Seq(Piece) /\ g \in Docs(Piece)
    BY GoodDocFields, StoredEditsAreEdits DEF GoodDocs
  <2>3. Len(g.undo) = Len(d0.undo) + 1 /\ Len(d0.undo) \in Nat /\ g.undo[Len(g.undo)] = tx
    BY <2>1, <2>2
  <2>4. Content(RevertedUpTo(g.table, tx)[Len(tx)]) = Content(d0.table)
    BY <2>1, <2>2, UndoLeads
  <2>5. Undo(g).table = RevertedUpTo(g.table, tx)[Len(tx)]
    <3>. DEFINE t == RevertedUpTo(g.table, tx)[Len(tx)]
                u == SubSeq(g.undo, 1, Len(g.undo) - 1)
                r == Append(g.redo, tx)
    <3>1. Undo(g) = [g EXCEPT !.table = t, !.undo = u, !.redo = r]
      BY <2>3 DEF Undo
    <3>. HIDE DEF t, u, r
    <3>2. Undo(g).table = t
      BY <2>2, <3>1 DEF Docs
    <3>3. QED
      BY <3>2 DEF t
  <2>6. QED
    BY <2>3, <2>4, <2>5
<1>3. QED
  BY <1>1, <1>2 DEF Since

\* After every step of an undisturbed replace-all one undo brings back the content
\* from before it (drive.rs:88, 110).
THEOREM ReplaceAllIsOneTransaction == HSpec => ReplaceAllUndoesAtOnce
<1>1. ASSUME JobInv, AskedInv, DriveReplaceAll, asked.is = "known",
             outcome'.kind \notin {"Torn", "Error"}
      PROVE  IF Len(doc'.undo) = asked.depth THEN Content(doc'.table) = asked.content
             ELSE /\ Len(doc'.undo) = asked.depth + 1
                  /\ Content(Undo(doc').table) = asked.content
  <2>2. job # NoJob /\ job.kind = "ReplaceAll" /\ (ReplacesStep \/ TearsStep \/ RefusesStep)
    BY <1>1, DriveReplaceAllIs
  <2>3. ReplacesStep
    <3>1. TearsStep => outcome'.kind = "Torn"
      BY DEF TearsStep, Finish, Ended
    <3>2. RefusesStep => outcome'.kind = "Error"
      BY DEF RefusesStep, Finish, Ended
    <3>3. QED
      BY <1>1, <2>2, <3>1, <3>2
  <2>4. PICK d0 \in GoodDocs :
          /\ Len(d0.undo) = asked.depth /\ Content(d0.table) = asked.content
          /\ Since(d0, job.count, doc)
    BY <1>1, <2>2 DEF AskedInv
  <2>5. Len(Step.out) \in 0 .. Len(Step.out) /\ Len(Step.out) \in Nat
    <3>1. StepKeeps(Step, job.searcher, job.pattern, Text, Unread)
      BY <1>1, <2>2, StepOfJob
    <3>2. Step.out \in Seq(Nat)
      BY <3>1 DEF StepKeeps, StepFinds
    <3>3. Len(Step.out) \in Nat
      BY <3>2
    <3>4. QED
      BY <3>3
  <2>6. ReplacedIs(d0, doc, Step.out, job, Len(Step.out), ReplacedUpTo(doc, Step.out, job))
    BY <1>1, <2>2, <2>3, <2>4, <2>5, StepReplaces DEF ReplacesStep
  <2>7. Since(d0, job.count + Len(Step.out), doc')
    BY <2>3, <2>4, <2>6 DEF ReplacedIs, ReplacesStep
  <2>8. doc' \in GoodDocs /\ job.count \in Nat
    BY <1>1, <2>2, DriveReplaceAllKeeps, JobFields DEF JobInv
  <2>9. job.count + Len(Step.out) \in Nat
    BY <2>5, <2>8
  <2>10. QED
    BY <2>4, <2>7, <2>8, <2>9, UndoesAtOnce
<1>2. JobInv /\ AskedInv =>
        [DriveReplaceAll /\ asked.is = "known" /\ outcome'.kind \notin {"Torn", "Error"} =>
           IF Len(doc'.undo) = asked.depth THEN Content(doc'.table) = asked.content
           ELSE /\ Len(doc'.undo) = asked.depth + 1
                /\ Content(Undo(doc').table) = asked.content]_hvars
  BY <1>1
<1>3. QED
  BY <1>2, AskedInvHolds, PTL DEF ReplaceAllUndoesAtOnce

-----------------------------------------------------------------------------
(* A text in which matches are replaced. *)

\* What lies apart one by one lies apart altogether.
LEMMA Growing ==
  ASSUME NEW K \in Nat, NEW s \in [1 .. K -> Nat], NEW m \in Nat,
         \A k \in 1 .. K - 1 : s[k] + m <= s[k + 1]
  PROVE  \A k \in 1 .. K : \A l \in 1 .. k - 1 : s[l] + m <= s[k]
<1>. DEFINE S == {k \in 0 .. K : \A l \in 1 .. k - 1 : s[l] + m <= s[k]}
<1>1. 0 \in S
  OBVIOUS
<1>2. ASSUME NEW k \in 1 .. K, k - 1 \in S PROVE k \in S
  <2>1. ASSUME NEW l \in 1 .. k - 1 PROVE s[l] + m <= s[k]
    <3>1. /\ k - 1 \in 1 .. K - 1 /\ (k - 1) + 1 = k /\ l \in 1 .. K /\ k - 1 \in 1 .. K
      OBVIOUS
    <3>2. s[k - 1] + m <= s[k] /\ s[l] \in Nat /\ s[k - 1] \in Nat /\ s[k] \in Nat
      BY <3>1
    <3>3. CASE l = k - 1
      BY <3>2, <3>3
    <3>4. CASE l # k - 1
      <4>1. l \in 1 .. (k - 1) - 1
        BY <3>1, <3>4
      <4>2. s[l] + m <= s[k - 1]
        BY <1>2, <4>1
      <4>3. QED
        BY <3>2, <4>2
    <3>5. QED
      BY <3>3, <3>4
  <2>2. QED
    BY <2>1
<1>3. \A k \in 0 .. K : k \in S
  <2>. HIDE DEF S
  <2>1. QED
    BY <1>1, <1>2, PrefixInduction
<1>4. \A k \in 1 .. K : k \in 0 .. K
  OBVIOUS
<1>5. QED
  BY <1>3, <1>4

\* Where Substituted goes on.
PutFrom(f, text, ats, m, r) ==
  /\ Substituted(text, ats, m, r) = f[0]
  /\ \A i \in Nat : f[i] = IF i >= Len(text) THEN <<>>
                           ELSE IF i \in ats THEN r \o f[i + m]
                           ELSE <<text[i + 1]>> \o f[i + 1]

\* Substituted's recursion has a solution, and Substituted is its first value.
LEMMA SubstitutedRecursion ==
  ASSUME NEW L, NEW text \in Seq(L), NEW ats, NEW m \in Nat \ {0}, NEW r \in Seq(L)
  PROVE  \E f : PutFrom(f, text, ats, m, r)
<1>. DEFINE S == Seq(L)
            n == Len(text)
            base == [i \in Nat |-> <<>>]
            after == [i \in Nat |-> IF i \in ats THEN i + m ELSE i + 1]
            step == [x \in Nat \X S |->
                       IF x[1] < n THEN (IF x[1] \in ats THEN r \o x[2] ELSE <<text[x[1] + 1]>> \o x[2])
                       ELSE x[2]]
            Rhs(f, i) == IF i >= n THEN <<>>
                         ELSE IF i \in ats THEN r \o f[i + m] ELSE <<text[i + 1]>> \o f[i + 1]
            Body(f) == [i \in Nat |-> Rhs(f, i)]
            c == CHOOSE f : f = Body(f)
<1>0. n \in Nat
  OBVIOUS
<1>4. after \in Forward
  BY DEF Forward
<1>5. base \in [Nat -> S]
  <2>1. <<>> \in S
    OBVIOUS
  <2>. HIDE DEF S
  <2>2. QED
    BY <2>1
<1>6. step \in [Nat \X S -> S]
  <2>1. ASSUME NEW x \in Nat, NEW s \in S, x < n PROVE <<text[x + 1]>> \o s \in S
    <3>1. text[x + 1] \in L
      BY <2>1
    <3>2. <<text[x + 1]>> \in S
      BY <3>1
    <3>3. QED
      BY <3>2
  <2>2. ASSUME NEW s \in S PROVE r \o s \in S
    OBVIOUS
  <2>. HIDE DEF S, n
  <2>3. QED
    BY <2>1, <2>2
<1>7. PICK f \in [Nat -> S] :
        \A i \in Nat : f[i] = IF i < n THEN step[<<i, f[after[i]]>>] ELSE base[i]
  <2>. HIDE DEF S, n, base, after, step
  <2>1. DownwardRecursions(S, n, base, after, step) # {}
    BY ONLY <1>0, <1>4, <1>5, <1>6, DownwardRecursionExists
  <2>2. QED
    BY <2>1 DEF DownwardRecursions
<1>8. ASSUME NEW i \in Nat PROVE f[i] = Rhs(f, i)
  <2>1. after[i] \in Nat /\ after[i] = IF i \in ats THEN i + m ELSE i + 1
    OBVIOUS
  <2>2. f[after[i]] \in S
    <3>. HIDE DEF after, S
    <3>1. QED
      BY <1>7, <2>1
  <2>3. CASE i < n
    <3>1. f[i] = step[<<i, f[after[i]]>>]
      <4>. HIDE DEF after, S, step, n, base
      <4>1. QED
        BY <1>7, <2>3
    <3>. DEFINE z == f[after[i]]
    <3>2. z \in S
      BY <2>2
    <3>. HIDE DEF z
    <3>3. <<i, z>> \in Nat \X S
      BY <3>2
    <3>4. step[<<i, z>>] = IF i \in ats THEN r \o z ELSE <<text[i + 1]>> \o z
      <4>. HIDE DEF S, n
      <4>1. QED
        BY <2>3, <3>3
    <3>5. f[i] = IF i \in ats THEN r \o z ELSE <<text[i + 1]>> \o z
      <4>. HIDE DEF step, after
      <4>1. QED
        BY <3>1, <3>4 DEF z
    <3>. HIDE DEF step, after, n
    <3>6. QED
      BY <1>0, <2>1, <2>3, <3>5 DEF z
  <2>4. CASE ~ (i < n)
    <3>1. f[i] = base[i] /\ base[i] = <<>>
      <4>1. f[i] = base[i]
        <5>. HIDE DEF after, S, step, n, base
        <5>1. QED
          BY <1>7, <2>4
      <4>2. QED
        BY <4>1
    <3>. HIDE DEF n, base
    <3>2. QED
      BY <1>0, <2>4, <3>1
  <2>5. QED
    BY <2>3, <2>4
<1>9. f = Body(f)
  <2>1. f = [i \in Nat |-> f[i]]
    BY <1>7
  <2>. HIDE DEF Rhs
  <2>2. QED
    BY <1>8, <2>1
<1>10. c = Body(c)
  <2>. HIDE DEF Body
  <2>1. QED
    BY <1>9
<1>11. Substituted(text, ats, m, r) = c[0]
  BY DEF Substituted
<1>12. \A i \in Nat : c[i] = Rhs(c, i)
  <2>. HIDE DEF Rhs, c
  <2>1. QED
    BY <1>10
<1>13. QED
  <2>. HIDE DEF c
  <2>1. PutFrom(c, text, ats, m, r)
    BY <1>11, <1>12 DEF PutFrom
  <2>2. QED
    BY <2>1

\* What comes before the end of a sequence, put before it again.
LEMMA TailGrows ==
  ASSUME NEW L, NEW z \in Seq(L), NEW a \in Nat, NEW y \in Seq(L), a + Len(y) <= Len(z),
         \A i \in 1 .. Len(y) : z[a + i] = y[i]
  PROVE  y \o SubSeq(z, a + Len(y) + 1, Len(z)) = SubSeq(z, a + 1, Len(z))
<1>. DEFINE b == Len(y)
            N == Len(z)
            t == SubSeq(z, a + b + 1, N)
            w == SubSeq(z, a + 1, N)
            x == y \o t
<1>1. b \in Nat /\ N \in Nat /\ \A i \in 1 .. N : z[i] \in L
  OBVIOUS
<1>2. t \in Seq(L) /\ Len(t) = N - (a + b) /\ \A i \in 1 .. N - (a + b) : t[i] = z[a + b + i]
  <2>1. a + b + 1 \in 1 .. N + 1 /\ \A i \in 1 .. N - (a + b) : (a + b + 1) + i - 1 = a + b + i
    <3>. HIDE DEF b, N
    <3>1. QED
      BY <1>1 DEF b, N
  <2>. HIDE DEF N, b
  <2>2. QED
    BY <1>1, <2>1 DEF N
<1>3. w \in Seq(L) /\ Len(w) = N - a /\ \A i \in 1 .. N - a : w[i] = z[a + i]
  <2>1. a + 1 \in 1 .. N + 1 /\ \A i \in 1 .. N - a : (a + 1) + i - 1 = a + i
    <3>. HIDE DEF b, N
    <3>1. QED
      BY <1>1 DEF b, N
  <2>. HIDE DEF N, b
  <2>2. QED
    BY <1>1, <2>1 DEF N
<1>. HIDE DEF t, w
<1>4. /\ x \in Seq(L) /\ Len(x) = b + Len(t)
      /\ \A i \in 1 .. b + Len(t) : x[i] = IF i <= b THEN y[i] ELSE t[i - b]
  BY <1>2
<1>5. \A i \in 1 .. b : z[a + i] = y[i]
  OBVIOUS
<1>. HIDE DEF x, b, N
<1>6. Len(x) = Len(w)
  BY <1>1, <1>2, <1>3, <1>4
<1>7. ASSUME NEW i \in 1 .. N - a PROVE x[i] = w[i]
  <2>1. i \in 1 .. b + Len(t)
    BY <1>1, <1>2
  <2>2. CASE i <= b
    BY <1>1, <1>3, <1>4, <1>5, <2>1, <2>2
  <2>3. CASE ~ (i <= b)
    <3>1. i - b \in 1 .. N - (a + b) /\ a + b + (i - b) = a + i
      BY <1>1, <2>3
    <3>2. QED
      BY <1>2, <1>3, <1>4, <2>1, <2>3, <3>1, ZenonT(30)
  <2>4. QED
    BY <2>2, <2>3
<1>8. x = w
  <2>1. x \in Seq(L) /\ w \in Seq(L) /\ Len(w) = N - a
    BY <1>3, <1>4
  <2>2. x = [i \in 1 .. Len(x) |-> x[i]] /\ w = [i \in 1 .. Len(w) |-> w[i]]
    BY ONLY <2>1
  <2>3. Len(x) = N - a /\ Len(w) = N - a
    BY <1>6, <2>1
  <2>4. QED
    BY ONLY <1>7, <2>2, <2>3
<1>9. QED
  BY <1>8 DEF x, w, t, b, N

-----------------------------------------------------------------------------
\* Position i lies behind the k-th of the matches, at most at the next one.
Between(N, out, m, k, i) ==
  i <= N /\ (k > 0 => out[k] + m <= i) /\ (k < Len(out) => i <= out[k + 1])

Matches(N, out, m) ==
  /\ out \in Seq(Nat)
  /\ \A k \in 1 .. Len(out) : out[k] + m <= N
  /\ \A k \in 1 .. Len(out) - 1 : out[k] + m <= out[k + 1]

\* z is text with r put in for the m elements at each of the matches.
PutIn(text, z, out, m, r) ==
  /\ Matches(Len(text), out, m)
  /\ Len(z) = Len(text) + Len(out) * (Len(r) - m)
  /\ \A k \in 0 .. Len(out), i \in 0 .. Len(text) - 1 :
       Between(Len(text), out, m, k, i) /\ (k < Len(out) => i < out[k + 1])
         => z[i + k * (Len(r) - m) + 1] = text[i + 1]
  /\ \A k \in 1 .. Len(out), i \in 1 .. Len(r) : z[Shifted(out, k, Len(r) - m) + i] = r[i]

\* Where a position lies after the replacements before it.
LEMMA BetweenShifts ==
  ASSUME NEW N \in Nat, NEW m \in Nat, NEW n \in Nat, NEW out, Matches(N, out, m),
         NEW k \in 0 .. Len(out), NEW i \in Nat, Between(N, out, m, k, i)
  PROVE  i + k * (n - m) \in Nat /\ k * (n - m) \in Int
<1>0. out \in Seq(Nat) /\ Len(out) \in Nat /\ k \in Int /\ n - m \in Int
  BY DEF Matches
<1>1. CASE k = 0
  <2>1. 0 * (n - m) = 0
    BY <1>0
  <2>2. QED
    BY <1>1, <2>1
<1>2. CASE k > 0
  <2>. DEFINE x == (k - 1) * (n - m)
              y == k * (n - m)
              a == out[k]
  <2>1. y = x + (n - m) /\ x \in Int /\ y \in Int
    BY <1>0, OneMoreTimes
  <2>2. k \in 1 .. Len(out)
    BY <1>0, <1>2
  <2>3. a \in Nat /\ a + x \in Nat
    <3>1. \A l \in 1 .. Len(out) : Shifted(out, l, n - m) \in Nat
      <4>1. \A l \in 1 .. Len(out) - 1 : out[l] + m <= out[l + 1]
        BY DEF Matches
      <4>2. QED
        BY <1>0, <4>1, ShiftedApart
    <3>2. Shifted(out, k, n - m) = a + x
      BY DEF Shifted
    <3>3. a + x \in Nat
      <4>. HIDE DEF a, x
      <4>1. QED
        BY <2>2, <3>1, <3>2
    <3>4. QED
      BY <1>0, <2>2, <3>3
  <2>4. a + m <= i
    BY <1>2 DEF Between
  <2>. HIDE DEF x, y, a
  <2>5. i + y \in Nat
    BY <2>1, <2>3, <2>4
  <2>6. QED
    BY <2>1, <2>5 DEF y
<1>3. QED
  BY <1>0, <1>1, <1>2

\* Putting r in for the m elements at each of the matches, left to right, is what
\* Substituted says of it.
LEMMA SubstitutedIs ==
  ASSUME NEW L, NEW text \in Seq(L), NEW z \in Seq(L), NEW m \in Nat \ {0}, NEW r \in Seq(L),
         NEW out, PutIn(text, z, out, m, r)
  PROVE  Substituted(text, Elements(out), m, r) = z
<1>. DEFINE N == Len(text)
            n == Len(r)
            K == Len(out)
            Z == Len(z)
            ats == Elements(out)
            e(k) == k * (n - m)
<1>1. /\ N \in Nat /\ n \in Nat /\ K \in Nat /\ Z \in Nat /\ m \in Nat /\ m > 0
      /\ \A k \in 1 .. K : out[k] \in Nat /\ out[k] + m <= N
  <2>1. Matches(N, out, m)
    BY DEF PutIn
  <2>2. QED
    BY <2>1 DEF Matches
<1>0. Matches(N, out, m)
  BY DEF PutIn
<1>17. \A k \in 1 .. K - 1 : out[k] + m <= out[k + 1]
  BY <1>0 DEF Matches
<1>2. /\ Z = N + e(K) /\ e(0) = 0
      /\ \A k \in 1 .. K : e(k) = e(k - 1) + (n - m) /\ e(k) \in Int /\ e(k - 1) \in Int
  <2>1. Z = N + e(K)
    BY DEF PutIn
  <2>2. e(0) = 0
    BY <1>1
  <2>3. n - m \in Int /\ \A k \in 1 .. K : k \in Int
    BY <1>1
  <2>4. QED
    BY <2>1, <2>2, <2>3, OneMoreTimes
<1>3. \A k \in 0 .. K, i \in 0 .. N - 1 :
        Between(N, out, m, k, i) /\ (k < K => i < out[k + 1]) => z[i + e(k) + 1] = text[i + 1]
  BY DEF PutIn
<1>4. \A k \in 1 .. K, i \in 1 .. n : z[Shifted(out, k, n - m) + i] = r[i]
  BY DEF PutIn
<1>5. \A k \in 0 .. K, i \in 0 .. N : Between(N, out, m, k, i) => i + e(k) \in Nat
  <2>1. \A i \in 0 .. N : i \in Nat
    BY <1>1
  <2>2. QED
    BY <1>0, <1>1, <2>1, BetweenShifts
<1>6. PICK F : PutFrom(F, text, ats, m, r)
  <2>. HIDE DEF ats
  <2>1. QED
    BY SubstitutedRecursion
<1>18. /\ Substituted(text, ats, m, r) = F[0]
       /\ \A i \in Nat : F[i] = IF i >= N THEN <<>>
                                ELSE IF i \in ats THEN r \o F[i + m]
                                ELSE <<text[i + 1]>> \o F[i + 1]
  <2>. HIDE DEF ats
  <2>1. QED
    BY <1>6 DEF PutFrom
<1>7. \A k \in 1 .. K : \A l \in 1 .. k - 1 : out[l] + m <= out[k]
  <2>1. out \in [1 .. K -> Nat]
    BY <1>0 DEF Matches
  <2>2. QED
    BY <1>1, <1>17, <2>1, Growing
<1>8. ats = {out[k] : k \in 1 .. K}
  BY DEF Elements
<1>. DEFINE At(k, i) == Between(N, out, m, k, i)
            Rest(k, i) == i + e(k) <= Z /\ F[i] = SubSeq(z, i + e(k) + 1, Z)
            S == {j \in 0 .. N : \A i \in 0 .. N, k \in 0 .. K : N <= i + j /\ At(k, i) => Rest(k, i)}
<1>9. \A k, i : At(k, i) <=> i <= N /\ (k > 0 => out[k] + m <= i) /\ (k < K => i <= out[k + 1])
  BY DEF Between
<1>. HIDE DEF N, n, K, Z, ats, e, At
<1>10. 0 \in S
  <2>1. ASSUME NEW i \in 0 .. N, NEW k \in 0 .. K, N <= i + 0, At(k, i) PROVE Rest(k, i)
    <3>1. i = N /\ i \in Nat
      BY <1>1, <2>1
    <3>2. k = K
      <4>1. ASSUME k < K PROVE FALSE
        <5>1. k + 1 \in 1 .. K
          BY <1>1, <4>1
        <5>2. i <= out[k + 1] /\ out[k + 1] + m <= N /\ out[k + 1] \in Nat
          BY <1>1, <1>9, <2>1, <4>1, <5>1
        <5>3. QED
          BY <1>1, <3>1, <5>2
      <4>2. QED
        BY <1>1, <4>1
    <3>3. i + e(k) = Z
      BY <1>2, <3>1, <3>2
    <3>4. F[i] = <<>>
      <4>1. i \in Nat /\ i >= N
        BY <1>1, <3>1
      <4>2. QED
        BY <1>18, <4>1
    <3>5. SubSeq(z, Z + 1, Z) = <<>>
      BY <1>1
    <3>6. QED
      BY <1>1, <3>3, <3>4, <3>5
  <2>. HIDE DEF Rest
  <2>2. QED
    BY <1>1, <2>1
<1>11. ASSUME NEW j \in 1 .. N, j - 1 \in S PROVE j \in S
  <2>1. ASSUME NEW i \in 0 .. N, NEW k \in 0 .. K, N <= i + j, At(k, i) PROVE Rest(k, i)
    <3>. DEFINE a == i + e(k)
    <3>1. a \in Nat /\ i \in Nat /\ k \in Nat /\ (i <= N)
      BY <1>1, <1>5, <2>1 DEF At
    <3>2. \A q \in 0 .. N, l \in 0 .. K : N <= q + (j - 1) /\ At(l, q) => Rest(l, q)
      <4>. HIDE DEF Rest
      <4>1. QED
        BY <1>11
    <3>3. CASE i = N
      <4>1. N <= i + 0
        BY <1>1, <3>3
      <4>2. QED
        BY <1>1, <1>10, <2>1, <4>1
    <3>4. CASE i < N /\ k < K /\ i = out[k + 1]
      <4>. DEFINE l == k + 1
                  q == i + m
      <4>1. l \in 1 .. K /\ l \in 0 .. K /\ l > 0 /\ l - 1 = k /\ q \in 0 .. N /\ N <= q + (j - 1)
        <5>1. l \in 1 .. K
          BY <1>1, <3>1, <3>4
        <5>2. out[l] + m <= N
          BY <1>1, <5>1
        <5>3. l \in 0 .. K /\ l > 0 /\ l - 1 = k
          BY <1>1, <3>1, <5>1
        <5>4. q \in 0 .. N /\ N <= q + (j - 1)
          <6>1. i + m <= N /\ m > 0 /\ j \in Nat
            BY <1>1, <3>4, <5>2
          <6>2. QED
            BY <1>1, <2>1, <3>1, <6>1
        <5>. HIDE DEF l, q
        <5>5. QED
          BY <5>1, <5>3, <5>4
      <4>2. At(l, q)
        <5>1. out[l] + m <= q /\ q <= N
          BY <1>1, <3>4, <4>1
        <5>2. ASSUME l < K PROVE q <= out[l + 1]
          <6>1. l \in 1 .. K - 1
            BY <1>1, <4>1, <5>2
          <6>2. out[l] + m <= out[l + 1]
            <7>. HIDE DEF l
            <7>1. QED
              BY <1>17, <6>1
          <6>3. QED
            BY <3>4, <6>2
        <5>. HIDE DEF l, q
        <5>3. QED
          BY <1>9, <5>1, <5>2
      <4>3. e(l) = e(k) + (n - m) /\ e(k) \in Int
        BY <1>2, <4>1
      <4>4. q + e(l) = a + n
        <5>. DEFINE x == e(k)
                    y == e(l)
        <5>1. y = x + (n - m) /\ x \in Int
          BY <4>3
        <5>. HIDE DEF x, y
        <5>2. q + y = (i + x) + n
          BY <1>1, <3>1, <5>1
        <5>3. QED
          BY <5>2 DEF x, y
      <4>5. a + n <= Z /\ F[q] = SubSeq(z, a + n + 1, Z)
        <5>1. Rest(l, q)
          <6>. HIDE DEF Rest, l, q
          <6>1. QED
            BY <3>2, <4>1, <4>2
        <5>2. QED
          BY <4>4, <5>1
      <4>6. F[i] = r \o F[q]
        <5>1. i \in ats
          BY <1>8, <3>4, <4>1
        <5>2. ~ (i >= N)
          BY <1>1, <3>1, <3>4
        <5>. HIDE DEF q
        <5>3. QED
          BY <1>18, <3>1, <5>1, <5>2 DEF q
      <4>7. \A h \in 1 .. n : z[a + h] = r[h]
        <5>1. Shifted(out, l, n - m) = a
          BY <3>4, <4>1 DEF Shifted, e
        <5>2. QED
          BY <1>4, <4>1, <5>1
      <4>. HIDE DEF a, q
      <4>8. r \o SubSeq(z, a + n + 1, Z) = SubSeq(z, a + 1, Z)
        BY <3>1, <4>5, <4>7, TailGrows DEF n, Z
      <4>9. a <= Z
        BY <1>1, <3>1, <4>5
      <4>10. QED
        BY <4>5, <4>6, <4>8, <4>9 DEF a
    <3>5. CASE i < N /\ (k < K => i < out[k + 1])
      <4>. DEFINE q == i + 1
                  y == <<text[q]>>
      <4>1. q \in 0 .. N /\ N <= q + (j - 1) /\ i \in 0 .. N - 1
        BY <1>1, <2>1, <3>1, <3>5
      <4>2. At(k, q)
        <5>1. ASSUME k > 0 PROVE out[k] + m <= q
          <6>1. out[k] + m <= i /\ k \in 1 .. K
            BY <1>1, <1>9, <2>1, <5>1
          <6>2. QED
            BY <1>1, <3>1, <6>1
        <5>2. ASSUME k < K PROVE q <= out[k + 1]
          <6>1. k + 1 \in 1 .. K
            BY <1>1, <3>1, <5>2
          <6>2. QED
            BY <1>1, <3>1, <3>5, <5>2, <6>1
        <5>3. q <= N
          BY <4>1
        <5>. HIDE DEF q
        <5>4. QED
          BY <1>9, <5>1, <5>2, <5>3
      <4>3. q + e(k) = a + 1
        <5>. DEFINE x == e(k)
        <5>1. i + x \in Nat /\ x \in Int
          <6>1. x \in Int
            <7>1. k \in Int /\ n - m \in Int
              BY <1>1, <3>1
            <7>2. QED
              BY <7>1, OneMoreTimes DEF e
          <6>2. QED
            BY <3>1, <6>1
        <5>. HIDE DEF x
        <5>2. (i + 1) + x = (i + x) + 1
          BY <3>1, <5>1
        <5>3. QED
          BY <5>2 DEF x
      <4>4. a + 1 <= Z /\ F[q] = SubSeq(z, a + 1 + 1, Z)
        <5>1. Rest(k, q)
          <6>. HIDE DEF Rest, q
          <6>1. QED
            BY <3>2, <4>1, <4>2
        <5>2. QED
          BY <4>3, <5>1
      <4>5. i \notin ats
        <5>1. ASSUME NEW l \in 1 .. K, i = out[l] PROVE FALSE
          <6>1. CASE k = l
            <7>1. out[k] + m <= i /\ out[k] \in Nat
              BY <1>1, <1>9, <2>1, <6>1
            <7>2. QED
              BY <1>1, <5>1, <6>1, <7>1
          <6>2. CASE k < l
            <7>1. k < K /\ k + 1 \in 1 .. K
              BY <1>1, <3>1, <6>2
            <7>2. i < out[k + 1]
              BY <3>5, <7>1
            <7>3. CASE k + 1 = l
              BY <1>1, <5>1, <7>2, <7>3
            <7>4. CASE k + 1 # l
              <8>1. k + 1 \in 1 .. l - 1
                BY <1>1, <3>1, <6>2, <7>4
              <8>2. out[k + 1] + m <= out[l]
                BY <1>7, <8>1
              <8>3. out[k + 1] \in Nat /\ out[l] \in Nat
                BY <1>1, <7>1
              <8>4. QED
                BY <1>1, <3>1, <5>1, <7>2, <8>2, <8>3
            <7>5. QED
              BY <7>3, <7>4
          <6>3. CASE l < k
            <7>1. k \in 1 .. K /\ l \in 1 .. k - 1 /\ k > 0
              BY <1>1, <3>1, <6>3
            <7>2. out[l] + m <= out[k] /\ out[k] + m <= i /\ out[k] \in Nat
              BY <1>1, <1>7, <1>9, <2>1, <7>1
            <7>3. QED
              BY <1>1, <3>1, <5>1, <7>2, SMTT(30)
          <6>4. QED
            BY <1>1, <3>1, <6>1, <6>2, <6>3
        <5>2. QED
          BY <1>8, <5>1
      <4>6. F[i] = y \o F[q]
        <5>1. ~ (i >= N)
          BY <1>1, <3>1, <3>5
        <5>2. QED
          BY <1>18, <3>1, <4>5, <5>1
      <4>7. z[a + 1] = text[q]
        BY <1>3, <2>1, <3>5, <4>1 DEF At
      <4>8. y \in Seq(L) /\ Len(y) = 1 /\ y[1] = text[q]
        <5>1. text[q] \in L
          <6>1. q \in 1 .. N
            BY <1>1, <4>1
          <6>. HIDE DEF q
          <6>2. QED
            BY <6>1 DEF N
        <5>. DEFINE u == text[q]
        <5>. HIDE DEF u
        <5>2. <<u>> \in Seq(L) /\ Len(<<u>>) = 1 /\ <<u>>[1] = u
          BY <5>1 DEF u
        <5>3. QED
          BY <5>2 DEF u
      <4>. HIDE DEF a, q, y
      <4>9. y \o SubSeq(z, a + 1 + 1, Z) = SubSeq(z, a + 1, Z)
        <5>1. \A h \in 1 .. Len(y) : z[a + h] = y[h]
          <6>1. \A h \in 1 .. Len(y) : h = 1
            BY <4>8
          <6>2. QED
            BY <4>7, <4>8, <6>1
        <5>2. a + Len(y) <= Len(z)
          BY <4>4, <4>8 DEF Z
        <5>3. y \o SubSeq(z, a + Len(y) + 1, Len(z)) = SubSeq(z, a + 1, Len(z))
          BY <3>1, <4>8, <5>1, <5>2, TailGrows
        <5>4. QED
          BY <4>8, <5>3 DEF Z
      <4>10. a <= Z
        BY <1>1, <3>1, <4>4
      <4>11. QED
        BY <4>4, <4>6, <4>9, <4>10 DEF a
    <3>6. CASE k < K /\ ~ (i < out[k + 1]) /\ ~ (i = out[k + 1])
      <4>1. k + 1 \in 1 .. K /\ i <= out[k + 1]
        BY <1>1, <1>9, <2>1, <3>1, <3>6, SMTT(30)
      <4>2. QED
        BY <1>1, <3>1, <3>6, <4>1
    <3>7. QED
      BY <1>1, <3>1, <3>3, <3>4, <3>5, <3>6
  <2>2. j \in 0 .. N
    BY <1>1
  <2>. HIDE DEF Rest
  <2>3. QED
    BY <2>1, <2>2
<1>12. \A j \in 0 .. N : j \in S
  <2>. HIDE DEF S
  <2>1. QED
    BY <1>1, <1>10, <1>11, PrefixInduction
<1>13. Rest(0, 0)
  <2>1. At(0, 0)
    <3>1. 0 < K => 0 <= out[0 + 1]
      BY <1>1
    <3>2. QED
      BY <1>1, <1>9, <3>1
  <2>2. N \in 0 .. N /\ 0 \in 0 .. N /\ 0 \in 0 .. K /\ N <= 0 + N
    BY <1>1
  <2>3. N \in S
    <3>. HIDE DEF S
    <3>1. QED
      BY <1>12, <2>2
  <2>. HIDE DEF Rest
  <2>4. QED
    BY <2>1, <2>2, <2>3
<1>14. F[0] = SubSeq(z, 1, Z)
  BY <1>2, <1>13
<1>15. SubSeq(z, 1, Z) = z
  BY DEF Z
<1>16. QED
  BY <1>18, <1>14, <1>15 DEF ats

\* Position i of the text is none of the k matches replaced so far and lies behind
\* the l-th of them.
InGap(out, m, k, l, i) == (l > 0 => out[l] + m <= i) /\ (l < k => i < out[l + 1])

\* c is c0 after k replacements, whose bytes are the next ones of the add buffer.
ReplacedCells(c0, c, added, out, m, n, k) ==
  /\ \A l \in 0 .. k, i \in 0 .. Len(c0) - 1 :
       InGap(out, m, k, l, i) => c[i + l * (n - m) + 1] = c0[i + 1]
  /\ \A l \in 1 .. k, i \in 1 .. n :
       c[Shifted(out, l, n - m) + i] = <<"Added", added + (l - 1) * n + i - 1>>

\* Each replacement of a step finds its match where those before it have shifted it
\* (drive.rs:76-94).
LEMMA CellsOfStep ==
  ASSUME NEW d, NEW f, NEW N \in Nat, NEW m \in Nat \ {0}, NEW n \in Nat, NEW out, Matches(N, out, m),
         f[0] = d, Len(Content(d.table)) = N,
         \A k \in 0 .. Len(out) : /\ f[k].added = d.added + k * n
                                  /\ Len(Content(f[k].table)) = N + k * (n - m),
         \A k \in 1 .. Len(out) : Replacing(f[k - 1], f[k], Shifted(out, k, n - m), m, n)
  PROVE  ReplacedCells(Content(d.table), Content(f[Len(out)].table), d.added, out, m, n, Len(out))
<1>. DEFINE K == Len(out)
            e(k) == k * (n - m)
            sh(k) == Shifted(out, k, n - m)
            ad(k) == d.added + k * n
            C(k) == Content(f[k].table)
            c0 == Content(d.table)
            Gaps(k) == \A l \in 0 .. k, i \in 0 .. N - 1 :
                         InGap(out, m, k, l, i) => C(k)[i + e(l) + 1] = c0[i + 1]
            News(k) == \A l \in 1 .. k, i \in 1 .. n :
                         C(k)[sh(l) + i] = <<"Added", ad(l - 1) + i - 1>>
            S == {k \in 0 .. K : Gaps(k) /\ News(k)}
<1>1. /\ K \in Nat /\ m \in Nat /\ m > 0
      /\ \A k \in 1 .. K : out[k] \in Nat /\ out[k] + m <= N
  <2>1. Matches(N, out, m)
    OBVIOUS
  <2>2. out \in Seq(Nat) /\ \A k \in 1 .. K : out[k] + m <= N
    BY ONLY <2>1 DEF Matches
  <2>3. K \in Nat /\ \A k \in 1 .. K : out[k] \in Nat
    BY ONLY <2>2
  <2>4. m \in Nat /\ m > 0
    OBVIOUS
  <2>5. QED
    BY ONLY <2>2, <2>3, <2>4
<1>2. out \in Seq(Nat) /\ \A k \in 1 .. K - 1 : out[k] + m <= out[k + 1]
  <2>1. Matches(N, out, m)
    OBVIOUS
  <2>2. QED
    BY ONLY <2>1 DEF Matches
<1>3. \A k \in 1 .. K : sh(k) \in Nat
  BY <1>2, ShiftedApart
<1>4. \A k \in 1 .. K : \A l \in 1 .. k - 1 : sh(l) + n <= sh(k)
  <2>. DEFINE s == [k \in 1 .. K |-> sh(k)]
  <2>1. s \in [1 .. K -> Nat]
    BY <1>3
  <2>2. \A k \in 1 .. K - 1 : sh(k) + n <= sh(k + 1)
    BY <1>2, ShiftedApart
  <2>3. \A k \in 1 .. K : s[k] = sh(k)
    OBVIOUS
  <2>4. \A k \in 1 .. K - 1 : s[k] + n <= s[k + 1]
    <3>1. ASSUME NEW k \in 1 .. K - 1 PROVE s[k] + n <= s[k + 1]
      <4>1. k \in 1 .. K /\ k + 1 \in 1 .. K
        BY <1>1
      <4>. HIDE DEF s, sh
      <4>2. s[k] = sh(k) /\ s[k + 1] = sh(k + 1)
        BY <2>3, <4>1
      <4>3. QED
        BY <2>2, <4>2
    <3>2. QED
      BY <3>1
  <2>. HIDE DEF s, sh
  <2>5. \A k \in 1 .. K : \A l \in 1 .. k - 1 : s[l] + n <= s[k]
    BY <1>1, <2>1, <2>4, Growing
  <2>6. ASSUME NEW k \in 1 .. K, NEW l \in 1 .. k - 1 PROVE sh(l) + n <= sh(k)
    <3>1. l \in 1 .. K
      BY <1>1
    <3>2. QED
      BY <2>3, <2>5, <3>1
  <2>7. QED
    BY <2>6
<1>5. \A k \in 1 .. K : /\ sh(k) = out[k] + e(k - 1) /\ e(k) = e(k - 1) + (n - m)
                        /\ e(k) \in Int /\ e(k - 1) \in Int
  <2>1. n - m \in Int /\ \A k \in 1 .. K : k \in Int
    BY <1>1
  <2>2. QED
    BY <2>1, OneMoreTimes DEF Shifted
<1>6. e(0) = 0
  BY <1>1
<1>7. \A l \in 0 .. K, i \in 0 .. N : Between(N, out, m, l, i) => i + e(l) \in Nat
  <2>1. \A i \in 0 .. N : i \in Nat
    OBVIOUS
  <2>2. QED
    BY <1>1, <2>1, BetweenShifts
<1>8. \A k \in 0 .. K : Len(C(k)) = N + e(k) /\ f[k].added = ad(k)
  OBVIOUS
<1>9. \A k \in 1 .. K : Replacing(f[k - 1], f[k], sh(k), m, n)
  OBVIOUS
<1>10. C(0) = c0 /\ Len(c0) = N
  OBVIOUS
<1>. HIDE DEF K, e, sh, ad, C, c0
<1>11. 0 \in S
  <2>1. ASSUME NEW l \in 0 .. 0, NEW i \in 0 .. N - 1 PROVE C(0)[i + e(l) + 1] = c0[i + 1]
    <3>1. l = 0 /\ i + e(l) + 1 = i + 1
      BY <1>6
    <3>2. QED
      BY <1>10, <3>1
  <2>2. Gaps(0)
    BY <2>1
  <2>3. News(0)
    OBVIOUS
  <2>. HIDE DEF Gaps, News
  <2>4. QED
    BY <1>1, <2>2, <2>3
<1>12. ASSUME NEW k \in 1 .. K, k - 1 \in S PROVE k \in S
  <2>. DEFINE at == sh(k)
              b == C(k - 1)
              c == C(k)
  <2>1. PICK y : AddedCells(f[k - 1], n, y) /\ Substitutes(b, c, at, m, y)
    BY <1>9 DEF Replacing, C
  <2>2. k \in 1 .. K /\ k - 1 \in 0 .. K /\ k \in 0 .. K /\ k \in Nat /\ k - 1 \in Nat
    BY <1>1
  <2>3. Gaps(k - 1) /\ News(k - 1)
    <3>. HIDE DEF Gaps, News
    <3>1. QED
      BY <1>12
  <2>4. at \in Nat /\ at = out[k] + e(k - 1) /\ Len(b) = N + e(k - 1) /\ e(k - 1) \in Int
    BY <1>3, <1>5, <1>8, <2>2
  <2>5. /\ \A p \in 1 .. at : c[p] = b[p]
        /\ \A p \in 1 .. n : c[at + p] = <<"Added", ad(k - 1) + p - 1>>
        /\ \A p \in at + m + 1 .. Len(b) : c[p - m + n] = b[p]
    <3>1. Len(y) = n /\ \A p \in 1 .. n : y[p] = <<"Added", f[k - 1].added + p - 1>>
      BY <2>1 DEF AddedCells
    <3>2. f[k - 1].added = ad(k - 1)
      BY <1>8, <2>2
    <3>. HIDE DEF at, b, c
    <3>3. /\ \A p \in 1 .. at : c[p] = b[p]
          /\ \A p \in 1 .. Len(y) : c[at + p] = y[p]
          /\ \A p \in at + m + 1 .. Len(b) : c[p - m + Len(y)] = b[p]
      BY <2>1 DEF Substitutes
    <3>4. QED
      BY <3>1, <3>2, <3>3
  <2>6. ASSUME NEW l \in 0 .. k, NEW i \in 0 .. N - 1, InGap(out, m, k, l, i)
        PROVE  c[i + e(l) + 1] = c0[i + 1]
    <3>0. i \in Nat /\ l \in Nat /\ i \in 0 .. N
      BY <2>2
    <3>1. CASE l < k
      <4>1. l \in 0 .. k - 1 /\ l \in 0 .. K /\ l + 1 \in 1 .. K
        BY <1>1, <2>2, <3>0, <3>1
      <4>2. i < out[l + 1] /\ (l > 0 => out[l] + m <= i)
        BY <2>6, <3>1 DEF InGap
      <4>3. i + e(l) \in Nat
        <5>1. Between(N, out, m, l, i)
          BY <1>1, <3>0, <4>1, <4>2 DEF Between
        <5>2. QED
          BY <1>7, <3>0, <4>1, <5>1
      <4>4. sh(l + 1) <= at
        <5>1. CASE l + 1 = k
          <6>1. sh(l + 1) = at
            BY <5>1
          <6>. HIDE DEF at
          <6>2. QED
            BY <2>4, <6>1
        <5>2. CASE l + 1 # k
          <6>1. l + 1 \in 1 .. k - 1
            BY <2>2, <3>0, <3>1, <5>2
          <6>2. sh(l + 1) + n <= sh(k) /\ sh(l + 1) \in Nat
            BY <1>3, <1>4, <4>1, <6>1
          <6>3. QED
            BY <2>4, <6>2
        <5>3. QED
          BY <5>1, <5>2
      <4>5. sh(l + 1) = out[l + 1] + e(l) /\ e(l) \in Int /\ out[l + 1] \in Nat
        <5>1. (l + 1) - 1 = l
          BY <3>0
        <5>2. QED
          BY <1>1, <1>5, <4>1, <5>1
      <4>6. i + e(l) + 1 \in 1 .. at
        <5>. DEFINE u == out[l + 1]
                    v == sh(l + 1)
                    x == e(l)
        <5>. HIDE DEF u, v, x, at
        <5>1. i < u /\ v <= at /\ v = u + x /\ x \in Int /\ u \in Nat /\ i + x \in Nat
          BY <4>2, <4>3, <4>4, <4>5 DEF u, v, x
        <5>2. i + x + 1 \in 1 .. at
          BY <2>4, <3>0, <5>1
        <5>3. QED
          BY <5>2 DEF x
      <4>7. InGap(out, m, k - 1, l, i)
        BY <4>2 DEF InGap
      <4>8. b[i + e(l) + 1] = c0[i + 1]
        BY <2>3, <4>1, <4>7
      <4>. HIDE DEF at, b, c
      <4>9. QED
        BY <2>5, <4>6, <4>8
    <3>2. CASE l = k
      <4>1. out[k] + m <= i /\ out[k] \in Nat
        BY <1>1, <2>2, <2>6, <3>2 DEF InGap
      <4>2. InGap(out, m, k - 1, k - 1, i)
        <5>1. ASSUME k - 1 > 0 PROVE out[k - 1] + m <= i
          <6>1. k - 1 \in 1 .. K - 1 /\ k - 1 \in 1 .. K /\ (k - 1) + 1 = k
            BY <1>1, <2>2, <5>1
          <6>2. out[k - 1] + m <= out[k] /\ out[k - 1] \in Nat
            BY <1>1, <1>2, <6>1
          <6>3. QED
            BY <1>1, <3>0, <4>1, <6>2
        <5>2. QED
          BY <2>2, <5>1 DEF InGap
      <4>. DEFINE x == e(k - 1)
                  u == out[k]
                  p == i + x + 1
      <4>3. b[p] = c0[i + 1]
        <5>1. k - 1 \in 0 .. k - 1
          BY <2>2
        <5>2. QED
          BY <2>3, <4>2, <5>1
      <4>4. x \in Int /\ u \in Nat /\ u + m <= i /\ at = u + x /\ Len(b) = N + x /\ e(k) = x + (n - m)
        BY <1>5, <2>4, <4>1
      <4>. HIDE DEF x, u, at, b, c
      <4>5. p \in at + m + 1 .. Len(b) /\ p - m + n = i + e(k) + 1
        <5>. DEFINE q == e(k)
                    w == Len(b)
        <5>1. q = x + (n - m) /\ w = N + x /\ i \in 0 .. N - 1 /\ n \in Nat /\ N \in Nat
          BY <3>0, <4>4
        <5>2. m \in Nat
          BY <1>1
        <5>. HIDE DEF q, w
        <5>3. p \in at + m + 1 .. w /\ p - m + n = i + q + 1
          BY <4>4, <5>1, <5>2
        <5>4. QED
          BY <5>3 DEF q, w
      <4>. HIDE DEF p
      <4>6. c[p - m + n] = b[p]
        BY <2>5, <4>5
      <4>7. QED
        BY <3>2, <4>3, <4>5, <4>6
    <3>3. QED
      BY <2>2, <3>0, <3>1, <3>2
  <2>7. ASSUME NEW l \in 1 .. k, NEW i \in 1 .. n
        PROVE  c[sh(l) + i] = <<"Added", ad(l - 1) + i - 1>>
    <3>1. CASE l < k
      <4>1. l \in 1 .. k - 1 /\ l \in 1 .. K
        BY <1>1, <2>2, <3>1
      <4>2. sh(l) + n <= at /\ sh(l) \in Nat
        BY <1>3, <1>4, <4>1
      <4>3. sh(l) + i \in 1 .. at
        <5>. DEFINE x == sh(l)
        <5>. HIDE DEF x, at
        <5>1. x + n <= at /\ x \in Nat
          BY <4>2 DEF x
        <5>2. x + i \in 1 .. at
          BY <2>4, <5>1
        <5>3. QED
          BY <5>2 DEF x
      <4>4. b[sh(l) + i] = <<"Added", ad(l - 1) + i - 1>>
        BY <2>3, <4>1
      <4>. HIDE DEF at, b, c
      <4>5. QED
        BY <2>5, <4>3, <4>4
    <3>2. CASE l = k
      BY <2>5, <3>2
    <3>3. QED
      BY <2>2, <3>1, <3>2
  <2>8. Gaps(k)
    <3>. HIDE DEF at, b
    <3>1. QED
      BY <2>6
  <2>9. News(k)
    <3>. HIDE DEF at, b
    <3>1. QED
      BY <2>7
  <2>. HIDE DEF Gaps, News
  <2>10. QED
    BY <2>2, <2>8, <2>9
<1>13. \A k \in 0 .. K : k \in S
  <2>. HIDE DEF S
  <2>1. QED
    BY <1>1, <1>11, <1>12, PrefixInduction
<1>14. Gaps(K) /\ News(K)
  <2>1. K \in 0 .. K
    BY <1>1
  <2>. HIDE DEF Gaps, News
  <2>2. QED
    BY <1>13, <2>1
<1>15. QED
  <2>1. \A l \in 0 .. K, i \in 0 .. Len(c0) - 1 :
          InGap(out, m, K, l, i) => C(K)[i + e(l) + 1] = c0[i + 1]
    BY <1>10, <1>14
  <2>2. \A l \in 1 .. K, i \in 1 .. n : C(K)[sh(l) + i] = <<"Added", ad(l - 1) + i - 1>>
    BY <1>14
  <2>. HIDE DEF Gaps, News, S
  <2>3. QED
    BY <2>1, <2>2 DEF ReplacedCells, C, c0, K, e, sh, ad

\* Nothing is shifted beyond the end of the new text.
LEMMA ShiftsInside ==
  ASSUME NEW N \in Nat, NEW m \in Nat \ {0}, NEW n \in Nat, NEW out, Matches(N, out, m)
  PROVE  /\ \A k \in 1 .. Len(out) : /\ Shifted(out, k, n - m) \in Nat
                                     /\ Shifted(out, k, n - m) + n <= N + Len(out) * (n - m)
         /\ \A k \in 0 .. Len(out), i \in 0 .. N :
              Between(N, out, m, k, i) => i + k * (n - m) <= N + Len(out) * (n - m)
<1>. DEFINE K == Len(out)
            e(k) == k * (n - m)
            s == [k \in 1 .. K |-> Shifted(out, k, n - m)]
            E == N + e(K)
<1>1. /\ K \in Nat /\ out \in Seq(Nat)
      /\ \A k \in 1 .. K : out[k] \in Nat /\ out[k] + m <= N
  BY DEF Matches
<1>2. \A k \in 1 .. K - 1 : out[k] + m <= out[k + 1]
  BY DEF Matches
<1>3. /\ \A k \in 1 .. K : Shifted(out, k, n - m) \in Nat
      /\ \A k \in 1 .. K - 1 : Shifted(out, k, n - m) + n <= Shifted(out, k + 1, n - m)
  BY <1>1, <1>2, ShiftedApart
<1>4. \A k \in 1 .. K : s[k] = Shifted(out, k, n - m)
  OBVIOUS
<1>5. s \in [1 .. K -> Nat]
  BY <1>3
<1>6. \A k \in 1 .. K : /\ s[k] = out[k] + e(k - 1) /\ e(k) = e(k - 1) + (n - m)
                        /\ e(k) \in Int /\ e(k - 1) \in Int
  <2>1. n - m \in Int /\ \A k \in 1 .. K : k \in Int
    BY <1>1
  <2>2. QED
    BY <1>4, <2>1, OneMoreTimes DEF Shifted
<1>7. \A k \in 0 .. K : e(k) \in Int
  <2>1. e(0) = 0
    BY <1>1
  <2>. HIDE DEF e
  <2>2. QED
    BY <1>1, <1>6, <2>1
<1>. HIDE DEF K, e, s
<1>8. \A k \in 1 .. K - 1 : s[k] + n <= s[k + 1]
  <2>1. ASSUME NEW k \in 1 .. K - 1 PROVE s[k] + n <= s[k + 1]
    <3>1. k \in 1 .. K /\ k + 1 \in 1 .. K
      BY <1>1
    <3>2. s[k] = Shifted(out, k, n - m) /\ s[k + 1] = Shifted(out, k + 1, n - m)
      BY <1>4, <3>1
    <3>3. QED
      BY <1>3, <3>2
  <2>2. QED
    BY <2>1
<1>9. \A k \in 1 .. K : \A l \in 1 .. k - 1 : s[l] + n <= s[k]
  BY <1>1, <1>5, <1>8, Growing
<1>10. ASSUME NEW k \in 1 .. K PROVE s[k] \in Nat /\ s[k] <= E - n
  <2>1. K \in 1 .. K /\ s[k] \in Nat /\ s[K] \in Nat
    BY <1>1, <1>5
  <2>2. s[K] + n <= E
    <3>. DEFINE u == out[K]
                x == e(K - 1)
                y == e(K)
                v == s[K]
    <3>1. v = u + x /\ y = x + (n - m) /\ x \in Int /\ u \in Nat /\ u + m <= N /\ E = N + y
      BY <1>1, <1>6, <2>1
    <3>. HIDE DEF u, x, y, v, E
    <3>2. v + n <= E
      BY <1>1, <3>1
    <3>3. QED
      BY <3>2 DEF v
  <2>3. CASE k = K
    BY <2>1, <2>2, <2>3, <1>1, <1>7
  <2>4. CASE k # K
    <3>1. k \in 1 .. K - 1
      BY <1>1, <2>4
    <3>2. s[k] + n <= s[K]
      BY <1>9, <2>1, <3>1
    <3>3. E \in Int
      BY <1>1, <1>7
    <3>. DEFINE u == s[k]
                v == s[K]
    <3>4. u \in Nat /\ v \in Nat /\ u + n <= v /\ v + n <= E
      BY <2>1, <2>2, <3>2
    <3>. HIDE DEF u, v, E
    <3>5. u <= E - n
      BY <3>3, <3>4
    <3>6. QED
      BY <2>1, <3>5 DEF u
  <2>5. QED
    BY <2>3, <2>4
<1>11. \A k \in 1 .. K : s[k] + n <= E
  <2>1. E \in Int
    BY <1>1, <1>7
  <2>. HIDE DEF E
  <2>2. QED
    BY <1>10, <2>1
<1>12. ASSUME NEW k \in 0 .. K, NEW i \in 0 .. N, Between(N, out, m, k, i)
       PROVE  i + e(k) <= E
  <2>0. K \in 0 .. K /\ e(k) \in Int /\ e(K) \in Int /\ E \in Int
    BY <1>1, <1>7
  <2>1. CASE k = K
    BY <2>0, <2>1
  <2>2. CASE k < K
    <3>1. k + 1 \in 1 .. K /\ (k + 1) - 1 = k
      BY <1>1, <2>2
    <3>2. i <= out[k + 1]
      BY <1>12, <2>2 DEF Between, K
    <3>3. s[k + 1] = out[k + 1] + e(k) /\ s[k + 1] <= E - n /\ out[k + 1] \in Nat
      BY <1>1, <1>6, <1>10, <3>1
    <3>. DEFINE u == out[k + 1]
                v == s[k + 1]
                x == e(k)
    <3>4. i <= u /\ v = u + x /\ v <= E - n /\ u \in Nat /\ x \in Int
      BY <2>0, <3>2, <3>3
    <3>. HIDE DEF u, v, x, E
    <3>5. i + x <= E
      BY <2>0, <3>4
    <3>6. QED
      BY <3>5 DEF x
  <2>3. QED
    BY <1>1, <2>1, <2>2
<1>13. QED
  <2>1. \A k \in 0 .. K, i \in 0 .. N : Between(N, out, m, k, i) => i + e(k) <= E
    BY <1>12
  <2>2. \A k \in 1 .. K : Shifted(out, k, n - m) \in Nat /\ Shifted(out, k, n - m) + n <= E
    BY <1>3, <1>4, <1>11
  <2>3. QED
    BY <2>1, <2>2 DEF K, e

\* The added bytes of a good document are those of its add buffer.
LEMMA CellsInStores ==
  ASSUME NEW d \in GoodDocs, NEW p \in 1 .. Length(d)
  PROVE  LET x == Content(d.table)[p]
         IN  x \in Cell /\ (x[1] = "Added" => x[2] + 1 \in 1 .. d.added)
<1>. DEFINE t == d.table
            x == Content(t)[p]
            e == Ends(t)
<1>1. /\ t \in Seq(Piece) /\ t \in Seq(Stored(d.size, d.added)) /\ d.added \in Nat
      /\ Length(d) = Len(Content(t)) /\ Content(t) \in Seq(Cell) /\ Length(d) = TotalLen(t)
  BY GoodDocFields, LengthIs DEF Length
<1>. HIDE DEF t
<1>2. x \in Cell
  <2>. DEFINE c == Content(t)
  <2>1. c \in Seq(Cell) /\ p \in 1 .. Len(c)
    BY <1>1
  <2>. HIDE DEF c
  <2>2. c[p] \in Cell
    BY <2>1
  <2>3. QED
    BY <2>2 DEF c
<1>3. PICK k \in 1 .. Len(t) : e[k - 1] < p /\ p <= e[k]
  BY <1>1, PieceAt
<1>4. /\ e[k - 1] \in Nat /\ e[k] \in Nat /\ e[k] = e[k - 1] + t[k].len
      /\ t[k].len \in Nat /\ t[k].offset \in Nat
  <2>1. k - 1 \in 0 .. Len(t) /\ k \in 0 .. Len(t)
    BY <1>1
  <2>. HIDE DEF e
  <2>2. QED
    BY <1>1, <2>1, EndsFacts DEF e
<1>. DEFINE i == p - e[k - 1]
<1>5. i \in 1 .. t[k].len /\ e[k - 1] + i = p
  <2>. DEFINE a == e[k - 1]
              b == e[k]
              l == t[k].len
  <2>1. a \in Nat /\ l \in Nat /\ b = a + l /\ a < p /\ p <= b
    BY <1>3, <1>4
  <2>2. p \in Nat
    BY <1>1
  <2>. HIDE DEF a, b, l
  <2>3. p - a \in 1 .. l /\ a + (p - a) = p
    BY <2>1, <2>2
  <2>4. QED
    BY <2>3 DEF a, l
<1>. HIDE DEF i
<1>6. x = <<t[k].store, t[k].offset + i - 1>>
  <2>1. Content(t)[e[k - 1] + i] = <<t[k].store, t[k].offset + i - 1>>
    BY <1>1, <1>5, CellAt
  <2>. HIDE DEF e
  <2>2. QED
    BY <1>5, <2>1
<1>7. ASSUME x[1] = "Added" PROVE x[2] + 1 \in 1 .. d.added
  <2>1. t[k] \in Stored(d.size, d.added)
    BY <1>1
  <2>2. t[k].store = "Added" /\ x[2] = t[k].offset + i - 1
    BY <1>6, <1>7
  <2>3. t[k].offset + t[k].len <= d.added
    BY <2>1, <2>2 DEF Stored
  <2>. DEFINE o == t[k].offset
              len == t[k].len
              y == x[2]
              a == d.added
  <2>4. /\ o \in Nat /\ len \in Nat /\ a \in Nat /\ i \in 1 .. len /\ y = o + i - 1
        /\ o + len <= a
    BY <1>1, <1>4, <1>5, <2>2, <2>3
  <2>. HIDE DEF o, len, y, a
  <2>5. y + 1 \in 1 .. a
    BY <2>4
  <2>6. QED
    BY <2>5 DEF y, a
<1>8. QED
  BY <1>2, <1>7 DEF t

\* The remainder of a position in the q + 1-st of equal parts.
LEMMA RemainderIn ==
  ASSUME NEW q \in Nat, NEW n \in Nat \ {0}, NEW i \in 1 .. n
  PROVE  (q * n + i - 1) % n = i - 1
<1>. DEFINE x == q * n
            y == x + i - 1
            a == y \div n
            b == y % n
<1>1. n \in Nat /\ n > 0 /\ x \in Nat /\ y \in Nat
  OBVIOUS
<1>2. b \in 0 .. n - 1 /\ a \in Int
  <2>. HIDE DEF y
  <2>1. QED
    BY <1>1
<1>3. y = n * a + b
  <2>. HIDE DEF y
  <2>1. QED
    BY <1>1
<1>4. n * a = a * n /\ a * n \in Int
  BY <1>2
<1>. HIDE DEF a, b
<1>5. \A c \in Int : c >= 1 => c * n >= n
  BY <1>1
<1>6. (a - q) * n = a * n - x
  BY <1>2
<1>7. (q - a) * n = x - a * n
  BY <1>2
<1>. DEFINE z == a * n
<1>8. z \in Int /\ y = z + b /\ y = x + i - 1
  BY <1>3, <1>4
<1>9. a - q >= 1 => z - x >= n
  BY <1>2, <1>5, <1>6
<1>10. q - a >= 1 => x - z >= n
  BY <1>2, <1>5, <1>7
<1>11. a = q => z = x
  OBVIOUS
<1>. HIDE DEF z, x, y
<1>12. a - q >= 1 => FALSE
  BY <1>1, <1>2, <1>8, <1>9
<1>13. q - a >= 1 => FALSE
  BY <1>1, <1>2, <1>8, <1>10
<1>14. a = q
  BY <1>2, <1>12, <1>13
<1>15. b = i - 1
  BY <1>1, <1>2, <1>8, <1>11, <1>14
<1>16. QED
  BY <1>15 DEF b, y, x

\* The letter of a cell, given those of the add buffer.
Letter(x, ls) ==
  IF x[1] = "Added" THEN ls[x[2] + 1]
  ELSE IF x[2] \in bad THEN ZeroLetter ELSE source[x[2] + 1]

\* The text of a document, letter by letter.
LEMMA TextAt ==
  ASSUME NEW d \in GoodDocs, NEW ls
  PROVE  \A p \in 1 .. Length(d) : TextOf(d, ls)[p] = Letter(Content(d.table)[p], ls)
<1>. DEFINE c == Content(d.table)
<1>1. Length(d) = Len(c)
  BY LengthIs
<1>. HIDE DEF c
<1>2. TextOf(d, ls) = [k \in 1 .. Len(c) |-> Letter(c[k], ls)]
  BY DEF TextOf, Letter, c
<1>3. QED
  BY <1>1, <1>2 DEF c

\* Replacing the matches of a document, in the text it stands for (drive.rs:76-94).
LEMMA TextPutIn ==
  ASSUME NEW d \in GoodDocs, NEW g \in GoodDocs, NEW ls \in Seq(Alphabet), Len(ls) = d.added,
         NEW r \in Seq(Alphabet), NEW m \in Nat \ {0}, NEW out, Matches(Length(d), out, m),
         Length(g) = Length(d) + Len(out) * (Len(r) - m),
         ReplacedCells(Content(d.table), Content(g.table), d.added, out, m, Len(r), Len(out))
  PROVE  PutIn(TextOf(d, ls), TextOf(g, AddedBy(ls, r, Len(out))), out, m, r)
<1>. DEFINE K == Len(out)
            n == Len(r)
            N == Length(d)
            M == Length(g)
            new == AddedBy(ls, r, K)
            text == TextOf(d, ls)
            z == TextOf(g, new)
            c0 == Content(d.table)
            c == Content(g.table)
            e(k) == k * (n - m)
<1>1. /\ K \in Nat /\ n \in Nat /\ N \in Nat /\ M \in Nat /\ d.added \in Nat /\ M = N + e(K)
      /\ Len(c0) = N /\ Len(c) = M /\ Len(text) = N /\ Len(z) = M
  <2>1. K \in Nat
    BY DEF Matches
  <2>2. /\ Len(c0) = N /\ Len(c) = M /\ N \in Nat /\ M \in Nat /\ d.added \in Nat
    BY LengthIs, GoodDocFields
  <2>3. Len(text) = N /\ Len(z) = M
    BY TextLength
  <2>4. M = N + e(K) /\ n \in Nat
    OBVIOUS
  <2>5. QED
    BY <2>1, <2>2, <2>3, <2>4
<1>0. \A k \in 1 .. K : out[k] \in Nat
  <2>1. out \in Seq(Nat)
    BY DEF Matches
  <2>2. QED
    BY ONLY <2>1
<1>2. /\ \A i \in 1 .. d.added : new[i] = ls[i]
      /\ \A i \in 1 .. K * n : new[d.added + i] = r[((i - 1) % n) + 1]
  <2>1. K \in Nat
    BY <1>1
  <2>2. QED
    <3>. HIDE DEF K
    <3>1. /\ \A i \in 1 .. Len(ls) : new[i] = ls[i]
          /\ \A i \in 1 .. K * n : new[Len(ls) + i] = r[((i - 1) % n) + 1]
      BY <2>1, AddedLength
    <3>. HIDE DEF new
    <3>2. QED
      BY <3>1
<1>3. \A p \in 1 .. N : text[p] = Letter(c0[p], ls)
  BY TextAt
<1>4. \A p \in 1 .. M : z[p] = Letter(c[p], new)
  BY TextAt
<1>5. \A p \in 1 .. N : c0[p][1] = "Added" => c0[p][2] + 1 \in 1 .. d.added
  BY CellsInStores
<1>6. /\ \A k \in 0 .. K, i \in 0 .. N - 1 : InGap(out, m, K, k, i) => c[i + e(k) + 1] = c0[i + 1]
      /\ \A k \in 1 .. K, i \in 1 .. n :
           c[Shifted(out, k, n - m) + i] = <<"Added", d.added + (k - 1) * n + i - 1>>
  BY <1>1 DEF ReplacedCells
<1>7. /\ \A k \in 1 .. K : /\ Shifted(out, k, n - m) \in Nat /\ Shifted(out, k, n - m) + n <= M
      /\ \A k \in 0 .. K, i \in 0 .. N : Between(N, out, m, k, i) => i + e(k) <= M
  BY <1>1, ShiftsInside
<1>8. \A k \in 0 .. K, i \in 0 .. N : Between(N, out, m, k, i) => i + e(k) \in Nat /\ e(k) \in Int
  <2>1. \A i \in 0 .. N : i \in Nat
    OBVIOUS
  <2>2. QED
    BY <1>1, <2>1, BetweenShifts
<1>. HIDE DEF K, n, N, M, new, text, z, c0, c, e
<1>10. ASSUME NEW k \in 0 .. K, NEW i \in 0 .. N - 1, Between(N, out, m, k, i), k < K => i < out[k + 1]
       PROVE  z[i + e(k) + 1] = text[i + 1]
  <2>1. InGap(out, m, K, k, i)
    BY <1>10 DEF InGap, Between
  <2>. DEFINE p == i + e(k) + 1
  <2>2. p \in 1 .. M /\ i + 1 \in 1 .. N
    <3>1. i + e(k) \in Nat /\ e(k) \in Int
      BY <1>1, <1>8, <1>10
    <3>2. (i + 1) + e(k) <= M
      <4>1. i + 1 \in 0 .. N /\ i \in Nat
        BY <1>1
      <4>2. Between(N, out, m, k, i + 1)
        <5>1. ASSUME k > 0 PROVE out[k] + m <= i + 1
          <6>1. out[k] + m <= i /\ out[k] \in Nat
            <7>1. out[k] + m <= i /\ k \in 1 .. K
              BY <1>1, <1>10, <5>1 DEF Between
            <7>2. QED
              BY <7>1 DEF Matches, K
          <6>2. QED
            BY <4>1, <6>1
        <5>2. ASSUME k < K PROVE i + 1 <= out[k + 1]
          <6>1. i < out[k + 1] /\ k + 1 \in 1 .. K
            BY <1>1, <1>10, <5>2
          <6>2. out[k + 1] \in Nat
            BY <1>0, <6>1
          <6>3. QED
            BY <4>1, <6>1, <6>2
        <5>3. QED
          BY <4>1, <5>1, <5>2 DEF Between, K
      <4>3. QED
        BY <1>7, <4>1, <4>2
    <3>. DEFINE x == e(k)
    <3>. HIDE DEF x
    <3>3. i + x \in Nat /\ x \in Int /\ (i + 1) + x <= M
      BY <3>1, <3>2 DEF x
    <3>4. i + x + 1 \in 1 .. M /\ i + 1 \in 1 .. N
      BY <1>1, <3>3
    <3>5. QED
      BY <3>4 DEF x
  <2>3. c[p] = c0[i + 1]
    BY <1>6, <2>1
  <2>. HIDE DEF p
  <2>4. z[p] = Letter(c0[i + 1], new) /\ text[i + 1] = Letter(c0[i + 1], ls)
    BY <1>3, <1>4, <2>2, <2>3
  <2>5. Letter(c0[i + 1], new) = Letter(c0[i + 1], ls)
    <3>. DEFINE y == c0[i + 1]
    <3>1. y[1] = "Added" => new[y[2] + 1] = ls[y[2] + 1]
      BY <1>2, <1>5, <2>2
    <3>. HIDE DEF y
    <3>2. Letter(y, new) = Letter(y, ls)
      BY <3>1 DEF Letter
    <3>3. QED
      BY <3>2 DEF y
  <2>6. QED
    BY <2>4, <2>5 DEF p
<1>11. ASSUME NEW k \in 1 .. K, NEW i \in 1 .. n
       PROVE  z[Shifted(out, k, n - m) + i] = r[i]
  <2>. DEFINE s == Shifted(out, k, n - m)
              x == (k - 1) * n
              p == s + i
              q == x + i
  <2>1. s \in Nat /\ s + n <= M
    BY <1>7
  <2>2. p \in 1 .. M
    <3>. HIDE DEF s
    <3>1. QED
      BY <1>1, <2>1
  <2>3. x \in Nat /\ k * n = x + n /\ x + n <= K * n
    <3>1. k \in Nat /\ k - 1 \in Nat /\ K - k \in Nat
      BY <1>1
    <3>2. x \in Nat /\ k * n = x + n /\ k * n \in Nat /\ K * n \in Nat /\ (K - k) * n \in Nat
      BY <1>1, <3>1
    <3>3. K * n = k * n + (K - k) * n
      BY <1>1, <3>1
    <3>. DEFINE a == K * n
                b == (K - k) * n
                f == k * n
    <3>. HIDE DEF a, b, f, x
    <3>4. x \in Nat /\ f = x + n /\ a \in Nat /\ b \in Nat /\ a = f + b
      BY <3>2, <3>3 DEF a, b, f
    <3>5. x + n <= a
      BY <1>1, <3>4
    <3>6. QED
      BY <3>4, <3>5 DEF a, f
  <2>4. q \in 1 .. K * n /\ q - 1 = x + i - 1 /\ d.added + x + i - 1 + 1 = d.added + q
    <3>. DEFINE a == K * n
                b == d.added
    <3>. HIDE DEF a, x, b
    <3>1. a \in Int
      BY <1>1 DEF a
    <3>2. b \in Nat /\ x \in Nat /\ x + n <= a
      BY <1>1, <2>3 DEF a, b
    <3>3. q \in 1 .. a /\ q - 1 = x + i - 1 /\ b + x + i - 1 + 1 = b + q
      BY <1>1, <3>1, <3>2
    <3>4. QED
      BY <3>3 DEF a, b
  <2>5. (q - 1) % n = i - 1
    <3>1. k - 1 \in Nat /\ n \in Nat \ {0}
      BY <1>1
    <3>2. (x + i - 1) % n = i - 1
      BY <3>1, RemainderIn
    <3>3. QED
      BY <2>4, <3>2
  <2>6. new[d.added + q] = r[i]
    <3>1. new[d.added + q] = r[((q - 1) % n) + 1]
      <4>. HIDE DEF q
      <4>1. QED
        BY <1>2, <2>4
    <3>2. (i - 1) + 1 = i
      BY <1>1
    <3>3. QED
      BY <2>5, <3>1, <3>2
  <2>7. c[p] = <<"Added", d.added + x + i - 1>>
    BY <1>6
  <2>8. z[p] = Letter(c[p], new)
    <3>. HIDE DEF p
    <3>1. QED
      BY <1>4, <2>2
  <2>9. Letter(c[p], new) = new[d.added + x + i - 1 + 1]
    <3>. HIDE DEF p, x
    <3>1. QED
      BY <2>7 DEF Letter
  <2>10. QED
    <3>. HIDE DEF q
    <3>1. z[p] = r[i]
      BY <2>4, <2>6, <2>8, <2>9
    <3>2. QED
      BY <3>1
<1>12. PutIn(text, z, out, m, r)
  <2>1. Len(z) = Len(text) + K * (n - m)
    BY <1>1 DEF e
  <2>2. \A k \in 0 .. K, i \in 0 .. N - 1 :
          Between(N, out, m, k, i) /\ (k < K => i < out[k + 1]) => z[i + k * (n - m) + 1] = text[i + 1]
    BY <1>10 DEF e
  <2>3. \A k \in 1 .. K, i \in 1 .. n : z[Shifted(out, k, n - m) + i] = r[i]
    BY <1>11
  <2>4. Matches(N, out, m) /\ N = Len(text)
    BY <1>1 DEF N
  <2>. HIDE DEF Matches, Between, Shifted
  <2>5. QED
    BY <2>1, <2>2, <2>3, <2>4 DEF PutIn, K, n
<1>13. QED
  BY <1>12 DEF text, z, new, K

\* A text is a sequence of its letters (Document::read).
LEMMA TextLetters ==
  ASSUME NEW d \in GoodDocs, NEW ls
  PROVE  IsSequence(TextOf(d, ls))
<1>. DEFINE z == TextOf(d, ls)
            M == Length(d)
            L == {z[p] : p \in 1 .. M}
<1>1. Len(z) = M /\ M \in Nat
  BY TextLength
<1>2. z = [p \in 1 .. M |-> z[p]]
  BY LengthIs DEF TextOf
<1>3. \A p \in 1 .. M : z[p] \in L
  OBVIOUS
<1>4. z \in Seq(L)
  <2>. HIDE DEF z, L, M
  <2>1. [p \in 1 .. M |-> z[p]] \in Seq(L)
    BY ONLY <1>1, <1>3
  <2>2. QED
    BY ONLY <1>2, <2>1
<1>. HIDE DEF z, M
<1>5. IsSequence(z)
  BY <1>1, <1>4 DEF IsSequence, L
<1>6. QED
  BY <1>5 DEF z

\* A text with the matches replaced is what the reference says.
LEMMA PutInIs ==
  ASSUME NEW text, IsSequence(text), NEW z, IsSequence(z), NEW r \in Seq(Alphabet),
         NEW m \in Nat \ {0}, NEW out, PutIn(text, z, out, m, r)
  PROVE  Substituted(text, Elements(out), m, r) = z
<1>. DEFINE A == {text[k] : k \in 1 .. Len(text)}
            B == {z[k] : k \in 1 .. Len(z)}
            L == A \cup B \cup Alphabet
<1>1. text \in Seq(A) /\ z \in Seq(B)
  BY SequenceOf
<1>. HIDE DEF A, B
<1>2. A \subseteq L /\ B \subseteq L /\ Alphabet \subseteq L
  OBVIOUS
<1>. HIDE DEF L
<1>3. text \in Seq(L) /\ z \in Seq(L) /\ r \in Seq(L)
  BY <1>1, <1>2
<1>4. QED
  BY <1>3, SubstitutedIs

\* So replacing the matches of a document is what the reference says of its text.
LEMMA TextPut ==
  ASSUME NEW d \in GoodDocs, NEW g \in GoodDocs, NEW ls \in Seq(Alphabet), Len(ls) = d.added,
         NEW r \in Seq(Alphabet), NEW m \in Nat \ {0}, NEW out, Matches(Length(d), out, m),
         Length(g) = Length(d) + Len(out) * (Len(r) - m),
         ReplacedCells(Content(d.table), Content(g.table), d.added, out, m, Len(r), Len(out))
  PROVE  TextOf(g, AddedBy(ls, r, Len(out))) = Substituted(TextOf(d, ls), Elements(out), m, r)
BY TextPutIn, TextLetters, PutInIs

-----------------------------------------------------------------------------
(* What a step finds and what it replaces are matches. *)

\* What a step of the running job finds are matches of the text it sees, in the
\* range and of bytes that can be read (search.rs:121-132).
LEMMA StepGenuine ==
  ASSUME JobInv, job # NoJob
  PROVE  /\ Step.out \in Seq(Nat) /\ Matches(Length(doc), Step.out, Len(job.pattern))
         /\ \A k \in 1 .. Len(Step.out) :
              Genuine(Step.out[k]) /\ Step.out[k] \in 0 .. Len(Text) - 1
<1>. DEFINE out == Step.out
            m == Len(job.pattern)
            s == job.searcher
<1>1. StepFinds(out, s, job.pattern, Text, Unread)
  BY StepOfJob DEF StepKeeps
<1>2. GoodJob(job) /\ doc \in GoodDocs
  BY DEF JobInv
<1>3. m \in Nat \ {0}
  BY <1>2, JobFields
<1>4. Len(Text) = Length(doc) /\ Length(doc) \in Nat
  BY <1>2, TextLength DEF Text
<1>. HIDE DEF out, m, s
<1>5. /\ out \in Seq(Nat)
      /\ \A k \in 1 .. Len(out) :
           /\ s.start <= out[k] /\ out[k] + m <= s.stop
           /\ Occurs(Text, job.pattern, out[k]) /\ ~ TouchesUnread(Unread, out[k], m)
      /\ \A k \in 1 .. Len(out) - 1 : out[k] + m <= out[k + 1]
  BY <1>1 DEF StepFinds, m
<1>6. ASSUME NEW k \in 1 .. Len(out)
      PROVE  Genuine(out[k]) /\ out[k] \in 0 .. Len(Text) - 1 /\ out[k] + m <= Length(doc)
  <2>. DEFINE at == out[k]
  <2>1. at \in Nat
    BY <1>5
  <2>2. /\ s.start <= at /\ at + m <= s.stop /\ Occurs(Text, job.pattern, at)
        /\ ~ TouchesUnread(Unread, at, m)
    BY <1>5
  <2>. HIDE DEF at
  <2>3. Unread \cap (at .. at + m - 1) = {}
    <3>1. \A i \in Unread : ~ (at <= i /\ i < at + m)
      BY <2>2 DEF TouchesUnread
    <3>2. \A i \in at .. at + m - 1 : at <= i /\ i < at + m
      BY <1>3, <2>1
    <3>3. QED
      BY <3>1, <3>2
  <2>4. at + m <= Len(Text)
    BY <2>2 DEF Occurs, m
  <2>5. at \in 0 .. Len(Text) - 1
    BY <1>3, <1>4, <2>1, <2>4
  <2>6. Genuine(at)
    BY <2>2, <2>3 DEF Genuine, m, s
  <2>7. QED
    BY <1>4, <2>4, <2>5, <2>6 DEF at
<1>7. Matches(Length(doc), out, m)
  BY <1>5, <1>6 DEF Matches
<1>8. QED
  BY <1>5, <1>6, <1>7 DEF out, m

\* What lies apart one by one lies apart as a set.
LEMMA ElementsApart ==
  ASSUME NEW N, NEW out, NEW m \in Nat, Matches(N, out, m)
  PROVE  Apart(Elements(out), m)
<1>1. out \in [1 .. Len(out) -> Nat] /\ Len(out) \in Nat
  BY DEF Matches
<1>2. \A k \in 1 .. Len(out) - 1 : out[k] + m <= out[k + 1]
  BY DEF Matches
<1>3. \A k \in 1 .. Len(out) : \A l \in 1 .. k - 1 : out[l] + m <= out[k]
  BY <1>1, <1>2, Growing
<1>4. ASSUME NEW l \in 1 .. Len(out), NEW k \in 1 .. Len(out), out[l] < out[k]
      PROVE  out[l] + m <= out[k]
  <2>1. out[l] \in Nat /\ out[k] \in Nat
    BY <1>1
  <2>2. CASE l < k
    <3>1. l \in 1 .. k - 1
      BY <1>1, <2>2
    <3>2. QED
      BY <1>3, <3>1
  <2>3. CASE l = k
    BY <1>4, <2>1, <2>3
  <2>4. CASE k < l
    <3>1. k \in 1 .. l - 1
      BY <1>1, <2>4
    <3>2. out[k] + m <= out[l]
      BY <1>3, <3>1
    <3>3. QED
      BY <1>4, <2>1, <3>2
  <2>5. QED
    BY <1>1, <2>2, <2>3, <2>4
<1>5. QED
  BY <1>4 DEF Apart, Elements

\* Every byte taken from the source can be read.
Readable(c) == \A k \in 1 .. Len(c) : c[k][1] = "Original" => c[k][2] \notin bad

\* Nothing of a document is reported as unreadable where its source can be read.
LEMMA ReadableIs ==
  ASSUME NEW d \in GoodDocs
  PROVE  UnreadIn(d) = {} <=> Readable(Content(d.table))
<1>. DEFINE c == Content(d.table)
<1>1. Len(c) \in Nat
  BY LengthIs
<1>2. UnreadIn(d) = {k \in 0 .. Len(c) - 1 : c[k + 1][1] = "Original" /\ c[k + 1][2] \in bad}
  BY DEF UnreadIn
<1>. HIDE DEF c
<1>3. ASSUME UnreadIn(d) = {} PROVE Readable(c)
  <2>1. ASSUME NEW k \in 1 .. Len(c), c[k][1] = "Original" PROVE c[k][2] \notin bad
    <3>1. k - 1 \in 0 .. Len(c) - 1 /\ (k - 1) + 1 = k
      BY <1>1
    <3>2. k - 1 \notin UnreadIn(d)
      BY <1>3
    <3>3. ~ (c[(k - 1) + 1][1] = "Original" /\ c[(k - 1) + 1][2] \in bad)
      BY <1>2, <3>1, <3>2
    <3>4. QED
      BY <2>1, <3>1, <3>3
  <2>2. QED
    BY <2>1 DEF Readable
<1>4. ASSUME Readable(c) PROVE UnreadIn(d) = {}
  <2>1. ASSUME NEW k \in UnreadIn(d) PROVE FALSE
    <3>1. k \in 0 .. Len(c) - 1 /\ c[k + 1][1] = "Original" /\ c[k + 1][2] \in bad
      BY <1>2, <2>1
    <3>2. k + 1 \in 1 .. Len(c)
      BY <1>1, <3>1
    <3>3. QED
      BY <1>4, <3>1, <3>2 DEF Readable
  <2>2. QED
    BY <2>1
<1>5. QED
  BY <1>3, <1>4 DEF c

\* A replacement takes nothing more from the source (apply_replacement).
LEMMA ReplacingReadable ==
  ASSUME NEW f \in GoodDocs, NEW g \in GoodDocs, NEW at \in Nat, NEW m \in Nat, NEW n \in Nat,
         Replacing(f, g, at, m, n), UnreadIn(f) = {}
  PROVE  UnreadIn(g) = {}
<1>. DEFINE c == Content(f.table)
            w == Content(g.table)
<1>1. PICK y : AddedCells(f, n, y) /\ Substitutes(c, w, at, m, y)
  BY DEF Replacing
<1>2. Len(c) \in Nat /\ Len(w) \in Nat
  BY LengthIs
<1>3. /\ at + m <= Len(c) /\ Len(w) = Len(c) - m + Len(y)
      /\ \A i \in 1 .. at : w[i] = c[i]
      /\ \A i \in 1 .. Len(y) : w[at + i] = y[i]
      /\ \A i \in at + m + 1 .. Len(c) : w[i - m + Len(y)] = c[i]
  BY <1>1 DEF Substitutes
<1>4. Len(y) = n /\ \A i \in 1 .. n : y[i] = <<"Added", f.added + i - 1>>
  BY <1>1 DEF AddedCells
<1>5. Readable(c)
  BY ReadableIs
<1>. HIDE DEF c, w
<1>6. ASSUME NEW k \in 1 .. Len(w), w[k][1] = "Original" PROVE w[k][2] \notin bad
  <2>1. \/ k \in 1 .. at /\ k \in 1 .. Len(c)
        \/ k - at \in 1 .. n /\ at + (k - at) = k
        \/ k + m - n \in at + m + 1 .. Len(c) /\ k + m - n \in 1 .. Len(c) /\ (k + m - n) - m + n = k
    <3>. DEFINE a == Len(c)
                b == Len(w)
    <3>1. a \in Nat /\ b \in Nat /\ at + m <= a /\ b = a - m + n /\ k \in 1 .. b
      BY <1>2, <1>3, <1>4
    <3>. HIDE DEF a, b
    <3>2. \/ k \in 1 .. at /\ k \in 1 .. a
          \/ k - at \in 1 .. n /\ at + (k - at) = k
          \/ k + m - n \in at + m + 1 .. a /\ k + m - n \in 1 .. a /\ (k + m - n) - m + n = k
      BY <3>1
    <3>3. QED
      BY <3>2 DEF a
  <2>2. CASE k \in 1 .. at /\ k \in 1 .. Len(c)
    BY <1>3, <1>5, <1>6, <2>2 DEF Readable
  <2>3. CASE k - at \in 1 .. n /\ at + (k - at) = k
    <3>1. w[at + (k - at)] = y[k - at] /\ y[k - at] = <<"Added", f.added + (k - at) - 1>>
      BY <1>3, <1>4, <2>3
    <3>2. w[k] = <<"Added", f.added + (k - at) - 1>>
      BY <2>3, <3>1
    <3>3. w[k][1] = "Added"
      BY <3>2
    <3>4. QED
      BY <1>6, <3>3
  <2>4. CASE k + m - n \in at + m + 1 .. Len(c) /\ k + m - n \in 1 .. Len(c) /\ (k + m - n) - m + n = k
    <3>. DEFINE l == k + m - n
    <3>1. l \in at + m + 1 .. Len(c) /\ l \in 1 .. Len(c) /\ l - m + n = k
      BY <2>4
    <3>. HIDE DEF l
    <3>2. w[l - m + n] = c[l]
      BY <1>3, <1>4, <3>1
    <3>3. w[k] = c[l]
      BY <3>1, <3>2
    <3>4. QED
      BY <1>5, <1>6, <3>1, <3>3 DEF Readable
  <2>5. QED
    BY <2>1, <2>2, <2>3, <2>4
<1>7. Readable(w)
  BY <1>6 DEF Readable
<1>8. QED
  BY <1>7, ReadableIs DEF w

\* The document after a step of replace-all that replaces all it found.
StepPuts ==
  /\ doc' \in GoodDocs
  /\ PutIn(Text, TextOf(doc', letters'), Step.out, Len(job.pattern), job.replacement)
  /\ UnreadIn(doc) = {} => UnreadIn(doc') = {}

\* A step of replace-all puts the replacement in the place of each match it found,
\* and makes no byte unreadable (drive.rs:76-94).
LEMMA StepPut ==
  ASSUME JobInv, job # NoJob, ReplacesStep
  PROVE  StepPuts
<1>. DEFINE out == Step.out
            m == Len(job.pattern)
            r == job.replacement
            n == Len(r)
            K == Len(out)
            f == ReplacedUpTo(doc, out, job)
            N == Length(doc)
<1>1. /\ doc \in GoodDocs /\ GoodJob(job)
      /\ letters \in Seq(Alphabet) /\ Len(letters) = doc.added
  BY DEF JobInv
<1>2. m \in Nat \ {0} /\ r \in Seq(Alphabet) /\ n \in Nat
  BY <1>1, JobFields
<1>3. /\ out \in Seq(Nat) /\ K \in Nat /\ Matches(N, out, m)
      /\ \A k \in 1 .. K - 1 : out[k] + m <= out[k + 1]
  <2>1. out \in Seq(Nat) /\ Matches(N, out, m)
    BY StepGenuine
  <2>. HIDE DEF out
  <2>2. K \in Nat
    BY <2>1
  <2>3. \A k \in 1 .. K - 1 : out[k] + m <= out[k + 1]
    BY <2>1 DEF Matches
  <2>4. QED
    BY <2>1, <2>2, <2>3
<1>4. /\ doc' = f[K] /\ letters' = AddedBy(letters, r, K)
      /\ out # <<>> => MayReplace(doc, out[1], m, n)
  BY DEF ReplacesStep
<1>5. /\ \A k \in 0 .. K : ReplacedIs(doc, doc, out, job, k, f)
      /\ \A k \in 1 .. K : Replacing(f[k - 1], f[k], Shifted(out, k, n - m), m, n)
  BY <1>1, <1>4, StepReplaces
<1>6. f[0] = doc
  <2>1. job.count \in Nat
    BY <1>1, JobFields
  <2>. HIDE DEF out
  <2>2. QED
    BY <1>1, <1>2, <1>3, <2>1, ReplacedRecursion
<1>7. \A k \in 0 .. K : /\ f[k] \in GoodDocs /\ f[k].added = doc.added + k * n
                        /\ Length(f[k]) = N + k * (n - m)
  BY <1>5 DEF ReplacedIs
<1>8. N \in Nat /\ Len(Content(doc.table)) = N
  BY <1>1, LengthIs
<1>. HIDE DEF out, f, K, N
<1>9. \A k \in 0 .. K : f[k].added = doc.added + k * n /\ Len(Content(f[k].table)) = N + k * (n - m)
  BY <1>7, LengthIs
<1>. HIDE DEF m, n, r
<1>10. ReplacedCells(Content(doc.table), Content(f[K].table), doc.added, out, m, n, K)
  BY <1>2, <1>3, <1>5, <1>6, <1>8, <1>9, CellsOfStep DEF K
<1>11. K \in 0 .. K
  BY <1>3
<1>12. PutIn(TextOf(doc, letters), TextOf(f[K], AddedBy(letters, r, K)), out, m, r)
  <2>. DEFINE g == f[K]
  <2>1. g \in GoodDocs /\ Length(g) = N + K * (n - m)
    BY <1>7, <1>11
  <2>2. ReplacedCells(Content(doc.table), Content(g.table), doc.added, out, m, n, K)
    BY <1>10
  <2>. HIDE DEF g
  <2>3. PutIn(TextOf(doc, letters), TextOf(g, AddedBy(letters, r, K)), out, m, r)
    BY <1>1, <1>2, <1>3, <2>1, <2>2, TextPutIn DEF n, K, N
  <2>4. QED
    BY <2>3 DEF g
<1>13. ASSUME UnreadIn(doc) = {} PROVE UnreadIn(f[K]) = {}
  <2>. DEFINE S == {k \in 0 .. K : UnreadIn(f[k]) = {}}
  <2>1. 0 \in S
    BY <1>3, <1>6, <1>13
  <2>2. ASSUME NEW k \in 1 .. K, k - 1 \in S PROVE k \in S
    <3>1. k - 1 \in 0 .. K /\ k \in 0 .. K
      BY <1>3
    <3>2. Shifted(out, k, n - m) \in Nat
      BY <1>2, <1>3, ShiftedApart DEF K
    <3>. DEFINE d == f[k - 1]
                g == f[k]
                at == Shifted(out, k, n - m)
    <3>3. d \in GoodDocs /\ g \in GoodDocs /\ at \in Nat /\ UnreadIn(d) = {} /\ Replacing(d, g, at, m, n)
      BY <1>5, <1>7, <2>2, <3>1, <3>2
    <3>. HIDE DEF d, g, at
    <3>4. UnreadIn(g) = {}
      BY <1>2, <3>3, ReplacingReadable
    <3>5. QED
      BY <3>1, <3>4 DEF g
  <2>3. \A k \in 0 .. K : k \in S
    <3>. HIDE DEF S
    <3>1. QED
      BY <1>3, <2>1, <2>2, PrefixInduction
  <2>4. QED
    BY <1>11, <2>3
<1>14. doc' \in GoodDocs
  BY <1>4, <1>7, <1>11
<1>15. PutIn(Text, TextOf(doc', letters'), out, m, r)
  BY <1>4, <1>12 DEF Text
<1>16. UnreadIn(doc) = {} => UnreadIn(doc') = {}
  BY <1>4, <1>13
<1>17. QED
  BY <1>14, <1>15, <1>16 DEF StepPuts, out, m, r

\* The text after a step of replace-all that replaces all it found.
Substitution(ats) ==
  /\ ats \in SUBSET {i \in 0 .. Len(Text) - 1 : Genuine(i)}
  /\ Apart(ats, Len(job.pattern))
  /\ TextOf(doc', letters') = Substituted(Text, ats, Len(job.pattern), job.replacement)

\* A step of replace-all changes the text only by substituting the matches it found
\* (drive.rs:76-94).
LEMMA ReplacesGenuine ==
  ASSUME JobInv, job # NoJob, ReplacesStep
  PROVE  Substitution(Elements(Step.out))
<1>. DEFINE out == Step.out
            m == Len(job.pattern)
            r == job.replacement
            z == TextOf(doc', letters')
<1>1. doc \in GoodDocs /\ m \in Nat \ {0} /\ r \in Seq(Alphabet)
  BY JobFields DEF JobInv
<1>2. doc' \in GoodDocs /\ PutIn(Text, z, out, m, r)
  BY StepPut DEF StepPuts
<1>3. IsSequence(Text) /\ IsSequence(z)
  BY <1>1, <1>2, TextLetters DEF Text
<1>4. /\ Matches(Length(doc), out, m)
      /\ \A k \in 1 .. Len(out) : out[k] \in {i \in 0 .. Len(Text) - 1 : Genuine(i)}
  BY StepGenuine
<1>. HIDE DEF out, m, r, z
<1>5. z = Substituted(Text, Elements(out), m, r)
  BY <1>1, <1>2, <1>3, PutInIs
<1>6. Apart(Elements(out), m)
  BY <1>1, <1>4, ElementsApart
<1>7. Elements(out) \in SUBSET {i \in 0 .. Len(Text) - 1 : Genuine(i)}
  BY <1>4 DEF Elements
<1>8. QED
  BY <1>5, <1>6, <1>7 DEF Substitution, out, m, r, z

\* A step that is refused substitutes nothing (drive.rs:85).
LEMMA RefusesGenuine ==
  ASSUME JobInv, job # NoJob, RefusesStep
  PROVE  Substitution({})
<1>. DEFINE m == Len(job.pattern)
            r == job.replacement
            out == <<>>
            N == Length(doc)
            c == Content(doc.table)
<1>1. /\ doc \in GoodDocs /\ GoodJob(job)
      /\ letters \in Seq(Alphabet) /\ Len(letters) = doc.added
  BY DEF JobInv
<1>2. m \in Nat \ {0} /\ r \in Seq(Alphabet) /\ Len(r) \in Nat
  BY <1>1, JobFields
<1>3. N \in Nat /\ Len(c) = N
  BY <1>1, LengthIs
<1>. DEFINE n == Len(r)
            x == n - m
            K == Len(out)
<1>4. Matches(N, out, m) /\ Elements(out) = {} /\ K = 0
  BY DEF Matches, Elements
<1>. HIDE DEF out, K, m, n
<1>5. x \in Int /\ 0 * x = 0 /\ 0 * n = 0
  BY <1>2 DEF n
<1>. HIDE DEF x, N, c
<1>6. N = N + K * x
  BY <1>3, <1>4, <1>5
<1>7. ReplacedCells(c, c, doc.added, out, m, n, K)
  <2>1. ASSUME NEW l \in 0 .. K, NEW i \in 0 .. Len(c) - 1 PROVE c[i + l * x + 1] = c[i + 1]
    <3>1. l = 0 /\ i \in Nat
      BY <1>3, <1>4
    <3>2. i + l * x + 1 = i + 1
      BY <1>5, <3>1
    <3>3. QED
      BY <3>2
  <2>2. ASSUME NEW l \in 1 .. K PROVE FALSE
    BY <1>4
  <2>3. QED
    BY <2>1, <2>2 DEF ReplacedCells, x
<1>8. AddedBy(letters, r, K) = letters
  <2>1. [i \in 1 .. K * n |-> r[((i - 1) % n) + 1]] = <<>>
    BY <1>4, <1>5
  <2>2. letters \o <<>> = letters
    BY <1>1
  <2>3. QED
    BY <2>1, <2>2 DEF AddedBy, n
<1>. HIDE DEF r
<1>9. TextOf(doc, AddedBy(letters, r, K)) = Substituted(TextOf(doc, letters), Elements(out), m, r)
  <2>1. Matches(Length(doc), out, m)
    BY <1>4 DEF N
  <2>2. Length(doc) = Length(doc) + Len(out) * (Len(r) - m)
    BY <1>6 DEF N, K, x, n
  <2>3. ReplacedCells(Content(doc.table), Content(doc.table), doc.added, out, m, Len(r), Len(out))
    BY <1>7 DEF c, n, K
  <2>4. QED
    BY <1>1, <1>2, <2>1, <2>2, <2>3, TextPut DEF K
<1>10. TextOf(doc', letters') = Substituted(Text, {}, m, r)
  BY <1>4, <1>8, <1>9 DEF RefusesStep, Text
<1>11. QED
  BY <1>10 DEF Substitution, Apart, m, r

\* What the results list shows after a step.
Shown ==
  IF job' = NoJob /\ outcome'.kind \in {"All", "Truncated"} THEN outcome'.results
  ELSE IF job' # NoJob /\ job'.kind = "All" THEN job'.results
  ELSE <<>>

ShowsGenuine ==
  /\ outcome'.kind = "Match" => Genuine(outcome'.at)
  /\ job.kind = "All" => \A k \in Len(job.results) + 1 .. Len(Shown) : Genuine(Shown[k])

\* A step that goes on with the job as it is shows nothing new.
LEMMA QuietShows ==
  ASSUME JobInv, job # NoJob, outcome'.kind \notin {"Match", "All", "Truncated"},
         job' = NoJob \/ job'.kind # "All" \/ job'.results = job.results
  PROVE  ShowsGenuine
<1>1. Len(job.results) \in Nat
  BY JobFields DEF JobInv
<1>2. Shown = <<>> \/ Shown = job.results
  BY DEF Shown
<1>3. Len(Shown) <= Len(job.results) /\ Len(Shown) \in Nat
  BY <1>1, <1>2
<1>4. \A k \in Len(job.results) + 1 .. Len(Shown) : FALSE
  <2>. DEFINE a == Len(job.results)
              b == Len(Shown)
  <2>. HIDE DEF a, b
  <2>1. a \in Nat /\ b \in Nat /\ b <= a
    BY <1>1, <1>3 DEF a, b
  <2>2. \A k \in a + 1 .. b : FALSE
    BY <2>1
  <2>3. QED
    BY <2>2 DEF a, b
<1>5. QED
  BY <1>4 DEF ShowsGenuine

\* The match that Next or Previous selects (drive.rs:39-50).
LEMMA NextShows ==
  ASSUME JobInv, job # NoJob, DriveNext
  PROVE  ShowsGenuine
<1>. DEFINE out == Step.out
            k == IF job.searcher.backward THEN Len(out) ELSE 1
<1>1. /\ out \in Seq(Nat)
      /\ \A l \in 1 .. Len(out) : Genuine(out[l])
  BY StepGenuine
<1>2. job.kind = "Next" /\ outcome = Pending
  BY DEF DriveNext, JobInv
<1>3. \/ out # <<>> /\ outcome' = [kind |-> "Match", at |-> out[k]]
      \/ outcome' = Ended("NoMatch")
      \/ outcome' = outcome
  BY DEF DriveNext, Finish, GoesOn
<1>. HIDE DEF out
<1>4. CASE out # <<>> /\ outcome' = [kind |-> "Match", at |-> out[k]]
  <2>1. k \in 1 .. Len(out)
    BY <1>1, <1>4
  <2>. HIDE DEF k
  <2>2. QED
    BY <1>1, <1>2, <1>4, <2>1 DEF ShowsGenuine
<1>5. CASE outcome' = Ended("NoMatch") \/ outcome' = outcome
  BY <1>2, <1>5 DEF ShowsGenuine, Ended, Pending
<1>6. QED
  BY <1>3, <1>4, <1>5

\* What "find all" lists (drive.rs:51-75).
LEMMA AllShows ==
  ASSUME JobInv, job # NoJob, DriveAll
  PROVE  ShowsGenuine
<1>. DEFINE out == Step.out
            old == job.results
            all == old \o out
            list == SubSeq(all, 1, Smaller(Len(all), MaxResults))
<1>1. /\ out \in Seq(Nat)
      /\ \A l \in 1 .. Len(out) : Genuine(out[l])
  BY StepGenuine
<1>2. job.kind = "All" /\ outcome = Pending
  BY DEF DriveAll, JobInv
<1>3. old \in Seq(Nat)
  BY JobFields DEF JobInv
<1>4. \/ job' = NoJob /\ outcome' = [kind |-> "Truncated", results |-> list]
      \/ job' = NoJob /\ outcome' = [kind |-> "All", results |-> list]
      \/ job' = [job EXCEPT !.searcher = Step.searcher, !.results = list] /\ outcome' = outcome
  BY DEF DriveAll, Finish, GoesOn
<1>. HIDE DEF out, old
<1>5. /\ all \in Seq(Nat) /\ Len(all) \in Nat /\ Len(old) \in Nat
      /\ \A l \in Len(old) + 1 .. Len(all) : l - Len(old) \in 1 .. Len(out) /\ all[l] = out[l - Len(old)]
  BY <1>1, <1>3
<1>. HIDE DEF all
<1>6. Len(list) \in Nat /\ Len(list) <= Len(all) /\ \A l \in 1 .. Len(list) : list[l] = all[l]
  <2>. DEFINE b == Smaller(Len(all), MaxResults)
  <2>1. b \in Nat /\ b <= Len(all)
    BY <1>5, SearchAssumption DEF Smaller
  <2>. HIDE DEF b
  <2>2. list = SubSeq(all, 1, b)
    BY DEF b
  <2>. HIDE DEF list
  <2>3. Len(list) = b /\ \A l \in 1 .. b : list[l] = all[l]
    BY <1>5, <2>1, <2>2
  <2>4. QED
    BY <2>1, <2>3
<1>. HIDE DEF list
<1>7. \A l \in Len(old) + 1 .. Len(list) : Genuine(list[l])
  <2>1. ASSUME NEW l \in Len(old) + 1 .. Len(list) PROVE Genuine(list[l])
    <3>. DEFINE a == Len(old)
                b == Len(list)
                e == Len(all)
    <3>1. a \in Nat /\ b \in Nat /\ e \in Nat /\ b <= e /\ l \in a + 1 .. b
      BY <1>5, <1>6
    <3>. HIDE DEF a, b, e
    <3>2. l \in 1 .. b /\ l \in a + 1 .. e
      BY <3>1
    <3>3. list[l] = all[l]
      BY <1>6, <3>2 DEF b
    <3>4. l - Len(old) \in 1 .. Len(out) /\ all[l] = out[l - Len(old)]
      BY <1>5, <3>2 DEF a, e
    <3>5. QED
      BY <1>1, <3>3, <3>4
  <2>2. QED
    BY <2>1
<1>8. Shown = list /\ outcome'.kind # "Match"
  <2>1. CASE job' = NoJob /\ outcome' = [kind |-> "Truncated", results |-> list]
    BY <2>1 DEF Shown
  <2>2. CASE job' = NoJob /\ outcome' = [kind |-> "All", results |-> list]
    BY <2>2 DEF Shown
  <2>3. CASE job' = [job EXCEPT !.searcher = Step.searcher, !.results = list] /\ outcome' = outcome
    <3>1. job \in Jobs
      BY DEF JobInv, GoodJob
    <3>2. job'.kind = "All" /\ job'.results = list
      BY <1>2, <2>3, <3>1 DEF Jobs
    <3>3. job' # NoJob
      BY <3>2 DEF NoJob
    <3>4. QED
      BY <1>2, <2>3, <3>2, <3>3 DEF Shown, Pending
  <2>4. QED
    BY <1>4, <2>1, <2>2, <2>3
<1>9. QED
  BY <1>7, <1>8 DEF ShowsGenuine, old

\* No step shows what is no match.
LEMMA StepsShow ==
  ASSUME JobInv, job # NoJob, HNext
  PROVE  ShowsGenuine
<1>1. outcome = Pending
  BY DEF JobInv
<1>2. CASE Start
  <2>1. outcome' = Pending /\ job'.kind = "Next"
    <3>1. PICK p \in Patterns, wrap \in BOOLEAN, range \in SearchRanges, backward \in BOOLEAN :
            \E from \in Froms(range, backward) : StartNext(p, backward, wrap, range, from)
      BY <1>2 DEF Start, StartAll, StartReplaceAll, ReplaceCurrent
    <3>2. PICK from \in Froms(range, backward) : StartNext(p, backward, wrap, range, from)
      BY <3>1
    <3>3. Begin(JobOf(doc, "Next", p, <<>>, range, from, backward, wrap))
      BY <3>2 DEF StartNext
    <3>4. QED
      BY <3>3 DEF Begin, JobOf
  <2>2. QED
    BY <2>1, QuietShows DEF Pending
<1>3. CASE BeginFrame
  <2>1. job' = job /\ outcome' = outcome
    BY <1>3 DEF BeginFrame
  <2>2. QED
    BY <1>1, <2>1, QuietShows DEF Pending
<1>4. CASE User
  <2>1. job' = job /\ outcome' = outcome
    BY <1>4, UserKeeps
  <2>2. QED
    BY <1>1, <2>1, QuietShows DEF Pending
<1>5. CASE Cancel
  <2>1. job' = NoJob /\ outcome' = Ended("Cancelled")
    BY <1>5 DEF Cancel, Finish
  <2>2. QED
    BY <2>1, QuietShows DEF Ended
<1>6. CASE DriveNext
  BY <1>6, NextShows
<1>7. CASE DriveAll
  BY <1>7, AllShows
<1>8. CASE DriveReplaceAll
  <2>1. job.kind = "ReplaceAll"
    BY <1>8, DriveReplaceAllIs
  <2>2. \/ outcome' = [kind |-> "Replaced", count |-> job.count + Len(Step.out)]
        \/ outcome' = outcome \/ outcome' = Ended("Torn") \/ outcome' = Ended("Error")
    BY <1>8, DriveReplaceAllIs DEF ReplacesStep, TearsStep, RefusesStep, Finish, GoesOn
  <2>3. outcome'.kind # "Match"
    BY <1>1, <2>2 DEF Ended, Pending
  <2>4. QED
    BY <2>1, <2>3 DEF ShowsGenuine
<1>9. QED
  BY <1>2, <1>3, <1>4, <1>5, <1>6, <1>7, <1>8 DEF HNext, HStart, HEnd, HUser, Drive

\* Replace-all substitutes matches, or nothing.
LEMMA ReplacementsGenuine ==
  ASSUME JobInv, DriveReplaceAll, outcome'.kind # "Torn"
  PROVE  \E ats : Substitution(ats)
<1>1. job # NoJob /\ (ReplacesStep \/ RefusesStep)
  <2>1. ASSUME TearsStep PROVE FALSE
    <3>1. Finish(Ended("Torn"))
      BY <2>1 DEF TearsStep
    <3>2. outcome' = [kind |-> "Torn"]
      BY <3>1 DEF Finish, Ended
    <3>3. QED
      BY <3>2
  <2>2. QED
    BY <2>1, DriveReplaceAllIs
<1>2. QED
  BY <1>1, ReplacesGenuine, RefusesGenuine

\* However the user edits between two frames, what is selected, listed or replaced
\* is a match of the text as it is at that step (search.rs:121-132, drive.rs:76-112).
THEOREM OnlyMatches == HSpec => MatchesAreGenuine
<1>. DEFINE P == /\ outcome'.kind = "Match" /\ job # NoJob => Genuine(outcome'.at)
                 /\ job # NoJob /\ job.kind = "All" =>
                      LET list == IF job' = NoJob /\ outcome'.kind \in {"All", "Truncated"} THEN outcome'.results
                                  ELSE IF job' # NoJob /\ job'.kind = "All" THEN job'.results
                                  ELSE <<>>
                      IN  \A k \in Len(job.results) + 1 .. Len(list) : Genuine(list[k])
                 /\ DriveReplaceAll /\ outcome'.kind # "Torn" =>
                      \E ats \in SUBSET {i \in 0 .. Len(Text) - 1 : Genuine(i)} :
                        /\ Apart(ats, Len(job.pattern))
                        /\ TextOf(doc', letters') = Substituted(Text, ats, Len(job.pattern), job.replacement)
<1>1. JobInv /\ [HNext]_hvars => [P]_hvars
  <2>1. ASSUME JobInv, HNext PROVE P
    <3>1. job # NoJob => ShowsGenuine
      BY <2>1, StepsShow
    <3>2. DriveReplaceAll /\ outcome'.kind # "Torn" => \E ats : Substitution(ats)
      BY <2>1, ReplacementsGenuine
    <3>3. QED
      BY <3>1, <3>2 DEF ShowsGenuine, Shown, Substitution
  <2>. HIDE DEF P
  <2>2. QED
    BY <2>1
<1>2. QED
  BY <1>1, JobInvHolds, PTL DEF HSpec, MatchesAreGenuine

-----------------------------------------------------------------------------
(* That nothing is left out. *)

\* Position i lies under one of the matches out, each of m letters.
Under(out, m, i) == \E k \in 1 .. Len(out) : out[k] <= i /\ i < out[k] + m

\* No skip passes over a match: where the letters from i on do not match, the next
\* match is a stride away at least (pattern.rs, the table of Boyer-Moore-Horspool).
LEMMA StrideMissesNone ==
  ASSUME NEW p, Len(p) \in Nat \ {0}, NEW data, NEW i \in Nat, NEW j \in Nat, i < j,
         MatchesAt(data, p, j)
  PROVE  i + Stride(data, p, i) <= j
<1>. DEFINE m == Len(p)
            last == data[i + m]
            at == {k \in 1 .. m - 1 : p[k] = last}
<1>0. m \in Nat /\ m > 0
  OBVIOUS
<1>1. CASE ~ IsConcrete(p)
  BY <1>1 DEF Stride
<1>2. CASE IsConcrete(p)
  <2>1. \A k \in 1 .. m : p[k] # Any
    BY <1>2 DEF IsConcrete
  <2>2. \A k \in 1 .. m : p[k] = data[j + k]
    BY <2>1 DEF MatchesAt
  <2>3. Stride(data, p, i) = Skip(p, last)
    BY <1>2 DEF Stride
  <2>4. ASSUME j < i + m PROVE m - (j - i) \in at
    <3>1. m - (j - i) \in 1 .. m - 1 /\ j + (m - (j - i)) = i + m
      BY <2>4, <1>0
    <3>. DEFINE q == m - (j - i)
    <3>. HIDE DEF q
    <3>2. q \in 1 .. m /\ j + q = i + m /\ q \in 1 .. m - 1
      BY <3>1 DEF q
    <3>3. p[q] = last
      BY <2>2, <3>2
    <3>4. q \in at
      BY <3>2, <3>3
    <3>5. QED
      BY <3>4 DEF q
  <2>5. CASE at = {}
    <3>1. Stride(data, p, i) = m
      BY <2>3, <2>5 DEF Skip
    <3>. HIDE DEF at, m
    <3>2. QED
      BY <2>4, <2>5, <3>1, <1>0
  <2>6. CASE at # {}
    <3>1. at \in SUBSET (0 .. (m - 1)) /\ m - 1 \in Nat
      OBVIOUS
    <3>2. \E k \in at : \A l \in at : l <= k
      <4>. HIDE DEF at, m
      <4>1. QED
        BY <2>6, <3>1, GreatestExists
    <3>. DEFINE k == CHOOSE k \in at : \A l \in at : l <= k
    <3>3. k \in at /\ \A l \in at : l <= k
      <4>. HIDE DEF at
      <4>1. QED
        BY <3>2
    <3>4. Stride(data, p, i) = m - k
      BY <2>3, <2>6 DEF Skip
    <3>5. k \in 1 .. m - 1
      <4>. HIDE DEF k
      <4>1. QED
        BY <3>3
    <3>. HIDE DEF k, at, m
    <3>6. CASE j < i + m
      <4>1. m - (j - i) <= k
        BY <2>4, <3>3, <3>6
      <4>2. QED
        BY <4>1, <3>4, <3>5, <1>0
    <3>7. CASE ~ (j < i + m)
      BY <3>7, <3>4, <3>5, <1>0
    <3>8. QED
      BY <3>6, <3>7
  <2>7. QED
    BY <2>5, <2>6
<1>3. QED
  BY <1>1, <1>2

\* What a scan from i answers with leaves out no match of the window.
MissesNone(data, p, upTo, from, out) ==
  \A j \in Nat : from <= j /\ j < upTo /\ MatchesAt(data, p, j) => Under(out, Len(p), j)

\* Each match of the window lies under one that the scan answers with (Pattern::scan).
LEMMA ScanMissesNone ==
  ASSUME NEW p, Len(p) \in Nat \ {0}, NEW data, Len(data) \in Nat, NEW upTo \in Nat, NEW from \in Nat
  PROVE  MissesNone(data, p, upTo, from, Scan(data, p, upTo, from))
<1>0. PICK f : ScanFrom(f, data, p, upTo) /\ Scan(data, p, upTo, from) = f[from]
  <2>1. ScanSolved(data, p, upTo, from)
    BY ScanRecursion
  <2>2. QED
    BY <2>1 DEF ScanSolved
<1>1. \A i \in Nat : f[i] =
        IF i >= upTo \/ i + Len(p) > Len(data) THEN <<>>
        ELSE IF MatchesAt(data, p, i) THEN <<i>> \o f[i + Len(p)]
        ELSE f[i + Stride(data, p, i)]
  BY <1>0 DEF ScanFrom
<1>. DEFINE Good(i) == f[i] \in Seq(Nat) /\ MissesNone(data, p, upTo, i, f[i])
            S == {k \in Nat : \A i \in Nat : upTo <= i + k => Good(i)}
<1>2. ASSUME NEW i \in Nat, i >= upTo \/ i + Len(p) > Len(data) PROVE Good(i)
  <2>1. f[i] = <<>>
    BY <1>1, <1>2
  <2>2. ASSUME NEW j \in Nat, i <= j, j < upTo, MatchesAt(data, p, j) PROVE FALSE
    <3>1. j + Len(p) <= Len(data)
      BY <2>2 DEF MatchesAt
    <3>2. QED
      BY <1>2, <2>2, <3>1
  <2>3. QED
    BY <2>1, <2>2 DEF MissesNone
<1>3. 0 \in S
  <2>1. ASSUME NEW i \in Nat, upTo <= i + 0 PROVE Good(i)
    <3>1. i >= upTo
      BY <2>1
    <3>. HIDE DEF Good
    <3>2. QED
      BY <1>2, <3>1
  <2>2. QED
    BY <2>1
<1>4. ASSUME NEW k \in Nat, k \in S PROVE k + 1 \in S
  <2>1. SUFFICES ASSUME NEW i \in Nat, upTo <= i + (k + 1) PROVE Good(i)
    OBVIOUS
  <2>2. \A j \in Nat : upTo <= j + k => Good(j)
    BY <1>4
  <2>3. CASE i >= upTo \/ i + Len(p) > Len(data)
    BY <1>2, <2>3
  <2>4. CASE ~ (i >= upTo \/ i + Len(p) > Len(data)) /\ MatchesAt(data, p, i)
    <3>. DEFINE m == Len(p)
                g == f[i + m]
    <3>1. f[i] = <<i>> \o g
      BY <1>1, <2>4
    <3>2. m \in Nat /\ m > 0 /\ i + m \in Nat /\ upTo <= (i + m) + k
      BY <2>1
    <3>3. g \in Seq(Nat) /\ MissesNone(data, p, upTo, i + m, g)
      BY <2>2, <3>2
    <3>. HIDE DEF g
    <3>4. /\ f[i] \in Seq(Nat) /\ Len(f[i]) = Len(g) + 1 /\ f[i][1] = i /\ Len(g) \in Nat
          /\ \A l \in 1 .. Len(g) : f[i][l + 1] = g[l]
      BY <3>1, <3>3
    <3>5. ASSUME NEW j \in Nat, i <= j, j < upTo, MatchesAt(data, p, j) PROVE Under(f[i], m, j)
      <4>1. CASE j < i + m
        <5>1. 1 \in 1 .. Len(f[i])
          BY <3>4
        <5>2. f[i][1] <= j /\ j < f[i][1] + m
          BY <3>4, <4>1, <3>5
        <5>3. QED
          BY <5>1, <5>2 DEF Under
      <4>2. CASE ~ (j < i + m)
        <5>1. Under(g, m, j)
          <6>1. i + m <= j
            BY <4>2, <3>2
          <6>2. QED
            BY <6>1, <3>3, <3>5 DEF MissesNone
        <5>2. PICK l \in 1 .. Len(g) : g[l] <= j /\ j < g[l] + m
          BY <5>1 DEF Under
        <5>3. l + 1 \in 1 .. Len(f[i]) /\ f[i][l + 1] = g[l]
          BY <3>4, <5>2
        <5>4. QED
          BY <5>2, <5>3 DEF Under
      <4>3. QED
        BY <4>1, <4>2
    <3>6. QED
      BY <3>4, <3>5 DEF MissesNone
  <2>5. CASE ~ (i >= upTo \/ i + Len(p) > Len(data)) /\ ~ MatchesAt(data, p, i)
    <3>. DEFINE j == i + Stride(data, p, i)
    <3>1. f[i] = f[j]
      BY <1>1, <2>5
    <3>2. j \in Nat /\ i < j /\ upTo <= j + k
      BY StrideIs, <2>1
    <3>3. f[j] \in Seq(Nat) /\ MissesNone(data, p, upTo, j, f[j])
      BY <2>2, <3>2
    <3>4. ASSUME NEW l \in Nat, i <= l, l < upTo, MatchesAt(data, p, l) PROVE j <= l
      <4>1. i # l
        BY <2>5, <3>4
      <4>2. i < l
        BY <4>1, <3>4
      <4>3. QED
        BY <3>4, <4>2, StrideMissesNone
    <3>. HIDE DEF j
    <3>5. QED
      BY <3>1, <3>3, <3>4 DEF MissesNone
  <2>6. QED
    BY <2>3, <2>4, <2>5
<1>5. upTo \in S
  <2>. HIDE DEF S
  <2>1. Nat \subseteq S
    BY <1>3, <1>4, SetInduction
  <2>2. QED
    BY <2>1
<1>6. QED
  BY <1>0, <1>5

\* Where the pattern occurs in the text, it matches in a window that reads it all.
LEMMA WindowHas ==
  ASSUME NEW text, Len(text) \in Nat, NEW p, Len(p) \in Nat \ {0},
         NEW c0 \in Nat, NEW e \in Int, e <= Len(text),
         NEW i \in Nat, Occurs(text, p, c0 + i), c0 + i + Len(p) <= e
  PROVE  MatchesAt(SubSeq(text, c0 + 1, e), p, i)
<1>. DEFINE S == {text[l] : l \in c0 + 1 .. e}
            data == SubSeq(text, c0 + 1, e)
<1>1. /\ Len(data) = IF c0 + 1 <= e THEN e - (c0 + 1) + 1 ELSE 0
      /\ \A l \in 1 .. e - (c0 + 1) + 1 : data[l] = text[c0 + 1 + l - 1]
  <2>1. \A l \in c0 + 1 .. e : text[l] \in S
    OBVIOUS
  <2>2. c0 + 1 \in Int
    OBVIOUS
  <2>. HIDE DEF S
  <2>3. QED
    BY <2>1, <2>2, SubSeqProperties
<1>. HIDE DEF data
<1>2. Len(data) = e - c0 /\ i + Len(p) <= Len(data)
  BY <1>1
<1>3. ASSUME NEW k \in 1 .. Len(p) PROVE p[k] = Any \/ p[k] = data[i + k]
  <2>1. i + k \in 1 .. e - (c0 + 1) + 1 /\ c0 + 1 + (i + k) - 1 = c0 + i + k
    BY <1>2
  <2>2. data[i + k] = text[c0 + i + k]
    BY <1>1, <2>1
  <2>3. p[k] \in {Any, text[c0 + i + k]}
    BY DEF Occurs
  <2>4. QED
    BY <2>2, <2>3
<1>4. QED
  BY <1>2, <1>3 DEF MatchesAt, data

\* The filter leaves out only what touches something unreadable (search.rs:125-132).
LEMMA FilterKeeps ==
  ASSUME NEW p, NEW unread, NEW c0 \in Nat, NEW rel \in Seq(Nat),
         NEW out, \A k \in 0 .. Len(rel) : out[k] =
                    IF k = 0 THEN <<>>
                    ELSE IF TouchesUnread(unread, c0 + rel[k], Len(p)) THEN out[k - 1]
                    ELSE Append(out[k - 1], c0 + rel[k])
  PROVE  \A k \in 1 .. Len(rel) :
           TouchesUnread(unread, c0 + rel[k], Len(p)) \/ c0 + rel[k] \in Elements(out[Len(rel)])
<1>. DEFINE n == Len(rel)
            Hid(k) == TouchesUnread(unread, c0 + rel[k], Len(p))
            Q == {l \in Nat : l <= n =>
                    /\ out[l] \in Seq(Nat)
                    /\ \A k \in 1 .. l : Hid(k) \/ c0 + rel[k] \in Elements(out[l])}
<1>0. n \in Nat /\ \A k \in 1 .. n : rel[k] \in Nat /\ c0 + rel[k] \in Nat
  OBVIOUS
<1>. HIDE DEF n
<1>1. 0 \in Q
  <2>1. out[0] = <<>>
    <3>1. 0 \in 0 .. Len(rel)
      BY <1>0 DEF n
    <3>2. QED
      BY <3>1
  <2>2. <<>> \in Seq(Nat) /\ \A k \in 1 .. 0 : FALSE
    OBVIOUS
  <2>. HIDE DEF Hid
  <2>3. out[0] \in Seq(Nat) /\ \A k \in 1 .. 0 : Hid(k) \/ c0 + rel[k] \in Elements(out[0])
    BY <2>1, <2>2
  <2>4. QED
    BY <2>3
<1>2. ASSUME NEW l \in Nat, l \in Q PROVE l + 1 \in Q
  <2>1. SUFFICES ASSUME l + 1 <= n
                 PROVE  /\ out[l + 1] \in Seq(Nat)
                        /\ \A k \in 1 .. l + 1 : Hid(k) \/ c0 + rel[k] \in Elements(out[l + 1])
    OBVIOUS
  <2>. DEFINE x == out[l]
              y == out[l + 1]
              v == c0 + rel[l + 1]
  <2>2. x \in Seq(Nat) /\ \A k \in 1 .. l : Hid(k) \/ c0 + rel[k] \in Elements(x)
    BY <1>2, <2>1, <1>0
  <2>3. y = IF Hid(l + 1) THEN x ELSE Append(x, v)
    <3>1. l + 1 \in 0 .. Len(rel) /\ l + 1 # 0 /\ (l + 1) - 1 = l
      BY <2>1, <1>0 DEF n
    <3>2. QED
      BY <3>1
  <2>4. v \in Nat
    BY <2>1, <1>0
  <2>. HIDE DEF x, y, v, Hid
  <2>5. CASE Hid(l + 1)
    <3>1. y = x
      BY <2>3, <2>5
    <3>2. ASSUME NEW k \in 1 .. l + 1 PROVE Hid(k) \/ c0 + rel[k] \in Elements(y)
      <4>1. k = l + 1 \/ k \in 1 .. l
        OBVIOUS
      <4>2. QED
        BY <2>2, <2>5, <3>1, <4>1
    <3>3. QED
      BY <2>2, <3>1, <3>2 DEF y
  <2>6. CASE ~ Hid(l + 1)
    <3>1. y = Append(x, v)
      BY <2>3, <2>6
    <3>2. /\ y \in Seq(Nat) /\ Len(x) \in Nat /\ Len(y) = Len(x) + 1 /\ y[Len(x) + 1] = v
          /\ \A k \in 1 .. Len(x) : y[k] = x[k]
      BY <2>2, <2>4, <3>1
    <3>3. v \in Elements(y)
      <4>1. Len(x) + 1 \in 1 .. Len(y)
        BY <3>2
      <4>2. QED
        BY <3>2, <4>1 DEF Elements
    <3>4. ASSUME NEW e \in Elements(x) PROVE e \in Elements(y)
      <4>1. PICK k \in 1 .. Len(x) : e = x[k]
        BY DEF Elements
      <4>2. k \in 1 .. Len(y) /\ y[k] = x[k]
        BY <3>2
      <4>3. QED
        BY <4>1, <4>2 DEF Elements
    <3>5. ASSUME NEW k \in 1 .. l + 1 PROVE Hid(k) \/ c0 + rel[k] \in Elements(y)
      <4>1. CASE k = l + 1
        BY <3>3, <4>1 DEF v
      <4>2. CASE k # l + 1
        <5>1. k \in 1 .. l
          BY <4>2
        <5>2. QED
          BY <5>1, <2>2, <3>4
      <4>3. QED
        BY <4>1, <4>2
    <3>6. QED
      BY <3>2, <3>5 DEF y
  <2>7. QED
    BY <2>5, <2>6
<1>3. n \in Q
  <2>. HIDE DEF Q
  <2>1. Nat \subseteq Q
    BY <1>1, <1>2, SetInduction
  <2>2. QED
    BY <2>1, <1>0
<1>4. \A k \in 1 .. n : Hid(k) \/ c0 + rel[k] \in Elements(out[n])
  BY <1>3, <1>0
<1>5. QED
  BY <1>4 DEF n

\* Position i lies under a match that is listed in out, or under one that cannot be
\* reported, because a byte of it could not be read.
Answered(out, p, text, unread, start, stop, i) ==
  \E j \in Occurrences(text, p, start, stop) :
    /\ j <= i /\ i < j + Len(p)
    /\ j \in Elements(out) \/ TouchesUnread(unread, j, Len(p))

\* What starts in the window c0 .. c1 - 1, not below `from`, is answered.
WindowAnswers(out, p, text, unread, s, c0, c1, from) ==
  \A i \in Nat : c0 <= i /\ i < c1 /\ from <= i /\ Occurs(text, p, i)
                   => Answered(out, p, text, unread, s.start, s.stop, i)

\* A window reads far enough for every match that starts in it, and so misses none
\* but under what it finds (search.rs:114-140).
LEMMA FoundMissesNone ==
  ASSUME NEW s, s.backward \in BOOLEAN, s.next \in Nat, s.start \in Nat, s.stop \in Nat,
         NEW p, Len(p) \in Nat \ {0}, NEW text, Len(text) \in Nat, s.stop <= Len(text), NEW unread,
         NEW c0 \in Nat, NEW c1 \in Nat, s.start <= c0, c0 <= c1, c1 + Len(p) - 1 <= s.stop
  PROVE  WindowAnswers(Found(s, p, text, unread, c0, c1), p, text, unread, s, c0, c1,
                       IF s.backward THEN 0 ELSE s.next)
<1>. DEFINE m == Len(p)
            e == Least(c0 + ReadLen(s, c0, c1, m), Len(text))
            data == SubSeq(text, c0 + 1, e)
            from == IF s.backward THEN 0 ELSE Monus(s.next, c0)
            rel == Scan(data, p, c1 - c0, from)
            out == KeptUpTo(p, unread, c0, rel)
<1>1. /\ e \in Int /\ e <= Len(text) /\ from \in Nat /\ c1 - c0 \in Nat
      /\ e = c1 + m - 1
  BY DEF Least, ReadLen, Monus, Most
<1>2. Len(data) \in Nat /\ \A i \in Nat : MatchesAt(data, p, i) => Occurs(text, p, c0 + i)
  <2>. HIDE DEF e
  <2>1. QED
    BY <1>1, WindowMatches
<1>3. \A i \in Nat : Occurs(text, p, c0 + i) /\ c0 + i + m <= e => MatchesAt(data, p, i)
  <2>. HIDE DEF e
  <2>1. QED
    BY <1>1, WindowHas
<1>4. ScanFinds(data, p, c1 - c0, from, rel) /\ MissesNone(data, p, c1 - c0, from, rel)
  <2>. HIDE DEF data, from
  <2>1. QED
    BY <1>1, <1>2, ScanIsRight, ScanMissesNone
<1>5. \A i \in Nat : i >= (IF s.backward THEN 0 ELSE s.next) /\ i >= c0 => i - c0 \in Nat /\ from <= i - c0
  BY DEF Monus, Most
<1>6. Found(s, p, text, unread, c0, c1) = out[Len(rel)]
  BY DEF Found, KeptUpTo
<1>. HIDE DEF data, from, e
<1>7. rel \in Seq(Nat) /\ \A k \in 1 .. Len(rel) : rel[k] \in Nat /\ rel[k] < c1 - c0 /\ MatchesAt(data, p, rel[k])
  <2>. HIDE DEF rel
  <2>1. QED
    BY <1>4 DEF ScanFinds
<1>. HIDE DEF rel
<1>8. \A k \in 1 .. Len(rel) : TouchesUnread(unread, c0 + rel[k], m) \/ c0 + rel[k] \in Elements(out[Len(rel)])
  <2>1. \A k \in 0 .. Len(rel) : out[k] =
               IF k = 0 THEN <<>>
               ELSE IF TouchesUnread(unread, c0 + rel[k], m) THEN out[k - 1]
               ELSE Append(out[k - 1], c0 + rel[k])
    BY <1>7, KeptRecursion, SMTT(30)
  <2>. HIDE DEF out
  <2>2. QED
    BY <1>7, <2>1, FilterKeeps
<1>. HIDE DEF out
<1>9. ASSUME NEW i \in Nat, c0 <= i, i < c1, (IF s.backward THEN 0 ELSE s.next) <= i, Occurs(text, p, i)
      PROVE  Answered(out[Len(rel)], p, text, unread, s.start, s.stop, i)
  <2>1. i - c0 \in Nat /\ from <= i - c0 /\ i - c0 < c1 - c0 /\ c0 + (i - c0) = i /\ i + m <= e
    BY <1>1, <1>5, <1>9
  <2>2. MatchesAt(data, p, i - c0)
    <3>. DEFINE q == i - c0
    <3>. HIDE DEF q
    <3>1. q \in Nat /\ c0 + q = i /\ c0 + q + m <= e
      BY <2>1 DEF q
    <3>2. QED
      BY <1>3, <1>9, <3>1 DEF q
  <2>3. PICK k \in 1 .. Len(rel) : rel[k] <= i - c0 /\ i - c0 < rel[k] + m
    BY <1>4, <2>1, <2>2 DEF MissesNone, Under
  <2>. DEFINE j == c0 + rel[k]
  <2>4. rel[k] \in Nat /\ rel[k] < c1 - c0 /\ Occurs(text, p, j)
    BY <1>2, <1>7
  <2>5. j \in Nat /\ c0 <= j /\ j <= i /\ i < j + m /\ j < c1
    BY <2>3, <2>4, SMTT(30)
  <2>6. TouchesUnread(unread, j, m) \/ j \in Elements(out[Len(rel)])
    BY <1>8
  <2>. HIDE DEF j
  <2>7. j \in s.start .. s.stop /\ j + m <= s.stop
    BY <2>5
  <2>8. j \in Occurrences(text, p, s.start, s.stop)
    BY <2>4, <2>7 DEF Occurrences
  <2>9. QED
    BY <2>5, <2>6, <2>8 DEF Answered
<1>10. QED
  BY <1>6, <1>9 DEF WindowAnswers

\* The filter adds nothing (search.rs:125-132).
LEMMA FilterTakes ==
  ASSUME NEW p, NEW unread, NEW c0 \in Nat, NEW rel \in Seq(Nat), NEW low \in Nat,
         \A k \in 1 .. Len(rel) : low <= c0 + rel[k],
         NEW out, \A k \in 0 .. Len(rel) : out[k] =
                    IF k = 0 THEN <<>>
                    ELSE IF TouchesUnread(unread, c0 + rel[k], Len(p)) THEN out[k - 1]
                    ELSE Append(out[k - 1], c0 + rel[k])
  PROVE  \A k \in 1 .. Len(out[Len(rel)]) : low <= out[Len(rel)][k]
<1>. DEFINE n == Len(rel)
            Hid(k) == TouchesUnread(unread, c0 + rel[k], Len(p))
            Above(x) == x \in Seq(Nat) /\ \A k \in 1 .. Len(x) : low <= x[k]
            Q == {l \in Nat : l <= n => Above(out[l])}
<1>0. n \in Nat /\ \A k \in 1 .. n : rel[k] \in Nat /\ c0 + rel[k] \in Nat /\ low <= c0 + rel[k]
  OBVIOUS
<1>. HIDE DEF n
<1>1. 0 \in Q
  <2>1. out[0] = <<>>
    <3>1. 0 \in 0 .. Len(rel)
      BY <1>0 DEF n
    <3>2. QED
      BY <3>1
  <2>2. Above(<<>>)
    OBVIOUS
  <2>. HIDE DEF Above
  <2>3. QED
    BY <2>1, <2>2
<1>2. ASSUME NEW l \in Nat, l \in Q PROVE l + 1 \in Q
  <2>1. SUFFICES ASSUME l + 1 <= n PROVE Above(out[l + 1])
    <3>. HIDE DEF Above
    <3>1. QED
      OBVIOUS
  <2>. DEFINE x == out[l]
              y == out[l + 1]
              v == c0 + rel[l + 1]
  <2>2. Above(x)
    <3>. HIDE DEF Above
    <3>1. QED
      BY <1>0, <1>2, <2>1
  <2>3. y = IF Hid(l + 1) THEN x ELSE Append(x, v)
    <3>1. l + 1 \in 0 .. Len(rel) /\ l + 1 # 0 /\ (l + 1) - 1 = l
      BY <2>1, <1>0 DEF n
    <3>2. QED
      BY <3>1
  <2>4. v \in Nat /\ low <= v
    BY <2>1, <1>0
  <2>. HIDE DEF x, y, v, Hid
  <2>5. CASE Hid(l + 1)
    <3>1. y = x
      BY <2>3, <2>5
    <3>. HIDE DEF Above
    <3>2. QED
      BY <2>2, <3>1 DEF y
  <2>6. CASE ~ Hid(l + 1)
    <3>1. y = Append(x, v)
      BY <2>3, <2>6
    <3>2. /\ y \in Seq(Nat) /\ Len(x) \in Nat /\ Len(y) = Len(x) + 1 /\ y[Len(x) + 1] = v
          /\ \A k \in 1 .. Len(x) : y[k] = x[k]
      BY <2>2, <2>4, <3>1
    <3>3. ASSUME NEW k \in 1 .. Len(y) PROVE low <= y[k]
      <4>1. k = Len(x) + 1 \/ k \in 1 .. Len(x)
        BY <3>2
      <4>2. QED
        BY <2>2, <2>4, <3>2, <4>1
    <3>4. Above(y)
      BY <3>2, <3>3
    <3>5. QED
      BY <3>4 DEF y
  <2>7. QED
    BY <2>5, <2>6
<1>3. n \in Q
  <2>. HIDE DEF Q
  <2>1. Nat \subseteq Q
    BY <1>1, <1>2, SetInduction
  <2>2. QED
    BY <2>1, <1>0
<1>4. Above(out[n])
  <2>. HIDE DEF Above
  <2>1. QED
    BY <1>0, <1>3
<1>5. QED
  BY <1>4 DEF n

\* Forwards, what a window finds lies behind what was found before
\* (next_candidate, search.rs).
LEMMA FoundIsBehind ==
  ASSUME NEW s, ~ s.backward, s.next \in Nat, s.stop \in Nat,
         NEW p, Len(p) \in Nat \ {0}, NEW text, Len(text) \in Nat, NEW unread,
         NEW c0 \in Nat, NEW c1 \in Nat, c0 <= c1
  PROVE  \A k \in 1 .. Len(Found(s, p, text, unread, c0, c1)) :
           s.next <= Found(s, p, text, unread, c0, c1)[k]
<1>. DEFINE m == Len(p)
            e == Least(c0 + ReadLen(s, c0, c1, m), Len(text))
            data == SubSeq(text, c0 + 1, e)
            from == Monus(s.next, c0)
            rel == Scan(data, p, c1 - c0, from)
            out == KeptUpTo(p, unread, c0, rel)
<1>1. /\ e \in Int /\ e <= Len(text) /\ from \in Nat /\ c1 - c0 \in Nat
      /\ \A i \in Nat : from <= i => s.next <= c0 + i
  <2>1. e \in Int /\ e <= Len(text)
    BY DEF Least, ReadLen
  <2>2. from \in Nat /\ from >= s.next - c0
    BY DEF Monus, Most
  <2>. HIDE DEF e, from
  <2>3. QED
    BY <2>1, <2>2
<1>2. Len(data) \in Nat
  <2>. HIDE DEF e
  <2>1. QED
    BY <1>1, WindowMatches
<1>3. ScanFinds(data, p, c1 - c0, from, rel)
  <2>. HIDE DEF data, from
  <2>1. QED
    BY <1>1, <1>2, ScanIsRight
<1>4. Found(s, p, text, unread, c0, c1) = out[Len(rel)]
  BY DEF Found, KeptUpTo
<1>. HIDE DEF data, from, rel
<1>5. rel \in Seq(Nat) /\ \A k \in 1 .. Len(rel) : s.next <= c0 + rel[k]
  <2>1. rel \in Seq(Nat) /\ \A k \in 1 .. Len(rel) : from <= rel[k]
    BY <1>3 DEF ScanFinds
  <2>2. \A k \in 1 .. Len(rel) : rel[k] \in Nat
    BY <2>1
  <2>3. QED
    BY <1>1, <2>1, <2>2
<1>6. \A k \in 0 .. Len(rel) : out[k] =
             IF k = 0 THEN <<>>
             ELSE IF TouchesUnread(unread, c0 + rel[k], m) THEN out[k - 1]
             ELSE Append(out[k - 1], c0 + rel[k])
  BY <1>5, KeptRecursion
<1>. HIDE DEF out
<1>7. \A k \in 1 .. Len(out[Len(rel)]) : s.next <= out[Len(rel)][k]
  <2>. DEFINE low == s.next
  <2>1. low \in Nat /\ \A k \in 1 .. Len(rel) : low <= c0 + rel[k]
    BY <1>5
  <2>. HIDE DEF low, e
  <2>0. c0 \in Nat /\ rel \in Seq(Nat)
    BY <1>5
  <2>2. \A k \in 1 .. Len(out[Len(rel)]) : low <= out[Len(rel)][k]
    BY ONLY <1>6, <2>0, <2>1, FilterTakes, ZenonT(60)
  <2>3. QED
    BY <2>2 DEF low
<1>8. QED
  BY <1>4, <1>7

\* The fields that no step changes.
SameSearch(t, s) ==
  /\ t \in Searchers /\ t.start = s.start /\ t.stop = s.stop /\ t.origin = s.origin
  /\ t.backward = s.backward /\ t.wrap = s.wrap

\* t is s at the end of its pass.
Advances(s, t, m) ==
  /\ SameSearch(t, s)
  /\ IF s.wrapped \/ ~ s.wrap
       THEN t.finished /\ t.pos = s.pos /\ t.next = s.next /\ t.wrapped = s.wrapped
       ELSE /\ t.wrapped
            /\ s.backward => t.pos = CandEnd(s.start, s.stop, m)
                             /\ t.finished = (CandEnd(s.start, s.stop, m) <= s.origin)
            /\ ~ s.backward => t.pos = s.start /\ t.next = s.start /\ t.finished = (s.start >= s.origin)

\* What the end of a pass changes (search.rs, advance_pass).
LEMMA AdvanceIs ==
  ASSUME NEW m \in Nat \ {0}, NEW s, GoodSearcher(s, m)
  PROVE  Advances(s, AdvancePass(s, m), m)
<1>. DEFINE c == CandEnd(s.start, s.stop, m)
            t == AdvancePass(s, m)
            f == (c <= s.origin)
            g == (s.start >= s.origin)
<1>1. /\ s \in Searchers /\ s.start \in Nat /\ s.stop \in Nat
      /\ s.backward \in BOOLEAN /\ s.wrapped \in BOOLEAN /\ s.wrap \in BOOLEAN
  BY DEF GoodSearcher, Searchers
<1>2. c \in Nat
  BY <1>1, CandEndIs
<1>3. f \in BOOLEAN /\ g \in BOOLEAN
  OBVIOUS
<1>. HIDE DEF c
<1>4. CASE s.wrapped \/ ~ s.wrap
  <2>1. t = [s EXCEPT !.finished = TRUE]
    BY <1>4 DEF AdvancePass
  <2>. HIDE DEF t
  <2>2. QED
    BY <1>1, <1>4, <2>1 DEF Advances, SameSearch, Searchers, t
<1>5. CASE ~ (s.wrapped \/ ~ s.wrap) /\ s.backward
  <2>1. t = [s EXCEPT !.wrapped = TRUE, !.pos = c, !.finished = f]
    BY <1>5 DEF AdvancePass, c
  <2>. HIDE DEF t, f
  <2>2. t \in Searchers /\ t.wrapped = TRUE /\ t.pos = c /\ t.finished = f
    BY <1>1, <1>2, <1>3, <2>1 DEF Searchers
  <2>3. SameSearch(t, s)
    BY <1>1, <2>1, <2>2 DEF Searchers, SameSearch
  <2>4. QED
    BY <1>1, <1>5, <2>2, <2>3 DEF Advances, t, f, c
<1>6. CASE ~ (s.wrapped \/ ~ s.wrap) /\ ~ s.backward
  <2>1. t = [s EXCEPT !.wrapped = TRUE, !.pos = s.start, !.next = s.start, !.finished = g]
    BY <1>6 DEF AdvancePass
  <2>. HIDE DEF t, g
  <2>2. t \in Searchers /\ t.wrapped = TRUE /\ t.pos = s.start /\ t.next = s.start /\ t.finished = g
    BY <1>1, <1>3, <2>1 DEF Searchers
  <2>3. SameSearch(t, s)
    BY <1>1, <2>1, <2>2 DEF Searchers, SameSearch
  <2>4. QED
    BY <1>1, <1>6, <2>2, <2>3 DEF Advances, t, g
<1>7. QED
  BY <1>4, <1>5, <1>6

\* t is s after the window c0 .. c1 - 1.
Moves(s, t, m, c0, c1, out) ==
  /\ SameSearch(t, s) /\ GoodSearcher(t, m) /\ t.wrapped = s.wrapped /\ t.finished = s.finished
  /\ t.pos = IF s.backward THEN c0 ELSE c1
  /\ t.next = IF s.backward \/ out = <<>> THEN s.next ELSE out[Len(out)] + m

\* A window of a step: it begins where the last one ended, what it finds are matches
\* that start in it, and it misses none that is not under one of them.
Scans(s, p, text, unread, c0, c1, out) ==
  /\ Lo(s) <= c0 /\ c0 < c1 /\ c1 <= Hi(s, Len(p))
  /\ s.backward => c1 = s.pos
  /\ ~ s.backward => c0 = s.pos
  /\ Sightings(out, p, text, unread, c0, c1)
  /\ ~ s.backward => \A k \in 1 .. Len(out) : s.next <= out[k]
  /\ WindowAnswers(out, p, text, unread, s, c0, c1, IF s.backward THEN 0 ELSE s.next)

\* What a step may be: nothing after the end, the end of a pass without a window, a
\* window, or a window that ends its pass.
StepWithout(st, s, m) ==
  /\ st.out = <<>>
  /\ \/ s.finished /\ st.searcher = s
     \/ ~ s.finished /\ Lo(s) >= Hi(s, m) /\ st.searcher = AdvancePass(s, m)
StepOver(st, s, p, text, unread, c0, c1, t) ==
  /\ c0 \in Nat /\ c1 \in Nat
  /\ Scans(s, p, text, unread, c0, c1, st.out) /\ Moves(s, t, Len(p), c0, c1, st.out)
  /\ \/ st.searcher = t
     \/ st.searcher = AdvancePass(t, Len(p)) /\ Lo(t) >= Hi(t, Len(p))
StepIs(st, s, p, text, unread) ==
  \/ StepWithout(st, s, Len(p))
  \/ ~ s.finished /\ \E c0, c1, t : StepOver(st, s, p, text, unread, c0, c1, t)

\* A step is one of these (search.rs:78-147).
LEMMA SteppedIs ==
  ASSUME NEW p, Len(p) \in Nat \ {0}, NEW s, GoodSearcher(s, Len(p)),
         NEW text, Len(text) \in Nat, s.stop <= Len(text), NEW unread, NEW room \in Int
  PROVE  StepIs(Stepped(s, p, text, unread, room), s, p, text, unread)
<1>. DEFINE m == Len(p)
            lo == Lo(s)
            hi == Hi(s, m)
            c == CandEnd(s.start, s.stop, m)
            window == Most(1, Least(room, Window))
            c0 == IF s.backward THEN Most(Monus(hi, window), lo) ELSE lo
            c1 == IF s.backward THEN hi ELSE Least(lo + window, hi)
            out == Found(s, p, text, unread, c0, c1)
            moved == [s EXCEPT !.pos = IF s.backward THEN c0 ELSE c1,
                               !.next = IF s.backward \/ out = <<>> THEN @ ELSE out[Len(out)] + m]
            over == IF s.backward THEN c0 <= Lo(s) ELSE c1 >= Hi(s, m)
            st == Stepped(s, p, text, unread, room)
<1>1. /\ s \in Searchers /\ s.start \in Nat /\ s.stop \in Nat /\ s.origin \in Nat
      /\ s.backward \in BOOLEAN /\ s.next \in Nat /\ s.pos \in Nat /\ s.wrapped \in BOOLEAN
      /\ s.start <= s.stop /\ s.start <= s.origin /\ s.origin <= c
  BY DEF GoodSearcher, Searchers
<1>2. /\ lo \in Nat /\ hi \in Nat /\ s.start <= lo /\ lo <= c /\ hi <= c
      /\ lo < hi => hi + m - 1 <= s.stop
  BY GoodIsInRange
<1>3. s.backward => hi = s.pos
  BY DEF Hi
<1>3a. ~ s.backward => lo = s.pos
  BY DEF Lo
<1>4. CASE s.finished
  <2>1. st = [searcher |-> s, out |-> <<>>, scanned |-> 0]
    BY <1>4 DEF Stepped
  <2>2. QED
    BY <1>4, <2>1 DEF StepIs, StepWithout
<1>5. CASE ~ s.finished /\ lo >= hi
  <2>1. st = [searcher |-> AdvancePass(s, m), out |-> <<>>, scanned |-> 0]
    BY <1>5 DEF Stepped
  <2>2. QED
    BY <1>5, <2>1 DEF StepIs, StepWithout
<1>6. CASE ~ s.finished /\ lo < hi
  <2>1. window \in Nat /\ window >= 1
    BY WindowAssumption DEF Most, Least
  <2>2. c0 \in Nat /\ c1 \in Nat /\ c0 < c1 /\ lo <= c0 /\ c1 <= hi
    <3>. HIDE DEF lo, hi, window
    <3>1. QED
      BY <1>1, <1>2, <1>6, <2>1 DEF Most, Least, Monus
  <2>2a. (s.backward => c1 = s.pos) /\ (~ s.backward => c0 = s.pos)
    BY <1>3, <1>3a
  <2>. HIDE DEF c0, c1
  <2>3. Sightings(out, p, text, unread, c0, c1)
    <3>1. c0 <= c1
      BY <2>2
    <3>2. QED
      BY <1>1, <2>2, <3>1, FoundIsRight
  <2>3b. ~ s.backward => \A k \in 1 .. Len(out) : s.next <= out[k]
    <3>1. c0 <= c1
      BY <2>2
    <3>2. QED
      BY <1>1, <2>2, <3>1, FoundIsBehind
  <2>3a. WindowAnswers(out, p, text, unread, s, c0, c1, IF s.backward THEN 0 ELSE s.next)
    <3>. HIDE DEF lo, hi, c
    <3>1. s.start <= c0 /\ c0 <= c1 /\ c1 + Len(p) - 1 <= s.stop
      BY <1>1, <1>2, <1>6, <2>2
    <3>2. QED
      BY <1>1, <2>2, <3>1, FoundMissesNone
  <2>4. st = [searcher |-> IF over THEN AdvancePass(moved, m) ELSE moved, out |-> out, scanned |-> c1 - c0]
    <3>1. ~ (lo >= hi) /\ ~ s.finished
      BY <1>2, <1>6
    <3>2. st = AfterWindow(s, m, c0, c1, out)
      <4>. HIDE DEF out, over, moved
      <4>1. QED
        BY <3>1 DEF Stepped, c0, c1, out
    <3>3. QED
      BY <3>2 DEF AfterWindow
  <2>. HIDE DEF out
  <2>5. out \in Seq(Nat)
    BY <2>3 DEF Sightings
  <2>7. (IF s.backward \/ out = <<>> THEN s.next ELSE out[Len(out)] + m) \in Nat
    <3>1. out # <<>> => out[Len(out)] \in Nat
      BY <2>5
    <3>2. QED
      BY <1>1, <3>1
  <2>8. /\ SameSearch(moved, s) /\ moved.wrapped = s.wrapped /\ moved.finished = s.finished
        /\ moved.pos = IF s.backward THEN c0 ELSE c1
        /\ moved.next = IF s.backward \/ out = <<>> THEN s.next ELSE out[Len(out)] + m
    <3>. DEFINE x == IF s.backward \/ out = <<>> THEN s.next ELSE out[Len(out)] + m
                y == IF s.backward THEN c0 ELSE c1
    <3>1. moved = [s EXCEPT !.pos = y, !.next = x]
      OBVIOUS
    <3>2. x \in Nat /\ y \in Nat
      BY <2>2, <2>7
    <3>. HIDE DEF x, y, moved
    <3>3. moved \in Searchers /\ moved.pos = y /\ moved.next = x /\ moved.wrapped = s.wrapped /\ moved.finished = s.finished
      BY <1>1, <3>1, <3>2 DEF Searchers
    <3>4. SameSearch(moved, s)
      BY <1>1, <3>1, <3>3 DEF Searchers, SameSearch
    <3>5. QED
      BY <3>3, <3>4 DEF x, y
  <2>. HIDE DEF moved
  <2>9. GoodSearcher(moved, m)
    <3>. HIDE DEF lo, hi, c
    <3>1. s.start <= moved.pos /\ moved.pos <= c
      <4>1. c \in Nat
        BY <1>1, CandEndIs DEF c
      <4>2. QED
        BY <1>1, <1>2, <2>2, <2>8, <4>1
    <3>2. QED
      BY <1>1, <2>8, <3>1 DEF GoodSearcher, c, SameSearch
  <2>10. Moves(s, moved, m, c0, c1, out)
    BY <2>8, <2>9 DEF Moves
  <2>11. over => Lo(moved) >= Hi(moved, m)
    <3>1. s.backward => Lo(moved) = lo /\ Hi(moved, m) = c0
      BY <2>8 DEF Lo, Hi, SameSearch
    <3>2. ~ s.backward => Lo(moved) = c1 /\ Hi(moved, m) = hi
      BY <2>8 DEF Lo, Hi, SameSearch
    <3>3. over => (s.backward /\ c0 <= lo) \/ (~ s.backward /\ c1 >= hi)
      OBVIOUS
    <3>. HIDE DEF lo, hi, over
    <3>4. QED
      BY <1>1, <1>2, <2>2, <3>1, <3>2, <3>3
  <2>12. st.out = out /\ st.searcher = IF over THEN AdvancePass(moved, m) ELSE moved
    <3>. HIDE DEF over
    <3>1. QED
      BY <2>4
  <2>13. Scans(s, p, text, unread, c0, c1, out)
    BY <2>2, <2>2a, <2>3, <2>3a, <2>3b DEF Scans
  <2>14. \/ st.searcher = moved
         \/ st.searcher = AdvancePass(moved, m) /\ Lo(moved) >= Hi(moved, m)
    <3>. HIDE DEF over
    <3>1. QED
      BY <2>11, <2>12
  <2>. HIDE DEF st
  <2>15. StepOver(st, s, p, text, unread, c0, c1, moved)
    BY <2>2, <2>10, <2>12, <2>13, <2>14 DEF StepOver
  <2>16. QED
    BY <1>6, <2>15 DEF StepIs, st
<1>7. QED
  BY <1>1, <1>2, <1>4, <1>5, <1>6

\* The search has been past position i: in its first pass from the origin on, in
\* the second from the other end.
Passed(s, i) ==
  IF s.backward
    THEN \/ i < s.origin /\ (s.wrapped \/ s.pos <= i \/ s.finished)
         \/ s.wrapped /\ (s.pos <= i \/ s.finished)
    ELSE \/ s.origin <= i /\ (s.wrapped \/ i < s.pos \/ i < s.next \/ s.finished)
         \/ s.wrapped /\ (i < s.pos \/ i < s.next \/ s.finished)

\* The search misses nothing where it has been: every match there is answered.
Progress(out, s, p, text, unread) ==
  /\ ~ s.wrapped => IF s.backward THEN s.pos <= s.origin ELSE s.origin <= s.pos
  /\ \A i \in Occurrences(text, p, s.start, s.stop) :
       Passed(s, i) => Answered(out, p, text, unread, s.start, s.stop, i)

\* A match of the range is a candidate.
LEMMA OccurrencesAre ==
  ASSUME NEW p, Len(p) \in Nat \ {0}, NEW text, NEW start \in Nat, NEW stop \in Nat,
         NEW i \in Occurrences(text, p, start, stop)
  PROVE  /\ i \in Nat /\ start <= i /\ i + Len(p) <= stop /\ i < CandEnd(start, stop, Len(p))
         /\ Occurs(text, p, i)
  BY DEF Occurrences, CandEnd, Most, Monus

\* What is answered stays so when more is found.
LEMMA AnsweredBefore ==
  ASSUME NEW p, NEW text, NEW unread, NEW start, NEW stop, NEW i,
         NEW out \in Seq(Nat), NEW more \in Seq(Nat)
  PROVE  /\ Answered(out, p, text, unread, start, stop, i)
              => Answered(out \o more, p, text, unread, start, stop, i)
         /\ Answered(more, p, text, unread, start, stop, i)
              => Answered(out \o more, p, text, unread, start, stop, i)
<1>1. /\ out \o more \in Seq(Nat) /\ Len(out \o more) = Len(out) + Len(more)
      /\ Len(out) \in Nat /\ Len(more) \in Nat
      /\ \A k \in 1 .. Len(out) : (out \o more)[k] = out[k]
      /\ \A k \in 1 .. Len(more) : (out \o more)[Len(out) + k] = more[k]
  OBVIOUS
<1>. DEFINE z == out \o more
<1>. HIDE DEF z
<1>2. Elements(out) \subseteq Elements(z)
  <2>1. ASSUME NEW k \in 1 .. Len(out) PROVE out[k] \in Elements(z)
    <3>1. k \in 1 .. Len(z) /\ z[k] = out[k]
      BY <1>1 DEF z
    <3>2. QED
      BY <3>1 DEF Elements
  <2>2. QED
    BY <2>1 DEF Elements
<1>3. Elements(more) \subseteq Elements(z)
  <2>1. ASSUME NEW k \in 1 .. Len(more) PROVE more[k] \in Elements(z)
    <3>1. Len(out) + k \in 1 .. Len(z) /\ z[Len(out) + k] = more[k]
      BY <1>1 DEF z
    <3>2. QED
      BY <3>1 DEF Elements
  <2>2. QED
    BY <2>1 DEF Elements
<1>4. QED
  BY <1>2, <1>3 DEF Answered, z

\* The end of a pass passes no match by: those of the pass were all passed, and the
\* wrap pass begins at the other end (search.rs, advance_pass).
LEMMA AdvanceProgress ==
  ASSUME NEW p, Len(p) \in Nat \ {0}, NEW s, GoodSearcher(s, Len(p)), NEW text, NEW unread, NEW out,
         Lo(s) >= Hi(s, Len(p)), Progress(out, s, p, text, unread)
  PROVE  Progress(out, AdvancePass(s, Len(p)), p, text, unread)
<1>. DEFINE m == Len(p)
            t == AdvancePass(s, m)
            c == CandEnd(s.start, s.stop, m)
            Occ == Occurrences(text, p, s.start, s.stop)
            Ok(i) == Answered(out, p, text, unread, s.start, s.stop, i)
<1>1. /\ s.start \in Nat /\ s.stop \in Nat /\ s.origin \in Nat /\ s.pos \in Nat /\ s.next \in Nat
      /\ s.backward \in BOOLEAN /\ s.wrapped \in BOOLEAN /\ s.wrap \in BOOLEAN
      /\ s.start <= s.origin /\ s.finished \in BOOLEAN
  BY DEF GoodSearcher, Searchers
<1>2. Advances(s, t, m)
  BY AdvanceIs
<1>3. SameSearch(t, s) /\ t.pos \in Nat /\ t.next \in Nat
  BY <1>2 DEF Advances, SameSearch, Searchers
<1>4. c \in Nat
  BY <1>1, CandEndIs
<1>5. \A i \in Occ : i \in Nat /\ s.start <= i /\ i < c
  BY <1>1, OccurrencesAre
<1>6. /\ s.backward => s.pos <= (IF s.wrapped THEN s.origin ELSE s.start)
      /\ ~ s.backward => (IF s.wrapped THEN s.origin ELSE c) <= s.pos
  BY <1>1, <1>4 DEF Lo, Hi
<1>. HIDE DEF t, c, Occ, Ok
<1>7. ASSUME NEW i \in Occ, Passed(t, i) PROVE Passed(s, i)
  <2>1. i \in Nat /\ s.start <= i /\ i < c
    BY <1>5
  <2>2. CASE s.backward
    <3>1. i < s.origin => Passed(s, i)
      BY <1>1, <1>6, <2>1, <2>2 DEF Passed
    <3>2. s.wrapped => Passed(s, i)
      BY <1>1, <1>6, <2>1, <2>2 DEF Passed
    <3>3. ~ s.wrapped => i < s.origin
      <4>1. CASE s.wrap /\ ~ s.wrapped
        <5>1. t.pos = c /\ t.finished = (c <= s.origin) /\ t.origin = s.origin /\ t.backward
          BY <1>2, <2>2, <4>1 DEF Advances, SameSearch, c
        <5>2. ~ (c <= i)
          BY <1>4, <2>1
        <5>3. c <= s.origin => i < s.origin
          BY <1>1, <1>4, <2>1
        <5>4. QED
          BY <1>7, <5>1, <5>2, <5>3 DEF Passed
      <4>2. CASE ~ s.wrap
        <5>1. t.wrapped = s.wrapped /\ t.origin = s.origin /\ t.backward
          BY <1>2, <2>2, <4>2 DEF Advances, SameSearch
        <5>2. QED
          BY <1>7, <5>1 DEF Passed
      <4>3. QED
        BY <1>1, <4>1, <4>2
    <3>4. QED
      BY <3>1, <3>2, <3>3
  <2>3. CASE ~ s.backward
    <3>1. s.origin <= i => Passed(s, i)
      BY <1>1, <1>4, <1>6, <2>1, <2>3 DEF Passed
    <3>2. s.wrapped => Passed(s, i)
      BY <1>1, <1>6, <2>1, <2>3 DEF Passed
    <3>3. ~ s.wrapped => s.origin <= i
      <4>1. CASE s.wrap /\ ~ s.wrapped
        <5>1. /\ t.pos = s.start /\ t.next = s.start /\ t.finished = (s.start >= s.origin)
              /\ t.origin = s.origin /\ ~ t.backward
          BY <1>2, <2>3, <4>1 DEF Advances, SameSearch
        <5>2. ~ (i < s.start)
          BY <1>1, <2>1
        <5>3. s.start >= s.origin => s.origin <= i
          BY <1>1, <2>1
        <5>4. QED
          BY <1>7, <5>1, <5>2, <5>3 DEF Passed
      <4>2. CASE ~ s.wrap
        <5>1. t.wrapped = s.wrapped /\ t.origin = s.origin /\ ~ t.backward
          BY <1>2, <2>3, <4>2 DEF Advances, SameSearch
        <5>2. QED
          BY <1>7, <5>1 DEF Passed
      <4>3. QED
        BY <1>1, <4>1, <4>2
    <3>4. QED
      BY <3>1, <3>2, <3>3
  <2>4. QED
    BY <1>1, <2>2, <2>3
<1>8. \A i \in Occ : Passed(t, i) => Ok(i)
  <2>1. \A i \in Occ : Passed(s, i) => Ok(i)
    BY DEF Progress, Occ, Ok
  <2>2. QED
    BY <1>7, <2>1
<1>9. ~ t.wrapped => IF t.backward THEN t.pos <= t.origin ELSE t.origin <= t.pos
  <2>1. ~ t.wrapped => ~ s.wrapped /\ t.pos = s.pos
    BY <1>1, <1>2 DEF Advances
  <2>2. ~ s.wrapped => IF s.backward THEN s.pos <= s.origin ELSE s.origin <= s.pos
    BY DEF Progress
  <2>3. t.backward = s.backward /\ t.origin = s.origin
    BY <1>3 DEF SameSearch
  <2>4. QED
    BY <2>1, <2>2, <2>3
<1>10. t.start = s.start /\ t.stop = s.stop
  BY <1>3 DEF SameSearch
<1>11. QED
  BY <1>8, <1>9, <1>10 DEF Progress, Occ, Ok, t

\* What a window has been past is answered, by what was found before or in it.
LEMMA WindowProgress ==
  ASSUME NEW p, Len(p) \in Nat \ {0}, NEW s, GoodSearcher(s, Len(p)), NEW text, NEW unread,
         NEW before \in Seq(Nat), NEW out, NEW c0 \in Nat, NEW c1 \in Nat, NEW t, ~ s.finished,
         Scans(s, p, text, unread, c0, c1, out), Moves(s, t, Len(p), c0, c1, out),
         Progress(before, s, p, text, unread)
  PROVE  Progress(before \o out, t, p, text, unread)
<1>. DEFINE m == Len(p)
            Occ == Occurrences(text, p, s.start, s.stop)
            Ok(i) == Answered(before \o out, p, text, unread, s.start, s.stop, i)
<1>1. /\ s.start \in Nat /\ s.stop \in Nat /\ s.origin \in Nat /\ s.pos \in Nat /\ s.next \in Nat
      /\ s.backward \in BOOLEAN /\ s.wrapped \in BOOLEAN
  BY DEF GoodSearcher, Searchers
<1>2. /\ t.start = s.start /\ t.stop = s.stop /\ t.origin = s.origin /\ t.backward = s.backward
      /\ t.wrapped = s.wrapped /\ ~ t.finished
      /\ t.pos = IF s.backward THEN c0 ELSE c1
      /\ t.next = IF s.backward \/ out = <<>> THEN s.next ELSE out[Len(out)] + m
  BY DEF Moves, SameSearch
<1>3. /\ Lo(s) \in Nat /\ Hi(s, m) \in Nat /\ s.start <= Lo(s)
      /\ Lo(s) < Hi(s, m) => Hi(s, m) + m - 1 <= s.stop
  BY GoodIsInRange
<1>4. /\ Lo(s) <= c0 /\ c0 < c1 /\ c1 <= Hi(s, m)
      /\ s.backward => c1 = s.pos
      /\ ~ s.backward => c0 = s.pos
      /\ Sightings(out, p, text, unread, c0, c1)
      /\ WindowAnswers(out, p, text, unread, s, c0, c1, IF s.backward THEN 0 ELSE s.next)
  BY DEF Scans
<1>5. out \in Seq(Nat)
  BY <1>4 DEF Sightings
<1>6. /\ \A i : Answered(before, p, text, unread, s.start, s.stop, i) => Ok(i)
      /\ \A i : Answered(out, p, text, unread, s.start, s.stop, i) => Ok(i)
  BY <1>5, AnsweredBefore
<1>7. \A i \in Occ : i \in Nat /\ s.start <= i /\ Occurs(text, p, i)
  BY <1>1, OccurrencesAre
<1>8. \A i \in Occ : Passed(s, i) => Ok(i)
  BY <1>6 DEF Progress
<1>. HIDE DEF Occ, Ok
<1>9. \A i \in Occ : c0 <= i /\ i < c1 /\ (s.backward \/ s.next <= i) => Ok(i)
  <2>1. ASSUME NEW i \in Occ, c0 <= i, i < c1, s.backward \/ s.next <= i PROVE Ok(i)
    <3>1. i \in Nat /\ Occurs(text, p, i)
      BY <1>7
    <3>2. (IF s.backward THEN 0 ELSE s.next) <= i
      BY <2>1, <3>1
    <3>3. Answered(out, p, text, unread, s.start, s.stop, i)
      BY <1>4, <2>1, <3>1, <3>2 DEF WindowAnswers
    <3>4. QED
      BY <1>6, <3>3
  <2>2. QED
    BY <2>1
<1>10. ASSUME NEW i \in Occ, out # <<>>, c1 <= i, i < out[Len(out)] + m PROVE Ok(i)
  <2>. DEFINE j == out[Len(out)]
  <2>1. Len(out) \in 1 .. Len(out)
    BY <1>5, <1>10
  <2>2. j \in Nat /\ c0 <= j /\ j < c1 /\ Occurs(text, p, j)
    BY <1>4, <1>5, <2>1 DEF Sightings
  <2>3. j \in Elements(out)
    BY <2>1 DEF Elements
  <2>. HIDE DEF j, m
  <2>4. m \in Nat \ {0} /\ j <= i /\ i < j + m /\ i \in Nat
    BY <1>7, <1>10, <2>2 DEF j, m
  <2>5. s.start <= j /\ j + m <= s.stop
    <3>. DEFINE lo == Lo(s)
                hi == Hi(s, m)
                stop == s.stop
    <3>1. /\ lo \in Nat /\ hi \in Nat /\ s.start <= lo /\ lo <= c0 /\ c0 < c1 /\ c1 <= hi
          /\ (lo < hi => hi + m - 1 <= stop) /\ stop \in Nat
      BY <1>1, <1>3, <1>4
    <3>. HIDE DEF lo, hi, stop
    <3>2. hi + m - 1 <= stop
      BY <3>1
    <3>3. j + m <= stop /\ s.start <= j
      BY <1>1, <2>2, <2>4, <3>1, <3>2
    <3>4. QED
      BY <3>3 DEF stop
  <2>6. j \in s.start .. s.stop
    BY <1>1, <2>2, <2>4, <2>5
  <2>7. j \in Occurrences(text, p, s.start, s.stop)
    BY <2>2, <2>5, <2>6 DEF Occurrences, m
  <2>8. Answered(out, p, text, unread, s.start, s.stop, i)
    BY <2>3, <2>4, <2>7 DEF Answered, m
  <2>9. QED
    BY <1>6, <2>8
<1>11. ASSUME NEW i \in Occ, Passed(t, i) PROVE Ok(i)
  <2>1. i \in Nat
    BY <1>7
  <2>2. CASE s.backward
    <3>1. CASE c0 <= i /\ i < s.pos
      BY <1>4, <1>9, <2>2, <3>1
    <3>2. CASE ~ (c0 <= i /\ i < s.pos)
      <4>1. Passed(s, i)
        BY <1>1, <1>2, <1>11, <2>1, <2>2, <3>2 DEF Passed
      <4>2. QED
        BY <1>8, <4>1
    <3>3. QED
      BY <3>1, <3>2
  <2>3. CASE ~ s.backward
    <3>1. CASE i < s.pos \/ i < s.next
      <4>1. Passed(s, i)
        <5>1. s.origin <= i \/ s.wrapped
          BY <1>2, <1>11, <2>3 DEF Passed
        <5>2. QED
          BY <2>3, <3>1, <5>1 DEF Passed
      <4>2. QED
        BY <1>8, <4>1
    <3>2. CASE ~ (i < s.pos \/ i < s.next)
      <4>1. c0 <= i /\ s.next <= i
        BY <1>1, <1>4, <2>1, <2>3, <3>2
      <4>2. CASE i < c1
        BY <1>9, <4>1, <4>2
      <4>3. CASE ~ (i < c1)
        <5>1. CASE s.wrapped /\ s.origin <= i
          <6>1. Passed(s, i)
            BY <2>3, <5>1 DEF Passed
          <6>2. QED
            BY <1>8, <6>1
        <5>2. CASE ~ (s.wrapped /\ s.origin <= i)
          <6>1. i < t.next
            BY <1>2, <1>11, <2>3, <4>3, <5>2 DEF Passed
          <6>2. out # <<>> /\ i < out[Len(out)] + m
            BY <1>2, <2>3, <3>2, <6>1
          <6>3. c1 <= i
            BY <2>1, <4>3
          <6>4. QED
            BY <1>10, <6>2, <6>3
        <5>3. QED
          BY <5>1, <5>2
      <4>4. QED
        BY <4>2, <4>3
    <3>3. QED
      BY <3>1, <3>2
  <2>4. QED
    BY <1>1, <2>2, <2>3
<1>12. ~ t.wrapped => IF t.backward THEN t.pos <= t.origin ELSE t.origin <= t.pos
  <2>1. ~ s.wrapped => IF s.backward THEN s.pos <= s.origin ELSE s.origin <= s.pos
    BY DEF Progress
  <2>2. QED
    BY <1>1, <1>2, <1>4, <2>1
<1>13. QED
  BY <1>2, <1>11, <1>12 DEF Progress, Occ, Ok

\* A step misses nothing: what it has been past is answered (search.rs:78-147).
LEMMA SteppedProgress ==
  ASSUME NEW p, Len(p) \in Nat \ {0}, NEW s, GoodSearcher(s, Len(p)), NEW text, NEW unread,
         NEW before \in Seq(Nat), NEW st, StepIs(st, s, p, text, unread),
         Progress(before, s, p, text, unread)
  PROVE  Progress(before \o st.out, st.searcher, p, text, unread)
<1>1. CASE StepWithout(st, s, Len(p))
  <2>1. before \o st.out = before
    BY <1>1 DEF StepWithout
  <2>2. CASE st.searcher = s
    BY <2>1, <2>2
  <2>3. CASE Lo(s) >= Hi(s, Len(p)) /\ st.searcher = AdvancePass(s, Len(p))
    <3>1. Progress(before, AdvancePass(s, Len(p)), p, text, unread)
      BY <2>3, AdvanceProgress
    <3>2. QED
      BY <2>1, <2>3, <3>1
  <2>4. QED
    BY <1>1, <2>2, <2>3 DEF StepWithout
<1>2. CASE ~ s.finished /\ \E c0, c1, t : StepOver(st, s, p, text, unread, c0, c1, t)
  <2>1. PICK c0, c1, t : StepOver(st, s, p, text, unread, c0, c1, t)
    BY <1>2
  <2>2. /\ c0 \in Nat /\ c1 \in Nat
        /\ Scans(s, p, text, unread, c0, c1, st.out) /\ Moves(s, t, Len(p), c0, c1, st.out)
    BY <2>1 DEF StepOver
  <2>3. Progress(before \o st.out, t, p, text, unread)
    BY <1>2, <2>2, WindowProgress
  <2>4. CASE st.searcher = t
    BY <2>3, <2>4
  <2>5. CASE st.searcher = AdvancePass(t, Len(p)) /\ Lo(t) >= Hi(t, Len(p))
    <3>1. GoodSearcher(t, Len(p))
      BY <2>2 DEF Moves
    <3>2. Progress(before \o st.out, AdvancePass(t, Len(p)), p, text, unread)
      BY <2>3, <2>5, <3>1, AdvanceProgress
    <3>3. QED
      BY <2>5, <3>2
  <2>6. QED
    BY <2>1, <2>4, <2>5 DEF StepOver
<1>3. QED
  BY <1>1, <1>2 DEF StepIs

-----------------------------------------------------------------------------
(* The reference: left to right, each behind the one before.               *)

\* A set of naturals has a least element.
LEMMA NearestIs ==
  ASSUME NEW A \in SUBSET Nat, A # {}
  PROVE  Nearest(A) \in A /\ \A j \in A : Nearest(A) <= j
<1>1. \E i \in A : \A j \in A : i <= j
  <2>1. SUFFICES ASSUME \A i \in A : \E j \in A : ~ (i <= j) PROVE FALSE
    OBVIOUS
  <2>. DEFINE S == {k \in Nat : \A a \in A : k < a}
  <2>2. 0 \in S
    <3>1. ASSUME NEW a \in A PROVE 0 < a
      <4>1. 0 \notin A
        <5>1. \A j \in A : 0 <= j
          OBVIOUS
        <5>2. QED
          BY <2>1, <5>1
      <4>2. QED
        BY <4>1
    <3>2. QED
      BY <3>1
  <2>3. ASSUME NEW k \in Nat, k \in S PROVE k + 1 \in S
    <3>1. \A a \in A : k + 1 <= a
      BY <2>3
    <3>2. k + 1 \notin A
      BY <2>1, <3>1
    <3>3. \A a \in A : k + 1 < a
      BY <3>1, <3>2
    <3>4. QED
      BY <3>3
  <2>4. Nat \subseteq S
    <3>. HIDE DEF S
    <3>1. QED
      BY <2>2, <2>3, SetInduction
  <2>5. PICK a \in A : TRUE
    OBVIOUS
  <2>6. a \in S
    BY <2>4, <2>5
  <2>7. QED
    BY <2>6
<1>2. QED
  BY <1>1 DEF Nearest

Later(text, p, start, stop, i) == {j \in Occurrences(text, p, start, stop) : j >= i}

\* What the reference answers with from each position on.
GreedyFrom(f, text, p, start, stop) ==
  /\ f \in [Nat -> Seq(Nat)]
  /\ \A i \in Nat : f[i] = IF Later(text, p, start, stop, i) = {} THEN <<>>
                           ELSE <<Nearest(Later(text, p, start, stop, i))>>
                                  \o f[Nearest(Later(text, p, start, stop, i)) + Len(p)]
GreedySolved(text, p, start, stop) ==
  \E f : GreedyFrom(f, text, p, start, stop) /\ Greedy(text, p, start, stop) = f[start]

\* The reference's recursion has a solution, and Greedy is one of its values.
LEMMA GreedyRecursion ==
  ASSUME NEW text, NEW p, Len(p) \in Nat \ {0}, NEW start \in Nat, NEW stop \in Nat
  PROVE  GreedySolved(text, p, start, stop)
<1>. DEFINE S == Seq(Nat)
            m == Len(p)
            n == stop + 1
            Lat(i) == Later(text, p, start, stop, i)
            base == [i \in Nat |-> <<>>]
            after == [i \in Nat |-> IF Lat(i) = {} THEN i + 1 ELSE Nearest(Lat(i)) + m]
            step == [x \in Nat \X S |-> IF Lat(x[1]) = {} THEN <<>> ELSE <<Nearest(Lat(x[1]))>> \o x[2]]
            Body(f) == [i \in Nat |-> IF Lat(i) = {} THEN <<>> ELSE <<Nearest(Lat(i))>> \o f[Nearest(Lat(i)) + m]]
            c == CHOOSE f : f = Body(f)
<1>0. n \in Nat /\ m \in Nat /\ m > 0
  OBVIOUS
<1>1. \A i \in Nat : /\ Lat(i) \in SUBSET Nat
                     /\ i >= n => Lat(i) = {}
                     /\ \A j \in Lat(i) : i <= j
  BY DEF Later, Occurrences
<1>. HIDE DEF Lat
<1>2. \A i \in Nat : Lat(i) # {} => Nearest(Lat(i)) \in Nat /\ i <= Nearest(Lat(i))
  <2>1. ASSUME NEW i \in Nat, Lat(i) # {} PROVE Nearest(Lat(i)) \in Nat /\ i <= Nearest(Lat(i))
    <3>1. Nearest(Lat(i)) \in Lat(i)
      BY <1>1, <2>1, NearestIs
    <3>2. QED
      BY <1>1, <3>1
  <2>2. QED
    BY <2>1
<1>3. \A i \in Nat : after[i] \in Nat /\ i < after[i] /\ after[i] = IF Lat(i) = {} THEN i + 1 ELSE Nearest(Lat(i)) + m
  <2>1. ASSUME NEW i \in Nat PROVE after[i] \in Nat /\ i < after[i]
    <3>1. after[i] = IF Lat(i) = {} THEN i + 1 ELSE Nearest(Lat(i)) + m
      OBVIOUS
    <3>. HIDE DEF after, m
    <3>2. QED
      BY <1>0, <1>2, <3>1
  <2>2. QED
    BY <2>1
<1>4. after \in Forward
  <2>1. after = [i \in Nat |-> after[i]]
    OBVIOUS
  <2>. HIDE DEF after
  <2>2. QED
    BY <1>3, <2>1 DEF Forward
<1>5. base \in [Nat -> S]
  <2>1. <<>> \in S
    OBVIOUS
  <2>. HIDE DEF S
  <2>2. QED
    BY <2>1
<1>6. step \in [Nat \X S -> S]
  <2>1. ASSUME NEW x \in Nat, NEW s \in S
        PROVE  (IF Lat(x) = {} THEN <<>> ELSE <<Nearest(Lat(x))>> \o s) \in S
    <3>1. Lat(x) # {} => <<Nearest(Lat(x))>> \in S
      BY <1>2
    <3>2. Lat(x) # {} => <<Nearest(Lat(x))>> \o s \in S
      BY <3>1
    <3>3. <<>> \in S
      OBVIOUS
    <3>. HIDE DEF S
    <3>4. QED
      BY <3>2, <3>3
  <2>. HIDE DEF S
  <2>2. QED
    BY <2>1
<1>7. PICK f \in [Nat -> S] :
        \A i \in Nat : f[i] = IF i < n THEN step[<<i, f[after[i]]>>] ELSE base[i]
  <2>. HIDE DEF S, n, base, after, step
  <2>1. DownwardRecursions(S, n, base, after, step) # {}
    BY ONLY <1>0, <1>4, <1>5, <1>6, DownwardRecursionExists
  <2>2. QED
    BY <2>1 DEF DownwardRecursions
<1>8. ASSUME NEW i \in Nat PROVE f[i] = Body(f)[i]
  <2>1. after[i] \in Nat
    BY <1>3
  <2>2. f[after[i]] \in S
    <3>. HIDE DEF after, S
    <3>1. QED
      BY <2>1
  <2>3. i < n => f[i] = IF Lat(i) = {} THEN <<>> ELSE <<Nearest(Lat(i))>> \o f[after[i]]
    <3>1. i < n => f[i] = step[<<i, f[after[i]]>>]
      <4>. HIDE DEF after, S, step, n
      <4>1. QED
        BY <1>7
    <3>2. step[<<i, f[after[i]]>>] = IF Lat(i) = {} THEN <<>> ELSE <<Nearest(Lat(i))>> \o f[after[i]]
      <4>. DEFINE z == f[after[i]]
      <4>1. z \in S
        BY <2>2
      <4>. HIDE DEF S, z
      <4>2. <<i, z>> \in Nat \X S
        BY <4>1
      <4>3. step[<<i, z>>] = IF Lat(i) = {} THEN <<>> ELSE <<Nearest(Lat(i))>> \o z
        BY <4>2
      <4>4. QED
        BY <4>3 DEF z
    <3>3. QED
      BY <3>1, <3>2
  <2>4. ~ (i < n) => f[i] = <<>> /\ Lat(i) = {}
    <3>1. ~ (i < n) => f[i] = base[i]
      <4>. HIDE DEF after, S, step, n, base
      <4>1. QED
        BY <1>7
    <3>2. ~ (i < n) => i >= n
      BY <1>0
    <3>3. QED
      BY <1>1, <3>1, <3>2
  <2>5. Lat(i) # {} => after[i] = Nearest(Lat(i)) + m
    BY <1>3
  <2>6. f[i] = IF Lat(i) = {} THEN <<>> ELSE <<Nearest(Lat(i))>> \o f[Nearest(Lat(i)) + m]
    <3>. HIDE DEF after, n, m
    <3>1. QED
      BY <2>3, <2>4, <2>5
  <2>7. QED
    BY <2>6
<1>9. f = Body(f)
  <2>1. f = [i \in Nat |-> f[i]]
    OBVIOUS
  <2>2. Body(f) = [i \in Nat |-> Body(f)[i]]
    OBVIOUS
  <2>. HIDE DEF Body
  <2>3. QED
    BY <1>8, <2>1, <2>2
<1>10. c = Body(c)
  <2>. HIDE DEF Body
  <2>1. QED
    BY <1>9
<1>11. Greedy(text, p, start, stop) = c[start]
  BY DEF Greedy, Lat, Later
<1>12. \A i \in Nat : c[i] = IF Lat(i) = {} THEN <<>> ELSE <<Nearest(Lat(i))>> \o c[Nearest(Lat(i)) + m]
  <2>1. \A i \in Nat : c[i] = Body(c)[i]
    <3>. HIDE DEF Body, c
    <3>1. QED
      BY <1>10
  <2>. HIDE DEF c
  <2>2. QED
    BY <2>1
<1>13. c \in [Nat -> Seq(Nat)]
  <2>1. c = [i \in Nat |-> c[i]]
    <3>1. Body(c) = [i \in Nat |-> Body(c)[i]]
      OBVIOUS
    <3>. HIDE DEF Body, c
    <3>2. QED
      BY <1>10, <3>1
  <2>. HIDE DEF c
  <2>. DEFINE T == {k \in Nat : \A i \in Nat : n <= i + k => c[i] \in Seq(Nat)}
  <2>2. 0 \in T
    <3>1. ASSUME NEW i \in Nat, n <= i + 0 PROVE c[i] \in Seq(Nat)
      <4>1. i >= n
        BY <1>0, <3>1
      <4>2. c[i] = <<>>
        BY <1>1, <1>12, <4>1
      <4>3. QED
        BY <4>2
    <3>2. QED
      BY <3>1
  <2>3. ASSUME NEW k \in Nat, k \in T PROVE k + 1 \in T
    <3>1. ASSUME NEW i \in Nat, n <= i + (k + 1) PROVE c[i] \in Seq(Nat)
      <4>1. CASE Lat(i) = {}
        <5>1. c[i] = <<>>
          BY <1>12, <4>1
        <5>2. QED
          BY <5>1
      <4>2. CASE Lat(i) # {}
        <5>. DEFINE x == Nearest(Lat(i))
        <5>1. x \in Nat /\ i <= x
          BY <1>2, <4>2
        <5>2. c[i] = <<x>> \o c[x + m]
          BY <1>12, <4>2
        <5>. HIDE DEF x, n, m
        <5>3. x + m \in Nat /\ n <= (x + m) + k
          BY <1>0, <3>1, <5>1
        <5>4. c[x + m] \in Seq(Nat)
          BY <2>3, <5>3
        <5>5. QED
          BY <5>1, <5>2, <5>4
      <4>3. QED
        BY <4>1, <4>2
    <3>2. QED
      BY <3>1
  <2>4. n \in T
    <3>. HIDE DEF T
    <3>1. Nat \subseteq T
      BY <2>2, <2>3, SetInduction
    <3>2. QED
      BY <1>0, <3>1
  <2>5. \A i \in Nat : c[i] \in Seq(Nat)
    BY <1>0, <2>4
  <2>6. QED
    BY <2>1, <2>5
<1>. HIDE DEF c, Body
<1>14. GreedyFrom(c, text, p, start, stop)
  BY <1>12, <1>13 DEF GreedyFrom, Lat
<1>15. QED
  BY <1>11, <1>14 DEF GreedySolved

\* What a search that misses nothing has found so far: matches of the range, in
\* order and apart, and every match up to the last of them lies under one.
FoundSoFar(out, text, p, start, stop) ==
  /\ out \in Seq(Nat)
  /\ \A k \in 1 .. Len(out) : out[k] \in Occurrences(text, p, start, stop)
  /\ \A k \in 1 .. Len(out) - 1 : out[k] + Len(p) <= out[k + 1]
  /\ \A k \in 1 .. Len(out), i \in Occurrences(text, p, start, stop) :
       i < out[k] => Under(out, Len(p), i)

\* long begins with out, and is out where out is complete.
BeginsWith(long, out, complete) ==
  /\ long \in Seq(Nat)
  /\ Len(out) <= Len(long) /\ \A l \in 1 .. Len(out) : long[l] = out[l]
  /\ complete => Len(long) = Len(out)

\* Such a search has found what the reference begins with, and all of it when it
\* has found everything.
LEMMA GreedyBegins ==
  ASSUME NEW text, NEW p, Len(p) \in Nat \ {0}, NEW start \in Nat, NEW stop \in Nat,
         NEW out, FoundSoFar(out, text, p, start, stop)
  PROVE  BeginsWith(Greedy(text, p, start, stop), out,
                    \A i \in Occurrences(text, p, start, stop) : Under(out, Len(p), i))
<1>0. PICK f : GreedyFrom(f, text, p, start, stop) /\ Greedy(text, p, start, stop) = f[start]
  <2>1. GreedySolved(text, p, start, stop)
    BY GreedyRecursion
  <2>2. QED
    BY <2>1 DEF GreedySolved
<1>. DEFINE m == Len(p)
            K == Len(out)
            Occ == Occurrences(text, p, start, stop)
            Lat(i) == Later(text, p, start, stop, i)
            Pos(k) == IF k = 0 THEN start ELSE out[k] + m
            G == f[start]
<1>1. /\ f \in [Nat -> Seq(Nat)]
      /\ \A i \in Nat : f[i] = IF Lat(i) = {} THEN <<>> ELSE <<Nearest(Lat(i))>> \o f[Nearest(Lat(i)) + m]
  BY <1>0 DEF GreedyFrom
<1>2. m \in Nat /\ m > 0 /\ K \in Nat /\ out \in [1 .. K -> Nat]
  BY DEF FoundSoFar
<1>3. /\ \A k \in 1 .. K : out[k] \in Occ
      /\ \A k \in 1 .. K - 1 : out[k] + m <= out[k + 1]
      /\ \A k \in 1 .. K, i \in Occ : i < out[k] => Under(out, m, i)
  BY DEF FoundSoFar
<1>4. \A i \in Occ : i \in Nat /\ start <= i
  BY DEF Occurrences
<1>5. \A k \in 1 .. K : \A l \in 1 .. k - 1 : out[l] + m <= out[k]
  <2>. HIDE DEF m, K
  <2>1. QED
    BY <1>2, <1>3, Growing
<1>6. \A i \in Nat : Lat(i) = {j \in Occ : j >= i} /\ Lat(i) \in SUBSET Nat
  BY DEF Later, Occurrences
<1>. HIDE DEF Lat, Occ
<1>7. \A k \in 0 .. K : Pos(k) \in Nat
  BY <1>2
<1>8. ASSUME NEW k \in Nat, k < K
      PROVE  f[Pos(k)] = <<out[k + 1]>> \o f[Pos(k + 1)]
  <2>. DEFINE x == out[k + 1]
              q == Pos(k)
  <2>1. k + 1 \in 1 .. K /\ k \in 0 .. K /\ k + 1 # 0
    BY <1>2, <1>8
  <2>2. x \in Occ /\ x \in Nat /\ q \in Nat
    BY <1>2, <1>3, <1>7, <2>1
  <2>3. q <= x
    <3>1. CASE k = 0
      BY <1>4, <2>2, <3>1
    <3>2. CASE k # 0
      <4>1. k \in 1 .. (k + 1) - 1
        BY <3>2
      <4>2. out[k] + m <= out[k + 1]
        BY <1>5, <2>1, <4>1
      <4>3. QED
        BY <3>2, <4>2
    <3>3. QED
      BY <3>1, <3>2
  <2>4. x \in Lat(q)
    BY <1>6, <2>2, <2>3
  <2>5. ASSUME NEW j \in Lat(q) PROVE x <= j
    <3>1. j \in Occ /\ j >= q /\ j \in Nat
      BY <1>4, <1>6, <2>2
    <3>2. SUFFICES ASSUME j < x PROVE FALSE
      BY <2>2, <3>1
    <3>3. Under(out, m, j)
      BY <1>3, <2>1, <3>1, <3>2
    <3>4. PICK l \in 1 .. K : out[l] <= j /\ j < out[l] + m
      BY <3>3 DEF Under
    <3>5. CASE l >= k + 1
      <4>1. x <= out[l]
        <5>1. CASE l = k + 1
          BY <2>2, <5>1
        <5>2. CASE l # k + 1
          <6>1. k + 1 \in 1 .. l - 1
            BY <3>5, <5>2
          <6>2. out[k + 1] + m <= out[l] /\ out[k + 1] \in Nat /\ out[l] \in Nat
            BY <1>2, <1>5, <2>1, <6>1
          <6>3. QED
            BY <1>2, <6>2
        <5>3. QED
          BY <5>1, <5>2
      <4>2. out[l] \in Nat
        BY <1>2
      <4>3. QED
        BY <2>2, <3>1, <3>2, <3>4, <4>1, <4>2
    <3>6. CASE l <= k
      <4>1. k # 0 /\ k \in 1 .. K /\ out[l] \in Nat /\ out[k] \in Nat
        BY <1>2, <2>1, <3>6
      <4>2. out[l] <= out[k]
        <5>1. CASE l = k
          BY <4>1, <5>1
        <5>2. CASE l # k
          <6>1. l \in 1 .. k - 1
            BY <3>6, <5>2
          <6>2. out[l] + m <= out[k]
            BY <1>5, <4>1, <6>1
          <6>3. QED
            BY <1>2, <4>1, <6>2
        <5>3. QED
          BY <5>1, <5>2
      <4>3. q = out[k] + m
        BY <4>1
      <4>4. QED
        BY <1>2, <3>1, <3>4, <4>1, <4>2, <4>3
    <3>7. QED
      BY <3>5, <3>6
  <2>6. Nearest(Lat(q)) = x
    <3>1. Lat(q) # {} /\ Lat(q) \in SUBSET Nat
      BY <1>6, <2>2, <2>4
    <3>2. Nearest(Lat(q)) \in Lat(q) /\ Nearest(Lat(q)) <= x
      BY <2>4, <3>1, NearestIs
    <3>3. x <= Nearest(Lat(q)) /\ Nearest(Lat(q)) \in Nat
      BY <2>5, <3>1, <3>2
    <3>4. QED
      BY <2>2, <3>2, <3>3
  <2>7. f[q] = <<x>> \o f[x + m]
    BY <1>1, <2>2, <2>4, <2>6
  <2>8. Pos(k + 1) = x + m
    BY <2>1
  <2>9. QED
    BY <2>7, <2>8
<1>. DEFINE Begun(k) == LET g == f[Pos(k)]
                        IN  /\ Len(G) = k + Len(g)
                            /\ \A l \in 1 .. k : G[l] = out[l]
                            /\ \A l \in 1 .. Len(g) : G[k + l] = g[l]
            Q == {k \in Nat : k <= K => Begun(k)}
<1>9. G \in Seq(Nat) /\ Len(G) \in Nat
  BY <1>1
<1>. HIDE DEF G
<1>10. 0 \in Q
  <2>1. Pos(0) = start /\ f[start] = G
    BY DEF G
  <2>. HIDE DEF Pos
  <2>2. /\ Len(G) = 0 + Len(G)
        /\ \A l \in 1 .. 0 : G[l] = out[l]
        /\ \A l \in 1 .. Len(G) : G[0 + l] = G[l]
    BY <1>9
  <2>3. Begun(0)
    BY <2>1, <2>2
  <2>. HIDE DEF Begun
  <2>4. QED
    BY <2>3
<1>11. ASSUME NEW k \in Nat, k \in Q PROVE k + 1 \in Q
  <2>1. SUFFICES ASSUME k + 1 <= K PROVE Begun(k + 1)
    <3>. HIDE DEF Begun
    <3>1. QED
      OBVIOUS
  <2>. DEFINE g == f[Pos(k)]
              h == f[Pos(k + 1)]
              x == out[k + 1]
  <2>2. Begun(k)
    <3>. HIDE DEF Begun
    <3>1. QED
      BY <1>2, <1>11, <2>1
  <2>3. g = <<x>> \o h
    <3>1. k < K
      BY <1>2, <2>1
    <3>. HIDE DEF Pos
    <3>2. QED
      BY <1>8, <3>1
  <2>4. h \in Seq(Nat) /\ x \in Nat
    <3>1. Pos(k + 1) \in Nat /\ k + 1 \in 1 .. K
      BY <1>2, <1>7, <2>1
    <3>. HIDE DEF Pos
    <3>2. QED
      BY <1>1, <1>2, <3>1
  <2>. HIDE DEF g, h, x
  <2>5. /\ Len(g) = Len(h) + 1 /\ g[1] = x /\ Len(h) \in Nat
        /\ \A l \in 1 .. Len(h) : g[l + 1] = h[l]
    BY <2>3, <2>4
  <2>6. /\ Len(G) = k + Len(g)
        /\ \A l \in 1 .. k : G[l] = out[l]
        /\ \A l \in 1 .. Len(g) : G[k + l] = g[l]
    BY <2>2 DEF g
  <2>7. Len(G) = (k + 1) + Len(h)
    BY <2>5, <2>6
  <2>8. ASSUME NEW l \in 1 .. k + 1 PROVE G[l] = out[l]
    <3>1. CASE l = k + 1
      <4>1. 1 \in 1 .. Len(g)
        BY <2>5
      <4>2. G[k + 1] = g[1]
        BY <2>6, <4>1
      <4>3. QED
        BY <2>5, <3>1, <4>2 DEF x
    <3>2. CASE l # k + 1
      <4>1. l \in 1 .. k
        BY <3>2
      <4>2. QED
        BY <2>6, <4>1
    <3>3. QED
      BY <3>1, <3>2
  <2>9. ASSUME NEW l \in 1 .. Len(h) PROVE G[(k + 1) + l] = h[l]
    <3>1. l + 1 \in 1 .. Len(g) /\ (k + 1) + l = k + (l + 1)
      BY <2>5
    <3>2. G[k + (l + 1)] = g[l + 1]
      BY <2>6, <3>1
    <3>3. QED
      BY <2>5, <3>1, <3>2
  <2>10. QED
    BY <2>7, <2>8, <2>9 DEF h
<1>12. Begun(K)
  <2>1. K \in Q
    <3>. HIDE DEF Q
    <3>1. Nat \subseteq Q
      BY <1>10, <1>11, SetInduction
    <3>2. QED
      BY <1>2, <3>1
  <2>. HIDE DEF Begun
  <2>2. QED
    BY <1>2, <2>1
<1>13. f[Pos(K)] \in Seq(Nat) /\ Len(f[Pos(K)]) \in Nat
  <2>1. Pos(K) \in Nat
    BY <1>2, <1>7
  <2>. HIDE DEF Pos
  <2>2. QED
    BY <1>1, <2>1
<1>14. ASSUME \A i \in Occ : Under(out, m, i) PROVE f[Pos(K)] = <<>>
  <2>1. ASSUME NEW j \in Occ, j >= Pos(K) PROVE FALSE
    <3>1. PICK l \in 1 .. K : out[l] <= j /\ j < out[l] + m
      BY <1>14 DEF Under
    <3>2. K # 0 /\ K \in 1 .. K /\ out[l] \in Nat /\ out[K] \in Nat /\ j \in Nat
      BY <1>2, <1>4
    <3>3. out[l] <= out[K]
      <4>1. CASE l = K
        BY <3>2, <4>1
      <4>2. CASE l # K
        <5>1. l \in 1 .. K - 1
          BY <4>2
        <5>2. out[l] + m <= out[K]
          BY <1>5, <3>2, <5>1
        <5>3. QED
          BY <1>2, <3>2, <5>2
      <4>3. QED
        BY <4>1, <4>2
    <3>4. Pos(K) = out[K] + m
      BY <3>2
    <3>5. QED
      BY <1>2, <2>1, <3>1, <3>2, <3>3, <3>4
  <2>2. Pos(K) \in Nat
    BY <1>2, <1>7
  <2>. HIDE DEF Pos
  <2>3. Lat(Pos(K)) = {}
    BY <1>6, <2>1, <2>2
  <2>4. QED
    BY <1>1, <2>2, <2>3
<1>15. Len(G) = K + Len(f[Pos(K)]) /\ \A l \in 1 .. K : G[l] = out[l]
  BY <1>12
<1>16. (\A i \in Occ : Under(out, m, i)) => Len(G) = K
  <2>1. SUFFICES ASSUME \A i \in Occ : Under(out, m, i) PROVE Len(G) = K
    OBVIOUS
  <2>2. Len(f[Pos(K)]) = 0
    <3>1. f[Pos(K)] = <<>>
      BY <1>14, <2>1
    <3>. HIDE DEF Pos
    <3>2. QED
      BY <3>1
  <2>. HIDE DEF Pos
  <2>3. QED
    BY <1>2, <1>15, <2>2
<1>17. K <= Len(G)
  <2>. HIDE DEF Pos
  <2>1. QED
    BY <1>2, <1>9, <1>13, <1>15
<1>18. QED
  BY <1>0, <1>9, <1>15, <1>16, <1>17 DEF BeginsWith, G, Occ

-----------------------------------------------------------------------------
(* From step to step: "find all", and Next and Previous. *)

\* A search wraps only if it was asked to, and ends without wrapping only where it
\* has nothing to look at.
Wraps(s, m) ==
  /\ s.wrapped => s.wrap
  /\ s.finished /\ s.wrap => s.wrapped \/ s.start >= CandEnd(s.start, s.stop, m)

\* The end of a pass, seen so (search.rs, advance_pass).
LEMMA AdvanceWraps ==
  ASSUME NEW m \in Nat \ {0}, NEW s, GoodSearcher(s, m), Wraps(s, m)
  PROVE  SameSearch(AdvancePass(s, m), s) /\ Wraps(AdvancePass(s, m), m)
<1>. DEFINE t == AdvancePass(s, m)
<1>1. Advances(s, t, m)
  BY AdvanceIs
<1>2. s.wrapped \in BOOLEAN /\ s.wrap \in BOOLEAN /\ s.backward \in BOOLEAN
  BY DEF GoodSearcher, Searchers
<1>. HIDE DEF t
<1>3. SameSearch(t, s)
  BY <1>1 DEF Advances
<1>4. t.wrapped => t.wrap
  BY <1>1, <1>2 DEF Advances, SameSearch, Wraps
<1>5. t.finished /\ t.wrap => t.wrapped
  BY <1>1, <1>2 DEF Advances, SameSearch, Wraps
<1>6. QED
  BY <1>3, <1>4, <1>5 DEF Wraps, t

\* A step keeps the range, the origin and the direction (search.rs:78-147).
LEMMA StepSame ==
  ASSUME NEW p, Len(p) \in Nat \ {0}, NEW s, GoodSearcher(s, Len(p)), Wraps(s, Len(p)),
         NEW text, NEW unread, NEW st, StepIs(st, s, p, text, unread)
  PROVE  SameSearch(st.searcher, s) /\ Wraps(st.searcher, Len(p))
<1>. DEFINE m == Len(p)
<1>1. SameSearch(s, s)
  BY DEF SameSearch, GoodSearcher
<1>2. CASE StepWithout(st, s, m)
  <2>1. st.searcher = s \/ st.searcher = AdvancePass(s, m)
    BY <1>2 DEF StepWithout
  <2>2. SameSearch(AdvancePass(s, m), s) /\ Wraps(AdvancePass(s, m), m)
    BY AdvanceWraps
  <2>3. QED
    BY <1>1, <2>1, <2>2
<1>3. CASE ~ s.finished /\ \E c0, c1, t : StepOver(st, s, p, text, unread, c0, c1, t)
  <2>1. PICK c0, c1, t : StepOver(st, s, p, text, unread, c0, c1, t)
    BY <1>3
  <2>2. /\ Moves(s, t, m, c0, c1, st.out)
        /\ st.searcher = t \/ st.searcher = AdvancePass(t, m)
    BY <2>1 DEF StepOver
  <2>3. GoodSearcher(t, m) /\ SameSearch(t, s) /\ t.wrapped = s.wrapped /\ t.finished = s.finished
    BY <2>2 DEF Moves
  <2>4. Wraps(t, m)
    BY <2>3 DEF Wraps, SameSearch
  <2>5. SameSearch(AdvancePass(t, m), t) /\ Wraps(AdvancePass(t, m), m)
    BY <2>3, <2>4, AdvanceWraps
  <2>6. SameSearch(AdvancePass(t, m), s)
    BY <2>3, <2>5 DEF SameSearch
  <2>7. QED
    BY <2>2, <2>3, <2>4, <2>5, <2>6
<1>4. QED
  BY <1>2, <1>3 DEF StepIs

\* What "find all" has listed: matches of the range, in order and apart, and behind
\* the last of them the search goes on.
Listing(out, s, p, text) ==
  /\ ~ s.backward /\ ~ s.wrap /\ ~ s.wrapped /\ s.origin = s.start
  /\ out \in Seq(Nat)
  /\ \A k \in 1 .. Len(out) :
       out[k] \in Occurrences(text, p, s.start, s.stop) /\ out[k] + Len(p) <= s.next
  /\ \A k \in 1 .. Len(out) - 1 : out[k] + Len(p) <= out[k + 1]

\* The end of the pass lists nothing more.
LEMMA AdvanceListing ==
  ASSUME NEW p, Len(p) \in Nat \ {0}, NEW s, GoodSearcher(s, Len(p)), NEW text,
         NEW out, Listing(out, s, p, text)
  PROVE  Listing(out, AdvancePass(s, Len(p)), p, text)
<1>. DEFINE t == AdvancePass(s, Len(p))
<1>1. Advances(s, t, Len(p))
  BY AdvanceIs
<1>. HIDE DEF t
<1>2. SameSearch(t, s) /\ t.next = s.next /\ t.wrapped = s.wrapped
  BY <1>1 DEF Advances, Listing
<1>3. QED
  BY <1>2 DEF Listing, SameSearch, t

\* What a window finds lies behind what is listed, and is listed (drive.rs:51-75).
LEMMA WindowListing ==
  ASSUME NEW p, Len(p) \in Nat \ {0}, NEW s, GoodSearcher(s, Len(p)), NEW text, NEW unread,
         NEW before, Listing(before, s, p, text), NEW out, NEW c0 \in Nat, NEW c1 \in Nat, NEW t,
         Scans(s, p, text, unread, c0, c1, out), Moves(s, t, Len(p), c0, c1, out)
  PROVE  Listing(before \o out, t, p, text)
<1>. DEFINE m == Len(p)
            all == before \o out
            Occ == Occurrences(text, p, s.start, s.stop)
            n == s.next
<1>1. /\ ~ s.backward /\ ~ s.wrap /\ ~ s.wrapped /\ s.origin = s.start
      /\ before \in Seq(Nat)
      /\ \A k \in 1 .. Len(before) : before[k] \in Occ /\ before[k] + m <= n
      /\ \A k \in 1 .. Len(before) - 1 : before[k] + m <= before[k + 1]
  BY DEF Listing
<1>2. /\ SameSearch(t, s) /\ t.wrapped = s.wrapped
      /\ t.next = IF out = <<>> THEN n ELSE out[Len(out)] + m
  BY <1>1 DEF Moves
<1>3. /\ Lo(s) <= c0 /\ c0 < c1 /\ c1 <= Hi(s, m)
      /\ Sightings(out, p, text, unread, c0, c1)
      /\ \A k \in 1 .. Len(out) : n <= out[k]
  BY <1>1 DEF Scans
<1>4. /\ out \in Seq(Nat)
      /\ \A k \in 1 .. Len(out) : c0 <= out[k] /\ out[k] < c1 /\ Occurs(text, p, out[k])
      /\ \A k \in 1 .. Len(out) - 1 : out[k] + m <= out[k + 1]
  BY <1>3 DEF Sightings
<1>5. m \in Nat \ {0} /\ n \in Nat /\ s.start \in Nat /\ s.stop \in Nat
  BY DEF GoodSearcher, Searchers
<1>6. /\ Lo(s) \in Nat /\ Hi(s, m) \in Nat /\ s.start <= Lo(s)
      /\ Lo(s) < Hi(s, m) => Hi(s, m) + m - 1 <= s.stop
  BY GoodIsInRange
<1>7. ASSUME NEW k \in 1 .. Len(out) PROVE out[k] \in Occ
  <2>. DEFINE x == out[k]
              lo == Lo(s)
              hi == Hi(s, m)
              a == s.start
              b == s.stop
  <2>1. /\ x \in Nat /\ c0 <= x /\ x < c1 /\ Occurs(text, p, x) /\ lo <= c0 /\ c1 <= hi
        /\ lo \in Nat /\ hi \in Nat /\ a <= lo /\ (lo < hi => hi + m - 1 <= b) /\ a \in Nat /\ b \in Nat
    BY <1>3, <1>4, <1>5, <1>6
  <2>. HIDE DEF x, lo, hi, a, b, m
  <2>2. x \in a .. b /\ x + m <= b
    BY <1>5, <2>1
  <2>3. QED
    BY <2>1, <2>2 DEF Occurrences, x, a, b, m
<1>. HIDE DEF Occ, m, n
<1>8. /\ all \in Seq(Nat) /\ Len(all) = Len(before) + Len(out) /\ Len(before) \in Nat /\ Len(out) \in Nat
      /\ \A k \in 1 .. Len(before) : all[k] = before[k]
      /\ \A k \in 1 .. Len(out) : all[Len(before) + k] = out[k]
  BY <1>1, <1>4
<1>9. /\ \A k \in 1 .. Len(before) : before[k] \in Nat
      /\ \A k \in 1 .. Len(out) : out[k] \in Nat
  BY <1>1, <1>4
<1>. DEFINE B == Len(before)
            O == Len(out)
<1>10. \A k \in 1 .. B + O : k \in 1 .. B \/ (k - B \in 1 .. O /\ k = B + (k - B))
  BY <1>8
<1>. HIDE DEF all, B, O
<1>11. n <= t.next
  <2>1. CASE out = <<>>
    BY <1>2, <1>5, <2>1
  <2>2. CASE out # <<>>
    <3>1. O \in 1 .. O
      BY <1>4, <2>2 DEF O
    <3>2. n <= out[O] /\ out[O] \in Nat /\ t.next = out[O] + m
      BY <1>2, <1>3, <1>9, <2>2, <3>1 DEF O
    <3>3. QED
      BY <1>5, <3>2
  <2>3. QED
    BY <2>1, <2>2
<1>12. ASSUME NEW k \in 1 .. O PROVE out[k] + m <= t.next
  <2>1. k \in 1 .. O /\ O \in 1 .. O /\ out # <<>> /\ O \in Nat
    BY <1>8 DEF O
  <2>2. t.next = out[O] + m /\ out[k] \in Nat /\ out[O] \in Nat
    BY <1>2, <1>9, <2>1 DEF O
  <2>3. CASE k = O
    BY <1>5, <2>2, <2>3
  <2>4. CASE k # O
    <3>1. k \in 1 .. O - 1
      BY <2>1, <2>4
    <3>2. out[k] + m <= out[O]
      <4>1. out \in [1 .. O -> Nat] /\ \A l \in 1 .. O - 1 : out[l] + m <= out[l + 1]
        BY <1>4 DEF O
      <4>2. \A l \in 1 .. O : \A i \in 1 .. l - 1 : out[i] + m <= out[l]
        BY <1>5, <2>1, <4>1, Growing
      <4>3. QED
        BY <2>1, <3>1, <4>2
    <3>3. QED
      BY <1>5, <2>2, <3>2
  <2>5. QED
    BY <2>3, <2>4
<1>13. ASSUME NEW k \in 1 .. Len(all) PROVE all[k] \in Occ /\ all[k] + m <= t.next
  <2>1. k \in 1 .. B \/ (k - B \in 1 .. O /\ k = B + (k - B))
    BY <1>8, <1>10 DEF B, O
  <2>2. CASE k \in 1 .. B
    <3>1. all[k] = before[k] /\ before[k] \in Occ /\ before[k] + m <= n /\ before[k] \in Nat
      BY <1>1, <1>8, <1>9, <2>2 DEF B, Occ, m, n
    <3>2. t.next \in Nat
      BY <1>2 DEF SameSearch, Searchers
    <3>3. QED
      BY <1>5, <1>11, <3>1, <3>2
  <2>3. CASE k - B \in 1 .. O /\ k = B + (k - B)
    <3>1. all[B + (k - B)] = out[k - B]
      BY <1>8, <2>3 DEF B, O
    <3>2. all[k] = out[k - B]
      BY <2>3, <3>1
    <3>3. QED
      BY <1>7, <1>12, <2>3, <3>2 DEF O, Occ
  <2>4. QED
    BY <2>1, <2>2, <2>3
<1>14. ASSUME NEW k \in 1 .. Len(all) - 1 PROVE all[k] + m <= all[k + 1]
  <2>0. Len(all) = B + O /\ B \in Nat /\ O \in Nat
    BY <1>8 DEF B, O
  <2>1. \/ k \in 1 .. B - 1 /\ k \in 1 .. B /\ k + 1 \in 1 .. B
        \/ k = B /\ k \in 1 .. B /\ 1 \in 1 .. O
        \/ k - B \in 1 .. O - 1 /\ k - B \in 1 .. O /\ (k - B) + 1 \in 1 .. O
             /\ B + (k - B) = k /\ B + ((k - B) + 1) = k + 1
    BY <2>0
  <2>2. CASE k \in 1 .. B - 1 /\ k \in 1 .. B /\ k + 1 \in 1 .. B
    BY <1>1, <1>8, <2>2 DEF B, m
  <2>3. CASE k = B /\ k \in 1 .. B /\ 1 \in 1 .. O
    <3>1. all[k] = before[k] /\ all[k + 1] = out[1] /\ before[k] + m <= n /\ n <= out[1]
      BY <1>1, <1>3, <1>8, <2>3 DEF B, O, m, n
    <3>2. before[k] \in Nat /\ out[1] \in Nat
      BY <1>9, <2>3 DEF B, O
    <3>3. QED
      BY <1>5, <3>1, <3>2
  <2>4. CASE k - B \in 1 .. O - 1 /\ k - B \in 1 .. O /\ (k - B) + 1 \in 1 .. O
             /\ B + (k - B) = k /\ B + ((k - B) + 1) = k + 1
    <3>. DEFINE l == k - B
    <3>1. l \in 1 .. O - 1 /\ l \in 1 .. O /\ l + 1 \in 1 .. O /\ B + l = k /\ B + (l + 1) = k + 1
      BY <2>4
    <3>. HIDE DEF l
    <3>2. all[B + l] = out[l] /\ all[B + (l + 1)] = out[l + 1]
      BY <1>8, <3>1 DEF B, O
    <3>3. out[l] + m <= out[l + 1]
      BY <1>4, <3>1 DEF O, m
    <3>4. QED
      BY <3>1, <3>2, <3>3
  <2>5. QED
    BY <2>1, <2>2, <2>3, <2>4
<1>15. Occ = Occurrences(text, p, t.start, t.stop)
  BY <1>2 DEF SameSearch, Occ
<1>16. ~ t.backward /\ ~ t.wrap /\ ~ t.wrapped /\ t.origin = t.start
  BY <1>1, <1>2 DEF SameSearch
<1>17. Listing(all, t, p, text)
  BY <1>8, <1>13, <1>14, <1>15, <1>16 DEF Listing, m
<1>18. QED
  BY <1>17 DEF all

\* A step lists what it finds (drive.rs:51-75).
LEMMA SteppedListing ==
  ASSUME NEW p, Len(p) \in Nat \ {0}, NEW s, GoodSearcher(s, Len(p)), NEW text, NEW unread,
         NEW before, Listing(before, s, p, text), NEW st, StepIs(st, s, p, text, unread)
  PROVE  Listing(before \o st.out, st.searcher, p, text)
<1>1. CASE StepWithout(st, s, Len(p))
  <2>1. before \o st.out = before
    BY <1>1 DEF StepWithout, Listing
  <2>2. st.searcher = s \/ st.searcher = AdvancePass(s, Len(p))
    BY <1>1 DEF StepWithout
  <2>3. Listing(before, AdvancePass(s, Len(p)), p, text)
    BY AdvanceListing
  <2>4. QED
    BY <2>1, <2>2, <2>3
<1>2. CASE ~ s.finished /\ \E c0, c1, t : StepOver(st, s, p, text, unread, c0, c1, t)
  <2>1. PICK c0, c1, t : StepOver(st, s, p, text, unread, c0, c1, t)
    BY <1>2
  <2>2. /\ c0 \in Nat /\ c1 \in Nat
        /\ Scans(s, p, text, unread, c0, c1, st.out) /\ Moves(s, t, Len(p), c0, c1, st.out)
        /\ st.searcher = t \/ st.searcher = AdvancePass(t, Len(p))
    BY <2>1 DEF StepOver
  <2>3. Listing(before \o st.out, t, p, text)
    BY <2>2, WindowListing
  <2>4. GoodSearcher(t, Len(p))
    BY <2>2 DEF Moves
  <2>5. Listing(before \o st.out, AdvancePass(t, Len(p)), p, text)
    BY <2>3, <2>4, AdvanceListing
  <2>6. QED
    BY <2>2, <2>3, <2>5
<1>3. QED
  BY <1>1, <1>2 DEF StepIs

\* Everything is read: then what was answered lies under what was found.
LEMMA AllRead ==
  ASSUME NEW out, NEW p, NEW text, NEW start, NEW stop, NEW i,
         Answered(out, p, text, {}, start, stop, i)
  PROVE  Under(out, Len(p), i)
<1>1. PICK j \in Elements(out) : j <= i /\ i < j + Len(p)
  BY DEF Answered, TouchesUnread
<1>2. PICK k \in 1 .. Len(out) : j = out[k]
  BY DEF Elements
<1>3. QED
  BY <1>1, <1>2 DEF Under

\* What "find all" has listed is what the reference begins with.
LEMMA ListingFound ==
  ASSUME NEW p, Len(p) \in Nat \ {0}, NEW s, GoodSearcher(s, Len(p)), NEW text,
         NEW out, Listing(out, s, p, text), Progress(out, s, p, text, {})
  PROVE  FoundSoFar(out, text, p, s.start, s.stop)
<1>. DEFINE Occ == Occurrences(text, p, s.start, s.stop)
            m == Len(p)
<1>1. /\ ~ s.backward /\ s.origin = s.start
      /\ out \in Seq(Nat)
      /\ \A k \in 1 .. Len(out) : out[k] \in Occ /\ out[k] + m <= s.next
      /\ \A k \in 1 .. Len(out) - 1 : out[k] + m <= out[k + 1]
  BY DEF Listing
<1>2. s.start \in Nat /\ s.stop \in Nat /\ s.next \in Nat /\ m \in Nat
  BY DEF GoodSearcher, Searchers
<1>3. \A i \in Occ : i \in Nat /\ s.start <= i
  BY <1>2, OccurrencesAre
<1>4. \A i \in Occ : Passed(s, i) => Under(out, m, i)
  BY AllRead DEF Progress
<1>. HIDE DEF Occ
<1>5. ASSUME NEW k \in 1 .. Len(out), NEW i \in Occ, i < out[k] PROVE Under(out, m, i)
  <2>1. out[k] + m <= s.next /\ out[k] \in Nat /\ i \in Nat /\ s.start <= i
    BY <1>1, <1>3
  <2>. HIDE DEF m
  <2>2. i < s.next
    BY <1>2, <1>5, <2>1
  <2>3. Passed(s, i)
    BY <1>1, <2>1, <2>2 DEF Passed
  <2>4. QED
    BY <1>4, <2>3
<1>6. QED
  BY <1>1, <1>5 DEF FoundSoFar, Occ

\* When the pass is over, every match is answered.
LEMMA ListingComplete ==
  ASSUME NEW p, Len(p) \in Nat \ {0}, NEW s, GoodSearcher(s, Len(p)), NEW text, NEW unread,
         NEW out, Listing(out, s, p, text), Progress(out, s, p, text, unread), s.finished,
         NEW i \in Occurrences(text, p, s.start, s.stop)
  PROVE  Answered(out, p, text, unread, s.start, s.stop, i)
<1>1. s.start \in Nat /\ s.stop \in Nat
  BY DEF GoodSearcher, Searchers
<1>2. s.start <= i
  BY <1>1, OccurrencesAre
<1>3. Passed(s, i)
  BY <1>2 DEF Passed, Listing
<1>4. QED
  BY <1>3 DEF Progress

\* The results list of a job over text and the range of s, and how it ended.
ListIsRight(kind, list, p, text, unread, start, stop) ==
  /\ unread = {} =>
       /\ list = SubSeq(Greedy(text, p, start, stop), 1,
                        Smaller(MaxResults, Len(Greedy(text, p, start, stop))))
       /\ kind = "Truncated" <=> Len(Greedy(text, p, start, stop)) > MaxResults
  /\ kind = "All" =>
       \A i \in Occurrences(text, p, start, stop) :
         \E j \in Occurrences(text, p, start, stop) :
           /\ j < i + Len(p) /\ i < j + Len(p)
           /\ \/ j \in Elements(list)
              \/ unread \cap (j .. j + Len(p) - 1) # {}

\* Sequences that agree up to n begin alike (the results list is cut at its cap).
LEMMA SameBegin ==
  ASSUME NEW a \in Seq(Nat), NEW b \in Seq(Nat), NEW n \in Nat, n <= Len(a), n <= Len(b),
         \A l \in 1 .. n : b[l] = a[l]
  PROVE  SubSeq(a, 1, n) = SubSeq(b, 1, n)
<1>. DEFINE x == SubSeq(a, 1, n)
            y == SubSeq(b, 1, n)
<1>1. x \in Seq(Nat) /\ Len(x) = n /\ \A l \in 1 .. n : x[l] = a[l]
  BY SubSeqProperties
<1>2. y \in Seq(Nat) /\ Len(y) = n /\ \A l \in 1 .. n : y[l] = b[l]
  BY SubSeqProperties
<1>. HIDE DEF x, y
<1>3. Len(x) = Len(y) /\ \A l \in 1 .. Len(x) : x[l] = y[l]
  BY <1>1, <1>2
<1>4. x = y
  BY <1>1, <1>2, <1>3, SeqEqual
<1>5. QED
  BY <1>4 DEF x, y

\* The list that "find all" shows when it ends (drive.rs:51-75).
LEMMA ListShown ==
  ASSUME NEW p, Len(p) \in Nat \ {0}, NEW s, GoodSearcher(s, Len(p)), NEW text,
         NEW unread \in SUBSET Nat, NEW all, Listing(all, s, p, text), Progress(all, s, p, text, unread),
         NEW kind, \/ kind = "Truncated" /\ Len(all) > MaxResults
                   \/ kind = "All" /\ ~ (Len(all) > MaxResults) /\ s.finished
  PROVE  ListIsRight(kind, SubSeq(all, 1, Smaller(Len(all), MaxResults)), p, text, unread, s.start, s.stop)
<1>. DEFINE list == SubSeq(all, 1, Smaller(Len(all), MaxResults))
            G == Greedy(text, p, s.start, s.stop)
            Occ == Occurrences(text, p, s.start, s.stop)
            m == Len(p)
<1>1. all \in Seq(Nat) /\ Len(all) \in Nat /\ MaxResults \in Nat
  BY SearchAssumption DEF Listing
<1>2. s.start \in Nat /\ s.stop \in Nat
  BY DEF GoodSearcher, Searchers
<1>3. kind = "All" => Len(all) <= MaxResults /\ list = all
  <2>1. Len(all) <= MaxResults => list = SubSeq(all, 1, Len(all))
    BY <1>1 DEF Smaller
  <2>2. SubSeq(all, 1, Len(all)) = all
    BY <1>1
  <2>. HIDE DEF list
  <2>3. QED
    BY <1>1, <2>1, <2>2
<1>4. ASSUME unread = {} PROVE /\ list = SubSeq(G, 1, Smaller(MaxResults, Len(G)))
                               /\ kind = "Truncated" <=> Len(G) > MaxResults
  <2>. DEFINE full == \A i \in Occ : Under(all, m, i)
  <2>1. FoundSoFar(all, text, p, s.start, s.stop)
    BY <1>4, ListingFound
  <2>2. BeginsWith(G, all, full)
    BY <1>2, <2>1, GreedyBegins
  <2>3. kind = "All" => full
    <3>1. ASSUME kind = "All", NEW i \in Occ PROVE Under(all, m, i)
      <4>1. Answered(all, p, text, {}, s.start, s.stop, i)
        BY <1>4, <3>1, ListingComplete
      <4>2. QED
        BY <4>1, AllRead
    <3>2. QED
      BY <3>1
  <2>. HIDE DEF full, G, list
  <2>4. /\ G \in Seq(Nat) /\ Len(G) \in Nat
        /\ Len(all) <= Len(G) /\ \A l \in 1 .. Len(all) : G[l] = all[l]
        /\ full => Len(G) = Len(all)
    BY <2>2 DEF BeginsWith
  <2>5. CASE kind = "Truncated" /\ Len(all) > MaxResults
    <3>1. Len(G) > MaxResults /\ Smaller(MaxResults, Len(G)) = MaxResults
          /\ Smaller(Len(all), MaxResults) = MaxResults
      BY <1>1, <2>4, <2>5 DEF Smaller
    <3>2. SubSeq(all, 1, MaxResults) = SubSeq(G, 1, MaxResults)
      <4>. HIDE DEF Occ
      <4>1. MaxResults <= Len(all) /\ MaxResults <= Len(G) /\ MaxResults \in 0 .. Len(all)
        BY <1>1, <2>5, <3>1, <2>4
      <4>2. \A l \in 1 .. MaxResults : l \in 1 .. Len(all)
        BY <1>1, <4>1
      <4>3. \A l \in 1 .. MaxResults : G[l] = all[l]
        BY <2>4, <4>2
      <4>4. QED
        BY ONLY <1>1, <2>4, <4>1, <4>3, SameBegin
    <3>3. QED
      BY <2>5, <3>1, <3>2 DEF list
  <2>6. CASE kind = "All" /\ ~ (Len(all) > MaxResults)
    <3>1. Len(G) = Len(all)
      BY <2>3, <2>4, <2>6
    <3>2. G = all
      <4>. DEFINE n == Len(all)
      <4>1. n \in Nat /\ n <= Len(all) /\ n <= Len(G) /\ \A l \in 1 .. n : G[l] = all[l]
        BY <1>1, <2>4, <3>1
      <4>. HIDE DEF n
      <4>2. SubSeq(all, 1, n) = SubSeq(G, 1, n)
        BY ONLY <1>1, <2>4, <4>1, SameBegin
      <4>3. SubSeq(all, 1, Len(all)) = all /\ SubSeq(G, 1, Len(G)) = G
        BY <1>1, <2>4
      <4>4. QED
        BY <3>1, <4>2, <4>3 DEF n
    <3>3. Smaller(MaxResults, Len(G)) = Len(all)
      BY <1>1, <2>6, <3>1 DEF Smaller
    <3>4. SubSeq(all, 1, Len(all)) = all
      BY <1>1
    <3>5. ~ (Len(G) > MaxResults)
      BY <2>6, <3>1
    <3>6. QED
      BY <1>3, <2>6, <3>2, <3>3, <3>4, <3>5
  <2>7. QED
    BY <2>5, <2>6
<1>. HIDE DEF list, G, Occ
<1>5. ASSUME kind = "All", NEW i \in Occ
      PROVE  \E j \in Occ : /\ j < i + m /\ i < j + m
                            /\ \/ j \in Elements(list)
                               \/ unread \cap (j .. j + m - 1) # {}
  <2>1. Answered(all, p, text, unread, s.start, s.stop, i)
    BY <1>5, ListingComplete DEF Occ
  <2>2. PICK j \in Occ : /\ j <= i /\ i < j + m
                         /\ j \in Elements(all) \/ TouchesUnread(unread, j, m)
    BY <2>1 DEF Answered, Occ
  <2>3. i \in Nat /\ j \in Nat /\ m \in Nat \ {0}
    BY <1>2, OccurrencesAre DEF Occ
  <2>. HIDE DEF m
  <2>4. j < i + m
    BY <2>2, <2>3
  <2>5. CASE j \in Elements(all)
    BY <1>3, <1>5, <2>2, <2>4, <2>5
  <2>6. CASE TouchesUnread(unread, j, m)
    <3>1. PICK u \in unread : j <= u /\ u < j + m
      BY <2>6 DEF TouchesUnread
    <3>2. u \in Nat /\ u \in j .. j + m - 1
      BY <2>3, <3>1
    <3>3. QED
      BY <2>2, <2>4, <3>1, <3>2
  <2>7. QED
    BY <2>2, <2>5, <2>6
<1>6. QED
  BY <1>4, <1>5 DEF ListIsRight, list, G, Occ

\* The nearest of a set, when it is known.
LEMMA NearestAt ==
  ASSUME NEW A \in SUBSET Nat, NEW x \in A, \A j \in A : x <= j
  PROVE  Nearest(A) = x
<1>1. Nearest(A) \in A /\ Nearest(A) <= x
  BY NearestIs
<1>2. x <= Nearest(A)
  BY <1>1
<1>3. x \in Nat /\ Nearest(A) \in Nat
  BY <1>1
<1>4. QED
  BY <1>1, <1>2, <1>3

\* Likewise the farthest.
LEMMA FarthestAt ==
  ASSUME NEW A \in SUBSET Nat, NEW x \in A, \A j \in A : j <= x
  PROVE  Farthest(A) = x
<1>1. \E i \in A : \A j \in A : j <= i
  OBVIOUS
<1>2. Farthest(A) \in A /\ \A j \in A : j <= Farthest(A)
  BY <1>1 DEF Farthest
<1>3. x <= Farthest(A) /\ Farthest(A) <= x
  BY <1>2
<1>4. x \in Nat /\ Farthest(A) \in Nat
  BY <1>2
<1>5. QED
  BY <1>3, <1>4

\* The match that s should find.
WantedBy(s, p, text) ==
  Wanted(Occurrences(text, p, s.start, s.stop), s.origin, s.backward, s.wrap)

\* What is wanted when a match x is the first one in the direction of s: of those in
\* front of the origin, or of all when there are none and s wraps.
LEMMA WantedIs ==
  ASSUME NEW p, Len(p) \in Nat \ {0}, NEW text, NEW s, GoodSearcher(s, Len(p)),
         NEW x \in Occurrences(text, p, s.start, s.stop),
         \/ /\ IF s.backward THEN x < s.origin ELSE s.origin <= x
            /\ \A i \in Occurrences(text, p, s.start, s.stop) :
                 IF s.backward THEN i < s.origin => i <= x ELSE s.origin <= i => x <= i
         \/ /\ s.wrap
            /\ \A i \in Occurrences(text, p, s.start, s.stop) :
                 IF s.backward THEN s.origin <= i /\ i <= x ELSE i < s.origin /\ x <= i
  PROVE  WantedBy(s, p, text) = {x}
<1>. DEFINE Occ == Occurrences(text, p, s.start, s.stop)
            from == s.origin
            later == {i \in Occ : i >= from}
            first == IF s.backward THEN Occ \ later ELSE later
            rest == IF s.wrap THEN Occ \ first ELSE {}
            pick(set) == IF s.backward THEN Farthest(set) ELSE Nearest(set)
<1>1. WantedBy(s, p, text) = CASE first # {} -> {pick(first)}
                               [] first = {} /\ rest # {} -> {pick(rest)}
                               [] OTHER -> {}
  BY DEF WantedBy, Wanted
<1>2. from \in Nat /\ s.start \in Nat /\ s.stop \in Nat /\ s.backward \in BOOLEAN
  BY DEF GoodSearcher, Searchers
<1>3. Occ \in SUBSET Nat
  BY <1>2, OccurrencesAre
<1>. HIDE DEF Occ
<1>4. x \in Occ /\ x \in Nat
  BY <1>3 DEF Occ
<1>5. CASE /\ IF s.backward THEN x < from ELSE from <= x
           /\ \A i \in Occ : IF s.backward THEN i < from => i <= x ELSE from <= i => x <= i
  <2>1. x \in first /\ first \in SUBSET Nat
    <3>1. first \in SUBSET Nat
      BY <1>3
    <3>2. s.backward => x < from
      BY <1>5
    <3>3. ~ s.backward => from <= x
      BY <1>5
    <3>4. s.backward => ~ (x >= from)
      <4>. HIDE DEF from
      <4>1. QED
        BY <1>2, <1>4, <3>2
    <3>5. ~ s.backward => x >= from
      <4>. HIDE DEF from
      <4>1. QED
        BY <1>2, <1>4, <3>3
    <3>. HIDE DEF from
    <3>6. QED
      BY <1>2, <1>4, <3>1, <3>4, <3>5
  <2>2. \A i \in first : IF s.backward THEN i <= x ELSE x <= i
    BY <1>2, <1>3, <1>5
  <2>. HIDE DEF first
  <2>3. pick(first) = x
    BY <2>1, <2>2, NearestAt, FarthestAt
  <2>. HIDE DEF pick, rest
  <2>4. QED
    BY <1>1, <2>1, <2>3
<1>6. CASE /\ s.wrap
           /\ \A i \in Occ : IF s.backward THEN from <= i /\ i <= x ELSE i < from /\ x <= i
  <2>1. first = {}
    <3>1. ASSUME NEW i \in Occ PROVE IF s.backward THEN i >= from ELSE ~ (i >= from)
      <4>1. IF s.backward THEN from <= i ELSE i < from
        BY <1>6
      <4>2. i \in Nat
        BY <1>3
      <4>. HIDE DEF from
      <4>3. QED
        BY <1>2, <4>1, <4>2
    <3>. HIDE DEF from
    <3>2. QED
      BY <1>2, <3>1
  <2>2. rest = Occ
    <3>. HIDE DEF first
    <3>1. QED
      BY <1>6, <2>1
  <2>. HIDE DEF first, rest
  <2>3. pick(rest) = x
    BY <1>3, <1>4, <1>6, <2>2, NearestAt, FarthestAt
  <2>. HIDE DEF pick
  <2>4. QED
    BY <1>1, <1>4, <2>1, <2>2, <2>3
<1>7. QED
  BY <1>5, <1>6 DEF Occ

\* Two matches that overlap are one pattern that overlaps itself.
LEMMA OverlapsItself ==
  ASSUME NEW p, Len(p) \in Nat \ {0}, NEW text, NEW i \in Nat, NEW j \in Nat,
         i < j, j < i + Len(p), Occurs(text, p, i), Occurs(text, p, j)
  PROVE  SelfOverlaps(p)
<1>. DEFINE d == j - i
            m == Len(p)
<1>. HIDE DEF m
<1>0. m \in Nat \ {0} /\ j < i + m
  BY DEF m
<1>1. d \in 1 .. m - 1 /\ i + d = j
  BY <1>0
<1>. HIDE DEF d
<1>2. /\ \A k \in 1 .. m : p[k] = Any \/ p[k] = text[i + k]
      /\ \A k \in 1 .. m : p[k] = Any \/ p[k] = text[j + k]
  BY DEF Occurs, m
<1>3. ASSUME NEW k \in 1 .. m - d PROVE p[k] = p[k + d] \/ Any \in {p[k], p[k + d]}
  <2>1. k \in 1 .. m /\ k + d \in 1 .. m /\ i + (k + d) = j + k
    BY <1>0, <1>1
  <2>2. p[k] = Any \/ p[k] = text[j + k]
    BY <1>2, <2>1
  <2>3. p[k + d] = Any \/ p[k + d] = text[i + (k + d)]
    BY <1>2, <2>1
  <2>4. QED
    BY <2>1, <2>2, <2>3
<1>4. QED
  BY <1>1, <1>3 DEF SelfOverlaps, m

\* Nothing is passed by while nothing is found and everything is read.
LEMMA NonePassed ==
  ASSUME NEW s, NEW p, NEW text, Progress(<<>>, s, p, text, {}),
         NEW i \in Occurrences(text, p, s.start, s.stop)
  PROVE  ~ Passed(s, i)
<1>1. SUFFICES ASSUME Passed(s, i) PROVE FALSE
  OBVIOUS
<1>2. Under(<<>>, Len(p), i)
  BY <1>1, AllRead DEF Progress
<1>3. QED
  BY <1>2 DEF Under

\* The match that the first window with one answers with: the nearest one, and
\* backwards the nearest one if no two matches overlap (drive.rs:39-50).
LEMMA MatchIsWanted ==
  ASSUME NEW p, Len(p) \in Nat \ {0}, NEW s, GoodSearcher(s, Len(p)), Wraps(s, Len(p)),
         NEW text, Progress(<<>>, s, p, text, {}), ~ s.finished,
         NEW out, out # <<>>, NEW c0 \in Nat, NEW c1 \in Nat, Scans(s, p, text, {}, c0, c1, out),
         ~ (s.backward /\ SelfOverlaps(p))
  PROVE  WantedBy(s, p, text) = {out[IF s.backward THEN Len(out) ELSE 1]}
<1>. DEFINE m == Len(p)
            K == Len(out)
            Occ == Occurrences(text, p, s.start, s.stop)
            x == out[IF s.backward THEN K ELSE 1]
<1>1. /\ s.origin \in Nat /\ s.pos \in Nat /\ s.next \in Nat /\ s.start \in Nat /\ s.stop \in Nat
      /\ s.backward \in BOOLEAN /\ s.wrapped \in BOOLEAN /\ m \in Nat \ {0}
  BY DEF GoodSearcher, Searchers
<1>2. /\ Lo(s) <= c0 /\ c0 < c1 /\ c1 <= Hi(s, m)
      /\ s.backward => c1 = s.pos
      /\ ~ s.backward => c0 = s.pos
      /\ Sightings(out, p, text, {}, c0, c1)
      /\ \A i \in Nat : c0 <= i /\ i < c1 /\ (s.backward \/ s.next <= i) /\ Occurs(text, p, i)
                          => Under(out, m, i)
  <2>1. WindowAnswers(out, p, text, {}, s, c0, c1, IF s.backward THEN 0 ELSE s.next)
    BY DEF Scans
  <2>2. \A i \in Nat : c0 <= i /\ i < c1 /\ (s.backward \/ s.next <= i) /\ Occurs(text, p, i)
                          => Answered(out, p, text, {}, s.start, s.stop, i)
    BY <2>1 DEF WindowAnswers
  <2>3. QED
    BY <2>2, AllRead DEF Scans
<1>3. /\ out \in Seq(Nat) /\ K \in Nat /\ K >= 1 /\ out \in [1 .. K -> Nat]
      /\ \A k \in 1 .. K : c0 <= out[k] /\ out[k] < c1 /\ Occurs(text, p, out[k])
      /\ \A k \in 1 .. K - 1 : out[k] + m <= out[k + 1]
  <2>1. out \in Seq(Nat)
    BY <1>2 DEF Sightings
  <2>2. QED
    BY <1>2, <2>1 DEF Sightings
<1>. HIDE DEF K
<1>4. \A k \in 1 .. K : \A l \in 1 .. k - 1 : out[l] + m <= out[k]
  <2>. HIDE DEF m
  <2>1. QED
    BY <1>1, <1>3, Growing
<1>5. (IF s.backward THEN K ELSE 1) \in 1 .. K
  BY <1>3
<1>6. x \in Nat /\ c0 <= x /\ x < c1 /\ Occurs(text, p, x)
  BY <1>3, <1>5
<1>7. ASSUME NEW k \in 1 .. K PROVE out[k] \in Nat /\ IF s.backward THEN k = K \/ out[k] + m <= x ELSE x <= out[k]
  <2>1. out[k] \in Nat
    BY <1>3
  <2>2. CASE s.backward
    <3>1. x = out[K] /\ K \in 1 .. K
      BY <1>3, <2>2
    <3>2. k # K => k \in 1 .. K - 1
      BY <1>3
    <3>3. QED
      BY <1>4, <2>1, <2>2, <3>1, <3>2
  <2>3. CASE ~ s.backward
    <3>1. x = out[1] /\ x \in Nat
      BY <1>6, <2>3
    <3>2. k # 1 => 1 \in 1 .. k - 1
      OBVIOUS
    <3>3. k # 1 => out[1] + m <= out[k]
      BY <1>4, <3>2
    <3>. HIDE DEF x, m
    <3>4. QED
      BY <1>1, <2>1, <2>3, <3>1, <3>3
  <2>4. QED
    BY <1>1, <2>2, <2>3
<1>8. \A i \in Occ : i \in Nat /\ s.start <= i /\ Occurs(text, p, i) /\ ~ Passed(s, i)
  BY <1>1, OccurrencesAre, NonePassed
<1>9. x \in Occ
  <2>. DEFINE lo == Lo(s)
              hi == Hi(s, m)
              a == s.start
              b == s.stop
  <2>1. /\ lo \in Nat /\ hi \in Nat /\ a <= lo
        /\ lo < hi => hi + m - 1 <= b
    BY GoodIsInRange
  <2>2. lo <= c0 /\ c0 < c1 /\ c1 <= hi /\ a \in Nat /\ b \in Nat
    BY <1>1, <1>2
  <2>. HIDE DEF lo, hi, x, a, b, m
  <2>3. x \in a .. b /\ x + m <= b
    BY <1>1, <1>6, <2>1, <2>2
  <2>4. QED
    BY <1>6, <2>3 DEF Occurrences, a, b, m
<1>. HIDE DEF Occ
<1>10. \* Nothing of the window lies nearer.
       ASSUME NEW i \in Occ, c0 <= i, i < c1, s.backward \/ s.next <= i
       PROVE  IF s.backward THEN i <= x ELSE x <= i
  <2>1. i \in Nat /\ Occurs(text, p, i)
    BY <1>8
  <2>2. PICK k \in 1 .. K : out[k] <= i /\ i < out[k] + m
    BY <1>2, <1>10, <2>1 DEF Under, K
  <2>3. out[k] \in Nat /\ IF s.backward THEN k = K \/ out[k] + m <= x ELSE x <= out[k]
    BY <1>7
  <2>4. CASE ~ s.backward
    <3>. HIDE DEF x
    <3>1. QED
      BY <1>6, <2>1, <2>2, <2>3, <2>4
  <2>5. CASE s.backward
    <3>1. SUFFICES ASSUME x < i PROVE FALSE
      BY <1>6, <2>1, <2>5
    <3>2. k # K => out[k] + m <= x
      BY <2>3, <2>5
    <3>3. k = K
      <4>. HIDE DEF x, m
      <4>1. QED
        BY <1>1, <1>6, <2>1, <2>2, <2>3, <3>1, <3>2
    <3>4. x = out[k]
      BY <2>5, <3>3
    <3>. HIDE DEF x
    <3>5. x < i /\ i < x + Len(p)
      BY <2>2, <3>1, <3>4
    <3>6. SelfOverlaps(p)
      BY <1>6, <2>1, <3>5, OverlapsItself
    <3>7. QED
      BY <2>5, <3>6
  <2>6. QED
    BY <2>4, <2>5
<1>. HIDE DEF x, m
<1>11. ~ s.wrapped => IF s.backward THEN s.pos <= s.origin ELSE s.origin <= s.pos
  BY DEF Progress
<1>12. CASE ~ s.wrapped
  <2>1. IF s.backward THEN x < s.origin ELSE s.origin <= x
    BY <1>1, <1>2, <1>6, <1>11, <1>12
  <2>2. ASSUME NEW i \in Occ PROVE IF s.backward THEN i < s.origin => i <= x ELSE s.origin <= i => x <= i
    <3>1. i \in Nat /\ ~ Passed(s, i)
      BY <1>8
    <3>2. CASE s.backward
      <4>1. SUFFICES ASSUME i < s.origin, x < i PROVE FALSE
        BY <1>6, <3>1, <3>2
      <4>2. i < s.pos
        BY <1>1, <3>1, <3>2, <4>1 DEF Passed
      <4>3. c0 <= i /\ i < c1
        BY <1>2, <1>6, <3>1, <3>2, <4>1, <4>2
      <4>4. QED
        BY <1>6, <1>10, <3>1, <3>2, <4>1, <4>3
    <3>3. CASE ~ s.backward
      <4>1. SUFFICES ASSUME s.origin <= i, i < x PROVE FALSE
        BY <1>6, <3>1, <3>3
      <4>2. s.pos <= i /\ s.next <= i
        BY <1>1, <3>1, <3>3, <4>1 DEF Passed
      <4>3. c0 <= i /\ i < c1
        BY <1>2, <1>6, <3>1, <3>3, <4>1, <4>2
      <4>4. QED
        BY <1>6, <1>10, <3>1, <3>3, <4>1, <4>2, <4>3
    <3>4. QED
      BY <1>1, <3>2, <3>3
  <2>3. QED
    BY <1>9, <2>1, <2>2, WantedIs DEF Occ, x, K
<1>13. CASE s.wrapped
  <2>1. s.wrap
    BY <1>13 DEF Wraps
  <2>2. ASSUME NEW i \in Occ
        PROVE  IF s.backward THEN s.origin <= i /\ i <= x ELSE i < s.origin /\ x <= i
    <3>1. i \in Nat /\ ~ Passed(s, i)
      BY <1>8
    <3>2. CASE s.backward
      <4>1. s.origin <= i /\ i < s.pos
        BY <1>1, <1>13, <3>1, <3>2 DEF Passed
      <4>2. i <= x
        <5>1. SUFFICES ASSUME x < i PROVE FALSE
          BY <1>6, <3>1
        <5>2. c0 <= i /\ i < c1
          BY <1>2, <1>6, <3>1, <3>2, <4>1, <5>1
        <5>3. QED
          BY <1>6, <1>10, <3>1, <3>2, <5>1, <5>2
      <4>3. QED
        BY <3>2, <4>1, <4>2
    <3>3. CASE ~ s.backward
      <4>1. i < s.origin /\ s.pos <= i /\ s.next <= i
        BY <1>1, <1>13, <3>1, <3>3 DEF Passed
      <4>2. x <= i
        <5>1. SUFFICES ASSUME i < x PROVE FALSE
          BY <1>6, <3>1
        <5>2. c0 <= i /\ i < c1
          BY <1>2, <1>6, <3>1, <3>3, <4>1, <5>1
        <5>3. QED
          BY <1>6, <1>10, <3>1, <3>3, <4>1, <5>1, <5>2
      <4>3. QED
        BY <3>3, <4>1, <4>2
    <3>4. QED
      BY <1>1, <3>2, <3>3
  <2>3. QED
    BY <1>9, <2>1, <2>2, WantedIs DEF Occ, x, K
<1>14. QED
  BY <1>1, <1>12, <1>13

\* A search that ends without a match is right: there is none (drive.rs:39-50).
LEMMA NoMatchIsWanted ==
  ASSUME NEW p, Len(p) \in Nat \ {0}, NEW s, GoodSearcher(s, Len(p)), Wraps(s, Len(p)),
         NEW text, Progress(<<>>, s, p, text, {}), s.finished
  PROVE  WantedBy(s, p, text) = {}
<1>. DEFINE Occ == Occurrences(text, p, s.start, s.stop)
            from == s.origin
            later == {i \in Occ : i >= from}
            first == IF s.backward THEN Occ \ later ELSE later
            rest == IF s.wrap THEN Occ \ first ELSE {}
            pick(set) == IF s.backward THEN Farthest(set) ELSE Nearest(set)
<1>1. WantedBy(s, p, text) = CASE first # {} -> {pick(first)}
                               [] first = {} /\ rest # {} -> {pick(rest)}
                               [] OTHER -> {}
  BY DEF WantedBy, Wanted
<1>2. from \in Nat /\ s.start \in Nat /\ s.stop \in Nat /\ s.backward \in BOOLEAN
  BY DEF GoodSearcher, Searchers
<1>3. \A i \in Occ : /\ i \in Nat /\ s.start <= i /\ i < CandEnd(s.start, s.stop, Len(p))
                     /\ ~ Passed(s, i)
  BY <1>2, OccurrencesAre, NonePassed
<1>4. CandEnd(s.start, s.stop, Len(p)) \in Nat
  BY <1>2, CandEndIs
<1>. HIDE DEF Occ
<1>5. first = {}
  <2>1. ASSUME NEW i \in Occ PROVE IF s.backward THEN i >= from ELSE ~ (i >= from)
    BY <1>2, <1>3 DEF Passed
  <2>2. QED
    BY <2>1
<1>6. rest = {}
  <2>1. SUFFICES ASSUME s.wrap, NEW i \in Occ PROVE FALSE
    OBVIOUS
  <2>2. CASE s.wrapped
    BY <1>3, <2>2 DEF Passed
  <2>3. CASE s.start >= CandEnd(s.start, s.stop, Len(p))
    BY <1>2, <1>3, <1>4, <2>3
  <2>4. QED
    BY <2>1, <2>2, <2>3 DEF Wraps
<1>. HIDE DEF first, rest, pick
<1>7. QED
  BY <1>1, <1>5, <1>6

\* A search that begins: it has passed nothing, and it ends at once only if it has
\* nothing to look at.
Begins(s, m) ==
  /\ ~ s.wrapped /\ s.pos = s.origin /\ s.next = s.origin
  /\ s.finished = (s.start >= CandEnd(s.start, s.stop, m))

BeginsAs(s, start0, stop0, docLen, from, backward, wrap, m) ==
  /\ Begins(s, m) /\ s.backward = backward /\ s.wrap = wrap /\ s.stop <= docLen
  /\ from = start0 /\ stop0 <= docLen => s.origin = s.start

\* Searcher::new (search.rs:29-62).
LEMMA NewBegins ==
  ASSUME NEW start0 \in Nat, NEW stop0 \in Nat, start0 <= stop0, NEW docLen \in Nat,
         NEW from \in Nat, NEW backward \in BOOLEAN, NEW wrap \in BOOLEAN, NEW m \in Nat \ {0}
  PROVE  BeginsAs(NewSearcher(start0, stop0, docLen, from, backward, wrap, m),
                  start0, stop0, docLen, from, backward, wrap, m)
<1>. DEFINE s == NewSearcher(start0, stop0, docLen, from, backward, wrap, m)
            a == Least(start0, docLen)
            b == Least(stop0, docLen)
            c == CandEnd(a, b, m)
            o == Most(a, Least(from, c))
            f == (a >= c)
            no == FALSE
<1>1. s = [start |-> a, stop |-> b, backward |-> backward, wrap |-> wrap,
           origin |-> o, pos |-> o, wrapped |-> no, finished |-> f, next |-> o]
  BY DEF NewSearcher
<1>2. a \in Nat /\ b \in Nat /\ b <= docLen /\ a <= b
  BY DEF Least
<1>3. c \in Nat /\ a <= c
  <2>. HIDE DEF a, b
  <2>1. QED
    BY <1>2 DEF CandEnd, Most, Monus
<1>4. from = start0 /\ stop0 <= docLen => o = a
  <2>1. start0 <= docLen => a = start0
    BY DEF Least
  <2>. HIDE DEF a, b, c
  <2>2. QED
    BY <1>2, <1>3, <2>1 DEF Most, Least
<1>. HIDE DEF s, a, b, o, f, no
<1>5. /\ s.start = a /\ s.stop = b /\ s.backward = backward /\ s.wrap = wrap
      /\ s.origin = o /\ s.pos = o /\ s.wrapped = no /\ s.finished = f /\ s.next = o
  BY <1>1
<1>6. ~ s.wrapped
  BY <1>5 DEF no
<1>7. s.finished = (s.start >= CandEnd(s.start, s.stop, m))
  BY <1>5 DEF f
<1>8. QED
  BY <1>2, <1>4, <1>5, <1>6, <1>7 DEF Begins, BeginsAs, s

\* A search that begins has passed no match.
LEMMA BeginsProgress ==
  ASSUME NEW p, Len(p) \in Nat \ {0}, NEW s, GoodSearcher(s, Len(p)), Begins(s, Len(p)),
         NEW text, NEW unread
  PROVE  Progress(<<>>, s, p, text, unread) /\ Wraps(s, Len(p))
<1>1. /\ s.start \in Nat /\ s.stop \in Nat /\ s.origin \in Nat
      /\ CandEnd(s.start, s.stop, Len(p)) \in Nat
  <2>1. s.start \in Nat /\ s.stop \in Nat /\ s.origin \in Nat
    BY DEF GoodSearcher, Searchers
  <2>2. QED
    BY <2>1, CandEndIs
<1>2. ASSUME NEW i \in Occurrences(text, p, s.start, s.stop) PROVE ~ Passed(s, i)
  <2>1. i \in Nat /\ s.start <= i /\ i < CandEnd(s.start, s.stop, Len(p))
    BY <1>1, OccurrencesAre
  <2>2. ~ s.finished
    <3>1. s.finished = (s.start >= CandEnd(s.start, s.stop, Len(p)))
      BY DEF Begins
    <3>2. ~ (s.start >= CandEnd(s.start, s.stop, Len(p)))
      BY <1>1, <2>1
    <3>3. QED
      BY <3>1, <3>2
  <2>3. QED
    BY <1>1, <2>1, <2>2 DEF Begins, Passed
<1>3. ~ s.wrapped => IF s.backward THEN s.pos <= s.origin ELSE s.origin <= s.pos
  BY <1>1 DEF Begins
<1>4. Wraps(s, Len(p))
  BY DEF Wraps, Begins
<1>5. QED
  BY <1>2, <1>3, <1>4 DEF Progress

-----------------------------------------------------------------------------
(* The invariant of a search that nobody disturbed. *)

\* The text and the range are those that job j was asked for, what it has found is
\* right so far, and nothing was passed by.
Searched(j, text, unread, a) ==
  /\ a.text = text /\ a.unread = unread
  /\ SameSearch(j.searcher, a.searcher) /\ j.searcher.stop <= Len(text)
  /\ Progress(j.results, j.searcher, j.pattern, text, unread)
  /\ Wraps(j.searcher, Len(j.pattern))
  /\ j.kind = "All" => Listing(j.results, j.searcher, j.pattern, text)
  /\ j.kind = "Next" => j.results = <<>>

SearchedInv ==
  job # NoJob /\ job.kind # "ReplaceAll" /\ asked.is = "known" => Searched(job, Text, Unread, asked)

\* A job begins so (gui/src/search.rs).
LEMMA JobSearched ==
  ASSUME NEW d, NEW kind, NEW p, NEW r, NEW range, NEW from, NEW backward, NEW wrap,
         MayAsk(d, kind, p, r, range, from, backward, wrap),
         kind = "All" => ~ backward /\ ~ wrap /\ from = range[1] /\ range[2] <= Length(d),
         NEW text, Len(text) = Length(d), NEW unread, NEW j, NEW a,
         j = JobOf(d, kind, p, r, range, from, backward, wrap),
         a.text = text, a.unread = unread, a.searcher = j.searcher
  PROVE  Searched(j, text, unread, a)
<1>. DEFINE x == range[1]
            y == range[2]
            len == Length(d)
            m == Len(p)
            s == NewSearcher(x, y, len, from, backward, wrap, m)
            none == <<>>
            zero == 0
<1>1. /\ m \in Nat \ {0} /\ len \in Nat /\ x \in Nat /\ y \in Nat /\ x <= y
      /\ from \in Nat /\ backward \in BOOLEAN /\ wrap \in BOOLEAN
  BY PatternLength, GoodDocFields DEF MayAsk
<1>2. j = [kind |-> kind, pattern |-> p, replacement |-> r, rangeEnd |-> y,
           count |-> zero, results |-> none, searcher |-> s]
  BY DEF JobOf
<1>. HIDE DEF x, y, len, m, none, zero
<1>3. /\ Begins(s, m) /\ s.backward = backward /\ s.wrap = wrap /\ s.stop <= len
      /\ from = x /\ y <= len => s.origin = s.start
  <2>1. BeginsAs(NewSearcher(x, y, len, from, backward, wrap, m), x, y, len, from, backward, wrap, m)
    BY ONLY <1>1, NewBegins
  <2>2. BeginsAs(s, x, y, len, from, backward, wrap, m)
    BY <2>1
  <2>. HIDE DEF s
  <2>3. QED
    BY <2>2 DEF BeginsAs
<1>4. GoodSearcher(s, m)
  BY ONLY <1>1, NewIsGood
<1>. HIDE DEF s
<1>5. j.kind = kind /\ j.pattern = p /\ j.results = none /\ j.searcher = s
  BY <1>2
<1>6. SameSearch(s, s)
  BY <1>4 DEF SameSearch, GoodSearcher
<1>7. Progress(<<>>, s, p, text, unread) /\ Wraps(s, m)
  BY <1>1, <1>3, <1>4, BeginsProgress DEF m
<1>8. kind = "All" => Listing(none, s, p, text)
  <2>1. SUFFICES ASSUME kind = "All" PROVE Listing(none, s, p, text)
    OBVIOUS
  <2>2. ~ s.backward /\ ~ s.wrap /\ ~ s.wrapped /\ s.origin = s.start
    BY <1>3, <2>1 DEF Begins, x, y, len
  <2>3. none \in Seq(Nat) /\ Len(none) = 0
    BY DEF none
  <2>4. QED
    BY <2>2, <2>3 DEF Listing
<1>9. QED
  BY <1>3, <1>5, <1>6, <1>7, <1>8 DEF Searched, m, len, none

\* The positions that cannot be read are positions.
LEMMA UnreadIs ==
  ASSUME NEW d \in GoodDocs
  PROVE  UnreadIn(d) \in SUBSET Nat
<1>1. Len(Content(d.table)) \in Nat
  BY LengthIs
<1>2. QED
  BY <1>1 DEF UnreadIn

\* A step of a search that nobody disturbed passes no match by.
LEMMA StepSearched ==
  ASSUME JobInv, job # NoJob, Searched(job, Text, Unread, asked)
  PROVE  /\ StepIs(Step, job.searcher, job.pattern, Text, Unread)
         /\ GoodSearcher(Step.searcher, Len(job.pattern))
         /\ SameSearch(Step.searcher, asked.searcher) /\ Step.searcher.stop <= Len(Text)
         /\ Progress(job.results \o Step.out, Step.searcher, job.pattern, Text, Unread)
         /\ Wraps(Step.searcher, Len(job.pattern))
         /\ job.kind = "All" => Listing(job.results \o Step.out, Step.searcher, job.pattern, Text)
         /\ Step.out \in Seq(Nat)
<1>. DEFINE p == job.pattern
            s == job.searcher
            st == Step
<1>1. /\ doc \in GoodDocs /\ budget \in Int /\ Len(p) \in Nat \ {0} /\ GoodSearcher(s, Len(p))
      /\ job.results \in Seq(Nat)
  BY JobFields DEF JobInv
<1>2. Len(Text) \in Nat
  BY <1>1, TextLength DEF Text
<1>3. /\ SameSearch(s, asked.searcher) /\ s.stop <= Len(Text)
      /\ Progress(job.results, s, p, Text, Unread) /\ Wraps(s, Len(p))
      /\ job.kind = "All" => Listing(job.results, s, p, Text)
  BY DEF Searched
<1>4. StepIs(st, s, p, Text, Unread)
  BY <1>1, <1>2, <1>3, SteppedIs DEF Step
<1>5. GoodSearcher(st.searcher, Len(p)) /\ st.out \in Seq(Nat)
  BY StepOfJob DEF StepKeeps, StepFinds
<1>. HIDE DEF p, s, st
<1>6. SameSearch(st.searcher, s) /\ Wraps(st.searcher, Len(p))
  BY <1>1, <1>3, <1>4, StepSame
<1>7. Progress(job.results \o st.out, st.searcher, p, Text, Unread)
  BY <1>1, <1>3, <1>4, SteppedProgress
<1>8. job.kind = "All" => Listing(job.results \o st.out, st.searcher, p, Text)
  BY <1>1, <1>3, <1>4, SteppedListing
<1>9. SameSearch(st.searcher, asked.searcher) /\ st.searcher.stop <= Len(Text)
  BY <1>3, <1>6 DEF SameSearch
<1>10. QED
  BY <1>4, <1>5, <1>6, <1>7, <1>8, <1>9 DEF p, s, st

\* A search that goes on has passed no match by (drive.rs:39-75).
LEMMA DriveSearched ==
  ASSUME JobInv, DriveNext \/ DriveAll, Searched(job, Text, Unread, asked), job' # NoJob
  PROVE  Searched(job', Text, Unread, asked)
<1>1. job.kind \in {"Next", "All"} /\ job # NoJob
  <2>1. job.kind \in {"Next", "All"}
    BY DEF DriveNext, DriveAll
  <2>2. QED
    BY <2>1 DEF NoJob
<1>2. GoodJob(job) /\ job \in Jobs /\ job.results \in Seq(Nat)
  BY <1>1, JobFields DEF JobInv, GoodJob
<1>. DEFINE s == Step.searcher
            out == Step.out
            p == job.pattern
<1>3. /\ SameSearch(s, asked.searcher) /\ s.stop <= Len(Text)
      /\ Progress(job.results \o out, s, p, Text, Unread) /\ Wraps(s, Len(p))
      /\ job.kind = "All" => Listing(job.results \o out, s, p, Text)
      /\ out \in Seq(Nat)
  BY <1>1, StepSearched
<1>4. asked.text = Text /\ asked.unread = Unread /\ (job.kind = "Next" => job.results = <<>>)
  BY DEF Searched
<1>5. CASE DriveNext
  <2>. DEFINE j == [job EXCEPT !.searcher = s]
  <2>1. out = <<>> /\ job' = j /\ job.kind = "Next"
    BY <1>5 DEF DriveNext, Finish, GoesOn
  <2>2. /\ j.searcher = s /\ j.pattern = p /\ j.kind = job.kind
        /\ j.results = job.results
    BY <1>2 DEF Jobs
  <2>. HIDE DEF j, s, out
  <2>3. job.results \o out = job.results
    BY <1>2, <2>1
  <2>4. j.kind = "Next" /\ j.results = <<>>
    BY <1>4, <2>1, <2>2
  <2>5. Progress(j.results, j.searcher, j.pattern, Text, Unread)
    BY <1>3, <2>2, <2>3
  <2>6. QED
    BY <1>3, <1>4, <2>1, <2>2, <2>4, <2>5 DEF Searched
<1>6. CASE DriveAll
  <2>. DEFINE all == job.results \o out
              list == SubSeq(all, 1, Smaller(Len(all), MaxResults))
              j == [job EXCEPT !.searcher = s, !.results = list]
  <2>1. ~ (Len(all) > MaxResults) /\ job' = j /\ job.kind = "All"
    BY <1>6 DEF DriveAll, Finish, GoesOn
  <2>2. all \in Seq(Nat)
    BY <1>2, <1>3
  <2>. HIDE DEF all, out
  <2>3. list = all
    <3>1. Len(all) \in Nat /\ MaxResults \in Nat
      BY <2>2, SearchAssumption
    <3>2. Smaller(Len(all), MaxResults) = Len(all)
      BY <2>1, <3>1 DEF Smaller
    <3>3. SubSeq(all, 1, Len(all)) = all
      BY <2>2
    <3>4. QED
      BY <3>2, <3>3
  <2>. HIDE DEF list, s
  <2>4. /\ j.searcher = s /\ j.pattern = p /\ j.kind = job.kind
        /\ j.results = list
    BY <1>2 DEF Jobs
  <2>. HIDE DEF j
  <2>5. /\ Progress(j.results, j.searcher, j.pattern, Text, Unread)
        /\ Listing(j.results, j.searcher, j.pattern, Text)
    BY <1>3, <2>1, <2>3, <2>4 DEF all
  <2>6. j.kind = "All"
    BY <2>1, <2>4
  <2>7. QED
    BY <1>3, <1>4, <2>1, <2>4, <2>5, <2>6 DEF Searched
<1>7. QED
  BY <1>5, <1>6

\* What the text becomes in a step that keeps the bytes of the source.
LEMMA TextAfter ==
  ASSUME UNCHANGED <<source, bad>>
  PROVE  Text' = TextOf(doc', letters') /\ Unread' = UnreadIn(doc')
BY DEF Text, Unread, TextOf, UnreadIn

\* A search begins with nothing passed, for the text and the range it is asked for.
LEMMA StartSearched ==
  ASSUME JobInv, HStart, job' # NoJob, job'.kind # "ReplaceAll"
  PROVE  Searched(job', Text', Unread', asked')
<1>0. doc \in GoodDocs /\ Length(doc) \in Nat /\ 0 \in Nat /\ <<>> \in Replacements \cup {<<>>}
  BY GoodDocFields DEF JobInv
<1>1. PICK p \in Patterns, wrap \in BOOLEAN :
        \/ \E range \in SearchRanges, backward \in BOOLEAN :
             \E from \in Froms(range, backward) : StartNext(p, backward, wrap, range, from)
        \/ \E range \in SearchRanges : StartAll(p, range)
        \/ \E range \in SearchRanges, r \in Replacements : StartReplaceAll(p, r, range)
        \/ \E r \in Replacements, at \in Offsets : ReplaceCurrent(p, r, at, wrap)
  BY DEF HStart, Start
<1>2. p \in Patterns /\ wrap \in BOOLEAN /\ FALSE \in BOOLEAN
  BY <1>1
<1>3. doc' \in GoodDocs /\ UNCHANGED <<source, bad>>
  <2>1. JobInv'
    BY StartKeeps DEF HStart
  <2>2. UNCHANGED <<source, bad>>
    BY DEF HStart, Start, StartNext, StartAll, StartReplaceAll, ReplaceCurrent
  <2>3. QED
    BY <2>1, <2>2 DEF JobInv
<1>. DEFINE T == TextOf(doc', letters')
            U == UnreadIn(doc')
<1>4. Text' = T /\ Unread' = U
  BY <1>3, TextAfter
<1>5. asked'.text = T /\ asked'.unread = U /\ asked'.searcher = job'.searcher
  BY DEF HStart, AskedNow
<1>6. Len(T) = Length(doc')
  BY <1>3, TextLength
<1>. HIDE DEF T, U
<1>7. ASSUME NEW range \in SearchRanges, NEW backward \in BOOLEAN,
             NEW from \in Froms(range, backward), StartNext(p, backward, wrap, range, from)
      PROVE  Searched(job', T, U, asked')
  <2>1. range[1] \in Nat /\ range[2] \in Nat /\ range[1] <= range[2] /\ from \in Nat
    BY <1>0, <1>7, RangesAre
  <2>2. MayAsk(doc, "Next", p, <<>>, range, from, backward, wrap)
    BY <1>0, <1>2, <1>7, <2>1 DEF MayAsk
  <2>3. job' = JobOf(doc, "Next", p, <<>>, range, from, backward, wrap) /\ doc' = doc
    BY <1>7 DEF StartNext, Begin
  <2>. DEFINE j == job'
              a == asked'
              k == "Next"
              none == <<>>
  <2>4. /\ MayAsk(doc, k, p, none, range, from, backward, wrap) /\ k # "All"
        /\ j = JobOf(doc, k, p, none, range, from, backward, wrap)
        /\ a.text = T /\ a.unread = U /\ a.searcher = j.searcher /\ Len(T) = Length(doc)
    BY <1>5, <1>6, <2>2, <2>3
  <2>. HIDE DEF j, a, k, none
  <2>5. Searched(j, T, U, a)
    BY ONLY <2>4, JobSearched
  <2>6. QED
    BY <2>5 DEF j, a
<1>8. ASSUME NEW range \in SearchRanges, StartAll(p, range)
      PROVE  Searched(job', T, U, asked')
  <2>1. range[1] \in Nat /\ range[2] \in Nat /\ range[1] <= range[2]
    BY <1>0, <1>8, RangesAre
  <2>. DEFINE no == FALSE
              x == range[1]
              j == job'
              a == asked'
              k == "All"
              none == <<>>
  <2>2. MayAsk(doc, k, p, none, range, x, no, no)
    BY <1>0, <1>2, <2>1 DEF MayAsk
  <2>3. j = JobOf(doc, k, p, none, range, x, no, no) /\ doc' = doc
    BY <1>8 DEF StartAll, Begin
  <2>4. range[2] <= Length(doc)
    BY <1>0, <1>8 DEF SearchRanges, Whole
  <2>5. /\ a.text = T /\ a.unread = U /\ a.searcher = j.searcher /\ Len(T) = Length(doc)
        /\ ~ no /\ x = range[1]
    BY <1>5, <1>6, <2>3
  <2>. HIDE DEF j, a, k, none, no, x
  <2>6. Searched(j, T, U, a)
    BY ONLY <2>2, <2>3, <2>4, <2>5, JobSearched
  <2>7. QED
    BY <2>6 DEF j, a
<1>9. ASSUME NEW range \in SearchRanges, NEW r \in Replacements, StartReplaceAll(p, r, range)
      PROVE  FALSE
  <2>1. Begin(JobOf(doc, "ReplaceAll", p, r, range, range[1], FALSE, FALSE))
    BY <1>9 DEF StartReplaceAll
  <2>2. job'.kind = "ReplaceAll"
    BY <2>1 DEF Begin, JobOf
  <2>3. QED
    BY <2>2
<1>10. ASSUME NEW r \in Replacements, NEW at \in Offsets, ReplaceCurrent(p, r, at, wrap)
       PROVE  Searched(job', T, U, asked')
  <2>1. job = NoJob /\ Replaced(p, r, at, wrap) /\ at \in Nat /\ Len(r) \in Nat
    BY <1>0, <1>10, ReplacementLetters DEF ReplaceCurrent, Offsets
  <2>2. Begin(JobOf(doc', "Next", p, <<>>, Whole(doc'), at + Len(r), FALSE, wrap))
    BY <2>1 DEF Replaced
  <2>. DEFINE no == FALSE
              w == Whole(doc')
              x == at + Len(r)
              j == job'
              a == asked'
              k == "Next"
              none == <<>>
              d == doc'
  <2>3. d \in GoodDocs /\ Length(d) \in Nat /\ w = <<0, Length(d)>>
    BY <1>3, GoodDocFields DEF Whole
  <2>4. w[1] \in Nat /\ w[2] \in Nat /\ w[1] <= w[2] /\ x \in Nat /\ no \in BOOLEAN
    BY <2>1, <2>3
  <2>5. j = JobOf(d, k, p, none, w, x, no, wrap) /\ k # "All"
    BY <2>2 DEF Begin
  <2>6. /\ a.text = T /\ a.unread = U /\ a.searcher = j.searcher /\ Len(T) = Length(d)
    BY <1>5, <1>6
  <2>7. MayAsk(d, k, p, none, w, x, no, wrap)
    <3>1. k = "Next" /\ none = <<>>
      OBVIOUS
    <3>. HIDE DEF d, k, none, w, x, no
    <3>2. QED
      BY <1>0, <1>2, <2>3, <2>4, <3>1 DEF MayAsk
  <2>. HIDE DEF j, a, k, none, no, x, w, d
  <2>8. Searched(j, T, U, a)
    BY ONLY <2>5, <2>6, <2>7, JobSearched
  <2>9. QED
    BY <2>8 DEF j, a
<1>11. Searched(job', T, U, asked')
  BY <1>1, <1>7, <1>8, <1>9, <1>10
<1>12. QED
  BY <1>4, <1>11

\* Every step keeps what a search that nobody disturbed has found right.
LEMMA NextSearched == JobInv /\ SearchedInv /\ [HNext]_hvars => SearchedInv'
<1>1. SUFFICES ASSUME JobInv, SearchedInv, [HNext]_hvars PROVE SearchedInv'
  OBVIOUS
<1>2. CASE HStart
  BY <1>1, <1>2, StartSearched DEF SearchedInv
<1>3. CASE BeginFrame /\ UNCHANGED asked
  <2>1. UNCHANGED <<doc, letters, source, bad, job, asked>>
    BY <1>3 DEF BeginFrame
  <2>2. Text' = Text /\ Unread' = Unread
    BY <2>1 DEF Text, Unread, TextOf, UnreadIn
  <2>3. QED
    BY <1>1, <2>1, <2>2 DEF SearchedInv
<1>4. CASE HEnd /\ job' = NoJob
  BY <1>4 DEF SearchedInv
<1>5. CASE (DriveNext \/ DriveAll) /\ job' # NoJob /\ asked' = asked
  <2>1. UNCHANGED <<doc, letters, source, bad>>
    BY <1>5 DEF DriveNext, DriveAll
  <2>2. Text' = Text /\ Unread' = Unread
    BY <2>1 DEF Text, Unread, TextOf, UnreadIn
  <2>3. job # NoJob /\ job.kind # "ReplaceAll"
    <3>1. job.kind \in {"Next", "All"}
      BY <1>5 DEF DriveNext, DriveAll
    <3>2. QED
      BY <3>1 DEF NoJob
  <2>4. asked.is = "known" => Searched(job', Text, Unread, asked)
    BY <1>1, <1>5, <2>3, DriveSearched DEF SearchedInv
  <2>5. QED
    BY <1>5, <2>2, <2>4 DEF SearchedInv
<1>6. CASE DriveReplaceAll /\ job' # NoJob
  <2>1. job'.kind = "ReplaceAll"
    <3>1. job # NoJob /\ job.kind = "ReplaceAll" /\ (ReplacesStep \/ TearsStep \/ RefusesStep)
      BY <1>6, DriveReplaceAllIs
    <3>2. ReplacesStep
      BY <1>6, <3>1 DEF TearsStep, RefusesStep, Finish
    <3>3. job' = Restarted(job, Step, doc')
      BY <1>6, <3>2 DEF ReplacesStep, GoesOn
    <3>4. job \in Jobs
      BY <1>1, <3>1 DEF JobInv, GoodJob
    <3>5. QED
      BY <3>1, <3>3, <3>4 DEF Restarted, Jobs
  <2>2. QED
    BY <2>1 DEF SearchedInv
<1>7. CASE HUser
  <2>1. asked'.is # "known"
    BY <1>7 DEF HUser, NotAsked, Disturbed
  <2>2. QED
    BY <2>1 DEF SearchedInv
<1>8. CASE UNCHANGED hvars
  <2>1. UNCHANGED <<doc, letters, source, bad, job, asked>>
    BY <1>8 DEF hvars, searchvars
  <2>2. Text' = Text /\ Unread' = Unread
    BY <2>1 DEF Text, Unread, TextOf, UnreadIn
  <2>3. QED
    BY <1>1, <2>1, <2>2 DEF SearchedInv
<1>9. ASSUME HEnd, job' # NoJob PROVE (Drive /\ asked' = asked)
  BY <1>9 DEF HEnd, Cancel, Finish
<1>10. QED
  BY <1>1, <1>2, <1>3, <1>4, <1>5, <1>6, <1>7, <1>8, <1>9 DEF HNext, Drive

\* In every state the search that runs undisturbed has passed no match by.
LEMMA SearchedInvHolds == HSpec => [](JobInv /\ SearchedInv)
<1>1. HInit => JobInv /\ SearchedInv
  <2>1. HInit => job = NoJob
    BY DEF HInit, SearchInit
  <2>2. QED
    BY <2>1, InitJob DEF SearchedInv
<1>2. (JobInv /\ SearchedInv) /\ [HNext]_hvars => (JobInv /\ SearchedInv)'
  BY NextJob, NextSearched
<1>3. QED
  BY <1>1, <1>2, PTL DEF HSpec

\* A job ends by itself only in a step of its own kind (drive.rs:27-112).
LEMMA WhatEnds ==
  ASSUME JobInv, HNext, job # NoJob, job' = NoJob
  PROVE  /\ outcome'.kind \in {"All", "Truncated"} => DriveAll
         /\ outcome'.kind \in {"Match", "NoMatch"} => DriveNext
         /\ outcome'.kind \in {"Replaced"} => DriveReplaceAll
<1>1. CASE Start
  <2>1. PICK p \in Patterns, wrap \in BOOLEAN, range \in SearchRanges, backward \in BOOLEAN :
          \E from \in Froms(range, backward) : StartNext(p, backward, wrap, range, from)
    BY <1>1 DEF Start, StartAll, StartReplaceAll, ReplaceCurrent
  <2>2. PICK from \in Froms(range, backward) : StartNext(p, backward, wrap, range, from)
    BY <2>1
  <2>3. job'.kind = "Next"
    BY <2>2 DEF StartNext, Begin, JobOf
  <2>4. QED
    BY <2>3 DEF NoJob
<1>2. CASE BeginFrame
  BY <1>2 DEF BeginFrame
<1>3. CASE User
  BY <1>3, UserKeeps
<1>4. CASE Cancel
  BY <1>4 DEF Cancel, Finish, Ended
<1>5. CASE DriveNext
  <2>1. outcome'.kind \notin {"All", "Truncated", "Replaced"}
    <3>1. outcome = [kind |-> "Pending"]
      BY DEF JobInv, Pending
    <3>2. \/ \E x : outcome' = [kind |-> "Match", at |-> x]
          \/ outcome' = [kind |-> "NoMatch"]
          \/ outcome' = outcome
      BY <1>5 DEF DriveNext, Finish, GoesOn, Ended
    <3>3. QED
      BY <3>1, <3>2
  <2>2. QED
    BY <1>5, <2>1
<1>6. CASE DriveAll
  <2>1. outcome'.kind \notin {"Match", "NoMatch", "Replaced"}
    <3>1. outcome = [kind |-> "Pending"]
      BY DEF JobInv, Pending
    <3>2. \/ \E x : outcome' = [kind |-> "Truncated", results |-> x]
          \/ \E x : outcome' = [kind |-> "All", results |-> x]
          \/ outcome' = outcome
      BY <1>6 DEF DriveAll, Finish, GoesOn
    <3>3. QED
      BY <3>1, <3>2
  <2>2. QED
    BY <1>6, <2>1
<1>7. CASE DriveReplaceAll
  <2>1. outcome = [kind |-> "Pending"]
    BY DEF JobInv, Pending
  <2>2. \/ outcome' = [kind |-> "Replaced", count |-> job.count + Len(Step.out)]
        \/ outcome' = outcome \/ outcome' = Ended("Torn") \/ outcome' = Ended("Error")
    BY <1>7, DriveReplaceAllIs DEF ReplacesStep, TearsStep, RefusesStep, Finish, GoesOn
  <2>3. QED
    BY <1>7, <2>1, <2>2 DEF Ended
<1>8. QED
  BY <1>1, <1>2, <1>3, <1>4, <1>5, <1>6, <1>7 DEF HNext, HStart, HEnd, HUser, Drive

\* How "find all" ends when nobody disturbed it (drive.rs:51-75).
LEMMA AllEnds ==
  ASSUME JobInv, SearchedInv, DriveAll, job' = NoJob, asked.is = "known",
         outcome'.kind \in {"All", "Truncated"}
  PROVE  ListIsRight(outcome'.kind, outcome'.results, job.pattern, asked.text, asked.unread,
                     asked.searcher.start, asked.searcher.stop)
<1>1. job.kind = "All" /\ job # NoJob
  <2>1. job.kind = "All"
    BY DEF DriveAll
  <2>2. QED
    BY <2>1 DEF NoJob
<1>2. Searched(job, Text, Unread, asked)
  BY <1>1 DEF SearchedInv
<1>. DEFINE s == Step.searcher
            out == Step.out
            all == job.results \o out
            list == SubSeq(all, 1, Smaller(Len(all), MaxResults))
            p == job.pattern
            kind == outcome'.kind
<1>3. /\ GoodSearcher(s, Len(p)) /\ SameSearch(s, asked.searcher)
      /\ Progress(all, s, p, Text, Unread) /\ Listing(all, s, p, Text)
  BY <1>1, <1>2, StepSearched
<1>4. Len(p) \in Nat \ {0} /\ Unread \in SUBSET Nat
  BY <1>1, JobFields, UnreadIs DEF JobInv, Unread
<1>5. asked.text = Text /\ asked.unread = Unread
  BY <1>2 DEF Searched
<1>6. /\ outcome'.results = list
      /\ \/ kind = "Truncated" /\ Len(all) > MaxResults
         \/ kind = "All" /\ ~ (Len(all) > MaxResults) /\ s.finished
  <2>1. \/ Len(all) > MaxResults /\ Finish([kind |-> "Truncated", results |-> list])
        \/ ~ (Len(all) > MaxResults) /\ s.finished /\ Finish([kind |-> "All", results |-> list])
        \/ outcome' = outcome
    BY DEF DriveAll, GoesOn
  <2>2. outcome' # outcome
    BY <1>1 DEF JobInv, Pending
  <2>. HIDE DEF list, all, s
  <2>3. QED
    BY <2>1, <2>2 DEF Finish
<1>. HIDE DEF s, out, all, p, kind
<1>7. ListIsRight(kind, SubSeq(all, 1, Smaller(Len(all), MaxResults)), p, Text, Unread, s.start, s.stop)
  BY <1>3, <1>4, <1>6, ListShown
<1>8. s.start = asked.searcher.start /\ s.stop = asked.searcher.stop
  BY <1>3 DEF SameSearch
<1>9. QED
  BY <1>5, <1>6, <1>7, <1>8 DEF p, kind

\* "Find all" lists the matches of its range, left to right without overlap, up to
\* the cap, and where bytes cannot be read misses at most what overlaps a match that
\* is listed or one that touches them (search.rs:78-147, drive.rs:51-75).
THEOREM FindsAll == HSpec => FindAllIsExact
<1>. DEFINE P == EndsKnown({"All", "Truncated"}) =>
       /\ asked.unread = {} =>
            /\ outcome'.results = SubSeq(AskedGreedy, 1, Smaller(MaxResults, Len(AskedGreedy)))
            /\ outcome'.kind = "Truncated" <=> Len(AskedGreedy) > MaxResults
       /\ outcome'.kind = "All" =>
            \A i \in AskedOccurrences :
              \E j \in AskedOccurrences :
                /\ j < i + Len(job.pattern) /\ i < j + Len(job.pattern)
                /\ \/ j \in Elements(outcome'.results)
                   \/ asked.unread \cap (j .. j + Len(job.pattern) - 1) # {}
<1>1. (JobInv /\ SearchedInv) /\ [HNext]_hvars => [P]_hvars
  <2>1. ASSUME JobInv, SearchedInv, HNext PROVE P
    <3>1. SUFFICES ASSUME EndsKnown({"All", "Truncated"}) PROVE P
      OBVIOUS
    <3>2. DriveAll
      BY <2>1, <3>1, WhatEnds DEF EndsKnown
    <3>3. ListIsRight(outcome'.kind, outcome'.results, job.pattern, asked.text, asked.unread,
                      asked.searcher.start, asked.searcher.stop)
      BY <2>1, <3>1, <3>2, AllEnds DEF EndsKnown
    <3>4. QED
      BY <3>3 DEF ListIsRight, AskedOccurrences, AskedGreedy
  <2>. HIDE DEF P
  <2>2. QED
    BY <2>1
<1>2. QED
  BY <1>1, SearchedInvHolds, PTL DEF HSpec, FindAllIsExact

\* What a search for the next match of s ends with, when everything is read.
NextEnds(s, p, text) ==
  LET at == WantedBy(s, p, text)
  IN  IF at = {} THEN Ended("NoMatch") ELSE [kind |-> "Match", at |-> Nearest(at)]

\* How Next and Previous end when nobody disturbed them (drive.rs:39-50).
LEMMA NextFinds ==
  ASSUME JobInv, SearchedInv, DriveNext, job' = NoJob, asked.is = "known",
         outcome'.kind \in {"Match", "NoMatch"}, asked.unread = {},
         ~ (asked.searcher.backward /\ SelfOverlaps(job.pattern))
  PROVE  outcome' = NextEnds(asked.searcher, job.pattern, asked.text)
<1>1. job.kind = "Next" /\ job # NoJob
  <2>1. job.kind = "Next"
    BY DEF DriveNext
  <2>2. QED
    BY <2>1 DEF NoJob
<1>2. Searched(job, Text, Unread, asked)
  BY <1>1 DEF SearchedInv
<1>. DEFINE s == job.searcher
            st == Step
            t == st.searcher
            out == st.out
            p == job.pattern
            m == Len(p)
            k == IF s.backward THEN Len(out) ELSE 1
            a == asked.searcher
<1>3. /\ StepIs(st, s, p, Text, Unread) /\ GoodSearcher(t, m) /\ SameSearch(t, a)
      /\ Progress(job.results \o out, t, p, Text, Unread) /\ Wraps(t, m) /\ out \in Seq(Nat)
  BY <1>1, <1>2, StepSearched
<1>4. /\ asked.text = Text /\ asked.unread = Unread /\ SameSearch(s, a)
      /\ Progress(<<>>, s, p, Text, {}) /\ Wraps(s, m) /\ job.results = <<>> /\ Unread = {}
  BY <1>1, <1>2 DEF Searched
<1>5. m \in Nat \ {0} /\ GoodSearcher(s, m)
  BY <1>1, JobFields DEF JobInv
<1>6. \/ out # <<>> /\ outcome' = [kind |-> "Match", at |-> out[k]]
      \/ out = <<>> /\ t.finished /\ outcome' = Ended("NoMatch")
  <2>1. \/ out # <<>> /\ Finish([kind |-> "Match", at |-> out[k]])
        \/ out = <<>> /\ t.finished /\ Finish(Ended("NoMatch"))
        \/ outcome' = outcome
    BY DEF DriveNext, GoesOn
  <2>2. outcome' # outcome
    BY <1>1 DEF JobInv, Pending
  <2>. HIDE DEF k, out, t
  <2>3. QED
    BY <2>1, <2>2 DEF Finish
<1>7. \A y : SameSearch(y, a) => WantedBy(y, p, Text) = WantedBy(a, p, Text)
  BY DEF SameSearch, WantedBy
<1>. HIDE DEF s, st, t, p, m, a
<1>8. CASE out # <<>> /\ outcome' = [kind |-> "Match", at |-> out[k]]
  <2>1. ~ StepWithout(st, s, m)
    BY <1>8 DEF StepWithout
  <2>2. ~ s.finished /\ \E c0, c1, y : StepOver(st, s, p, Text, Unread, c0, c1, y)
    BY <1>3, <2>1 DEF StepIs, m
  <2>3. PICK c0, c1, y : StepOver(st, s, p, Text, Unread, c0, c1, y)
    BY <2>2
  <2>4. c0 \in Nat /\ c1 \in Nat /\ Scans(s, p, Text, {}, c0, c1, out)
    BY <1>4, <2>3 DEF StepOver
  <2>5. ~ (s.backward /\ SelfOverlaps(p))
    BY <1>4 DEF SameSearch, a, p
  <2>. DEFINE o == out
  <2>6. o # <<>> /\ Scans(s, p, Text, {}, c0, c1, o)
    BY <1>8, <2>4
  <2>. HIDE DEF out, o
  <2>7. WantedBy(s, p, Text) = {o[IF s.backward THEN Len(o) ELSE 1]}
    <3>1. Len(p) \in Nat \ {0} /\ GoodSearcher(s, Len(p)) /\ Wraps(s, Len(p)) /\ Progress(<<>>, s, p, Text, {})
      BY <1>4, <1>5 DEF m
    <3>2. QED
      BY ONLY <3>1, <2>2, <2>4, <2>5, <2>6, MatchIsWanted
  <2>8. k \in 1 .. Len(out) /\ out[k] \in Nat
    <3>1. out \in Seq(Nat) /\ out # <<>>
      BY <1>3, <1>8 DEF out
    <3>2. Len(out) \in Nat /\ Len(out) >= 1
      BY <3>1
    <3>3. k \in 1 .. Len(out)
      BY <3>2
    <3>. HIDE DEF k
    <3>4. QED
      BY <3>1, <3>3
  <2>9. WantedBy(a, p, Text) = {out[k]}
    BY <1>4, <1>7, <2>7 DEF o
  <2>. DEFINE x == out[k]
  <2>. HIDE DEF x, k
  <2>10. Nearest({x}) = x
    <3>1. x \in Nat /\ {x} \in SUBSET Nat /\ x \in {x} /\ \A j \in {x} : x <= j
      BY <2>8 DEF x
    <3>2. QED
      BY <3>1, NearestAt
  <2>11. WantedBy(a, p, Text) = {x} /\ outcome' = [kind |-> "Match", at |-> x]
    BY <1>8, <2>9 DEF x, out
  <2>12. NextEnds(a, p, Text) = [kind |-> "Match", at |-> x]
    BY <2>10, <2>11 DEF NextEnds
  <2>13. QED
    BY <1>4, <2>11, <2>12 DEF a, p
<1>9. CASE out = <<>> /\ t.finished /\ outcome' = Ended("NoMatch")
  <2>1. Progress(<<>>, t, p, Text, {})
    <3>1. job.results \o out = <<>>
      BY <1>4, <1>9
    <3>. HIDE DEF out
    <3>2. QED
      BY <1>3, <1>4, <3>1 DEF out
  <2>2. WantedBy(t, p, Text) = {}
    BY <1>3, <1>5, <1>9, <2>1, NoMatchIsWanted DEF m
  <2>3. WantedBy(a, p, Text) = {}
    BY <1>3, <1>7, <2>2
  <2>4. QED
    BY <1>4, <1>9, <2>3 DEF NextEnds, a, p
<1>10. QED
  BY <1>6, <1>8, <1>9

\* Next and Previous find the nearest match, around the end when they wrap, in
\* whatever windows and frames the text is scanned; backwards a pattern that overlaps
\* itself is not sure to (drive.rs:39-50).
THEOREM FindsNearest == HSpec => NextIsNearest
<1>. DEFINE P == EndsKnown({"Match", "NoMatch"}) /\ asked.unread = {}
                   => \/ outcome' = Expected
                      \/ asked.searcher.backward /\ SelfOverlaps(job.pattern)
<1>1. (JobInv /\ SearchedInv) /\ [HNext]_hvars => [P]_hvars
  <2>1. ASSUME JobInv, SearchedInv, HNext PROVE P
    <3>1. SUFFICES ASSUME EndsKnown({"Match", "NoMatch"}), asked.unread = {},
                          ~ (asked.searcher.backward /\ SelfOverlaps(job.pattern))
                   PROVE  outcome' = Expected
      OBVIOUS
    <3>2. DriveNext
      BY <2>1, <3>1, WhatEnds DEF EndsKnown
    <3>3. outcome' = NextEnds(asked.searcher, job.pattern, asked.text)
      BY <2>1, <3>1, <3>2, NextFinds DEF EndsKnown
    <3>4. Expected = NextEnds(asked.searcher, job.pattern, asked.text)
      BY DEF Expected, NextEnds, WantedBy, AskedOccurrences
    <3>5. QED
      BY <3>3, <3>4
  <2>. HIDE DEF P
  <2>2. QED
    BY <2>1
<1>2. QED
  BY <1>1, SearchedInvHolds, PTL DEF HSpec, NextIsNearest

-----------------------------------------------------------------------------
(* Replace-all: from restart to restart. *)

\* How far the text has shifted after a + b replacements.
LEMMA TimesSum ==
  ASSUME NEW a \in Int, NEW b \in Int, NEW x \in Int
  PROVE  (a + b) * x = a * x + b * x /\ a * x \in Int /\ b * x \in Int /\ (a + b) * x \in Int
OBVIOUS

\* How far a text has shifted behind the matches of list, each replaced by r.
ShiftIs(D, list, m, r) == D = Len(list) * (Len(r) - m)

\* The letter at position x of text is still there in z, D further on.
OldAt(text, z, D, x) == x + D \in Nat /\ D \in Int /\ z[x + D + 1] = text[x + 1]

\* Behind the matches replaced, the text is the old one, further on.
LEMMA BehindIsOld ==
  ASSUME NEW text, Len(text) \in Nat, NEW z, NEW list, NEW m \in Nat \ {0}, NEW r, Len(r) \in Nat,
         PutIn(text, z, list, m, r), NEW D, ShiftIs(D, list, m, r),
         NEW x \in Nat, x < Len(text), \A k \in 1 .. Len(list) : list[k] + m <= x
  PROVE  OldAt(text, z, D, x)
<1>. DEFINE K == Len(list)
            N == Len(text)
            n == Len(r)
<1>1. /\ Matches(N, list, m)
      /\ \A k \in 0 .. K, i \in 0 .. N - 1 :
           Between(N, list, m, k, i) /\ (k < K => i < list[k + 1]) => z[i + k * (n - m) + 1] = text[i + 1]
  BY DEF PutIn
<1>2. K \in Nat /\ K \in 0 .. K
  BY <1>1 DEF Matches
<1>3. x \in 0 .. N - 1
  OBVIOUS
<1>4. Between(N, list, m, K, x)
  <2>1. K > 0 => list[K] + m <= x
    <3>1. K > 0 => K \in 1 .. K
      BY <1>2
    <3>2. QED
      BY <3>1
  <2>2. ~ (K < K)
    BY <1>2
  <2>3. QED
    BY <2>1, <2>2 DEF Between
<1>. HIDE DEF K, N, n
<1>5. z[x + K * (n - m) + 1] = text[x + 1]
  <2>1. ~ (K < K)
    BY <1>2
  <2>2. QED
    BY <1>1, <1>2, <1>3, <1>4, <2>1
<1>6. x + K * (n - m) \in Nat /\ K * (n - m) \in Int
  <2>1. n \in Nat /\ N \in Nat
    BY DEF n, N
  <2>2. QED
    BY <1>1, <1>2, <1>4, <2>1, BetweenShifts DEF K
<1>7. QED
  BY <1>5, <1>6 DEF K, n, ShiftIs, OldAt

\* Occurrences behind the matches replaced are those of the old text, further on.
LEMMA BehindOccurs ==
  ASSUME NEW text, Len(text) \in Nat, NEW z, NEW list, NEW p, Len(p) \in Nat \ {0},
         NEW r, Len(r) \in Nat, PutIn(text, z, list, Len(p), r),
         NEW D, ShiftIs(D, list, Len(p), r),
         NEW i \in Nat, \A k \in 1 .. Len(list) : list[k] + Len(p) <= i
  PROVE  Occurs(text, p, i) <=> Occurs(z, p, i + D)
<1>. DEFINE m == Len(p)
            N == Len(text)
<1>1. /\ Len(z) = N + D /\ N \in Nat /\ m \in Nat \ {0}
      /\ Len(list) \in Nat /\ \A k \in 1 .. Len(list) : list[k] \in Nat
  BY DEF PutIn, Matches, ShiftIs
<1>1a. D \in Int
  BY <1>1 DEF ShiftIs
<1>2. ASSUME NEW j \in 1 .. m, i + m <= N PROVE z[(i + D) + j] = text[i + j]
  <2>. DEFINE x == i + j - 1
  <2>1. x \in Nat /\ x < N /\ i <= x
    BY <1>1, <1>2
  <2>2. \A k \in 1 .. Len(list) : list[k] + m <= x
    <3>. HIDE DEF x
    <3>1. QED
      BY <1>1, <2>1
  <2>. HIDE DEF x
  <2>3. z[x + D + 1] = text[x + 1]
    <3>1. PutIn(text, z, list, m, r) /\ ShiftIs(D, list, m, r) /\ N = Len(text)
      OBVIOUS
    <3>. HIDE DEF m, N
    <3>2. QED
      <4>0. ShiftIs(D, list, m, r) /\ Len(text) \in Nat /\ x < Len(text) /\ m \in Nat \ {0} /\ Len(r) \in Nat
        BY <1>1, <2>1, <3>1
      <4>1. OldAt(text, z, D, x)
        BY ONLY <4>0, <2>1, <2>2, <3>1, BehindIsOld
      <4>2. QED
        BY <4>1 DEF OldAt
  <2>4. x + D + 1 = (i + D) + j /\ x + 1 = i + j
    BY <1>1a, <1>2 DEF x
  <2>5. QED
    BY <2>3, <2>4
<1>3. i + m <= N <=> (i + D) + m <= Len(z)
  BY <1>1, <1>1a
<1>. HIDE DEF m, N
<1>4. CASE i + m <= N
  <2>1. \A j \in 1 .. m : z[(i + D) + j] = text[i + j]
    BY <1>2, <1>4
  <2>2. QED
    BY <1>3, <1>4, <2>1 DEF Occurs, m, N
<1>5. CASE ~ (i + m <= N)
  BY <1>3, <1>5 DEF Occurs, m, N
<1>6. QED
  BY <1>4, <1>5

\* The matches of list, and those of out in the coordinates of list, D before.
Back(list, out, D) == list \o [k \in 1 .. Len(out) |-> out[k] - D]
BackIs(all, list, out, D) ==
  /\ all \in Seq(Nat) /\ Len(all) = Len(list) + Len(out)
  /\ \A k \in 1 .. Len(list) : all[k] = list[k]
  /\ \A k \in 1 .. Len(out) : all[Len(list) + k] = out[k] - D

\* What this sequence consists of.
LEMMA BackFacts ==
  ASSUME NEW list \in Seq(Nat), NEW out \in Seq(Nat), NEW D \in Int,
         \A k \in 1 .. Len(out) : out[k] - D \in Nat
  PROVE  BackIs(Back(list, out, D), list, out, D)
<1>. DEFINE O == Len(out)
            more == [k \in 1 .. O |-> out[k] - D]
<1>1. O \in Nat /\ \A k \in 1 .. O : out[k] - D \in Nat
  OBVIOUS
<1>2. more \in Seq(Nat) /\ Len(more) = O /\ \A k \in 1 .. O : more[k] = out[k] - D
  <2>. HIDE DEF O
  <2>1. QED
    BY <1>1
<1>. HIDE DEF more
<1>3. /\ list \o more \in Seq(Nat) /\ Len(list \o more) = Len(list) + O
      /\ \A k \in 1 .. Len(list) : (list \o more)[k] = list[k]
      /\ \A k \in 1 .. O : (list \o more)[Len(list) + k] = more[k]
  <2>. HIDE DEF O
  <2>1. more \in Seq(Nat) /\ Len(more) = O
    BY <1>2
  <2>2. /\ list \o more \in Seq(Nat) /\ Len(list \o more) = Len(list) + Len(more)
        /\ \A k \in 1 .. Len(list) : (list \o more)[k] = list[k]
        /\ \A k \in 1 .. Len(more) : (list \o more)[Len(list) + k] = more[k]
    <3>1. list \in Seq(Nat) /\ more \in Seq(Nat)
      BY <2>1
    <3>2. list \o more \in Seq(Nat) /\ Len(list \o more) = Len(list) + Len(more)
      BY <3>1
    <3>3. \A k \in 1 .. Len(list) : (list \o more)[k] = list[k]
      BY <3>1
    <3>4. \A k \in 1 .. Len(more) : (list \o more)[Len(list) + k] = more[k]
      BY <3>1
    <3>5. QED
      BY <3>2, <3>3, <3>4
  <2>3. QED
    BY <2>1, <2>2
<1>4. Back(list, out, D) = list \o more
  BY DEF Back, more
<1>5. QED
  BY <1>2, <1>3, <1>4 DEF BackIs

\* One step's matches lie behind those of the steps before.
Behind(list, out, m, D) ==
  \A k \in 1 .. Len(out) : /\ out[k] - D \in Nat
                           /\ \A l \in 1 .. Len(list) : list[l] + m <= out[k] - D

\* Matches of the old text and matches of the text they were replaced in are, put
\* together, matches of the old text.
LEMMA MatchesTwice ==
  ASSUME NEW N \in Nat, NEW list, NEW m \in Nat, Matches(N, list, m), NEW D \in Int,
         NEW out, Matches(N + D, out, m), Behind(list, out, m, D), NEW all, BackIs(all, list, out, D)
  PROVE  Matches(N, all, m)
<1>. DEFINE K == Len(list)
            O == Len(out)
<1>1. /\ list \in Seq(Nat) /\ K \in Nat
      /\ \A k \in 1 .. K : list[k] + m <= N /\ list[k] \in Nat
      /\ \A k \in 1 .. K - 1 : list[k] + m <= list[k + 1]
  BY DEF Matches
<1>2. /\ out \in Seq(Nat) /\ O \in Nat
      /\ \A k \in 1 .. O : out[k] + m <= N + D /\ out[k] \in Nat
      /\ \A k \in 1 .. O - 1 : out[k] + m <= out[k + 1]
  BY DEF Matches
<1>3. /\ all \in Seq(Nat) /\ Len(all) = K + O
      /\ \A k \in 1 .. K : all[k] = list[k]
      /\ \A k \in 1 .. O : all[K + k] = out[k] - D
  BY DEF BackIs
<1>4. \A k \in 1 .. O : out[k] - D \in Nat /\ \A l \in 1 .. K : list[l] + m <= out[k] - D
  BY DEF Behind
<1>. HIDE DEF K, O
<1>5. ASSUME NEW k \in 1 .. Len(all) PROVE all[k] + m <= N
  <2>1. k \in 1 .. K \/ (k - K \in 1 .. O /\ K + (k - K) = k)
    BY <1>1, <1>2, <1>3
  <2>2. CASE k \in 1 .. K
    BY <1>1, <1>3, <2>2
  <2>3. CASE k - K \in 1 .. O /\ K + (k - K) = k
    <3>1. all[K + (k - K)] = out[k - K] - D /\ out[k - K] + m <= N + D /\ out[k - K] \in Nat
      BY <1>2, <1>3, <2>3
    <3>2. all[k] = out[k - K] - D
      BY <2>3, <3>1
    <3>3. QED
      BY <3>1, <3>2
  <2>4. QED
    BY <2>1, <2>2, <2>3
<1>6. ASSUME NEW k \in 1 .. Len(all) - 1 PROVE all[k] + m <= all[k + 1]
  <2>1. \/ k \in 1 .. K - 1 /\ k \in 1 .. K /\ k + 1 \in 1 .. K
        \/ k = K /\ k \in 1 .. K /\ 1 \in 1 .. O
        \/ k - K \in 1 .. O - 1 /\ k - K \in 1 .. O /\ (k - K) + 1 \in 1 .. O
             /\ K + (k - K) = k /\ K + ((k - K) + 1) = k + 1
    BY <1>1, <1>2, <1>3
  <2>2. CASE k \in 1 .. K - 1 /\ k \in 1 .. K /\ k + 1 \in 1 .. K
    BY <1>1, <1>3, <2>2
  <2>3. CASE k = K /\ k \in 1 .. K /\ 1 \in 1 .. O
    <3>1. all[k] = list[k] /\ all[K + 1] = out[1] - D /\ list[k] + m <= out[1] - D
      BY <1>3, <1>4, <2>3
    <3>2. QED
      BY <2>3, <3>1
  <2>4. CASE k - K \in 1 .. O - 1 /\ k - K \in 1 .. O /\ (k - K) + 1 \in 1 .. O
             /\ K + (k - K) = k /\ K + ((k - K) + 1) = k + 1
    <3>. DEFINE l == k - K
    <3>1. l \in 1 .. O - 1 /\ l \in 1 .. O /\ l + 1 \in 1 .. O /\ K + l = k /\ K + (l + 1) = k + 1
      BY <2>4
    <3>. HIDE DEF l
    <3>2. all[K + l] = out[l] - D /\ all[K + (l + 1)] = out[l + 1] - D
      BY <1>3, <3>1
    <3>3. out[l] + m <= out[l + 1] /\ out[l] \in Nat /\ out[l + 1] \in Nat
      BY <1>2, <3>1
    <3>4. all[k] = out[l] - D /\ all[k + 1] = out[l + 1] - D
      BY <3>1, <3>2
    <3>5. QED
      BY <3>3, <3>4
  <2>5. QED
    BY <2>1, <2>2, <2>3, <2>4
<1>7. QED
  BY <1>3, <1>5, <1>6 DEF Matches

\* The matches before a position end before it when they are replaced.
LEMMA ReplacedBefore ==
  ASSUME NEW list, NEW m \in Nat \ {0}, NEW n \in Nat, NEW x \in Nat, Matches(x, list, m)
  PROVE  \A k \in 1 .. Len(list) :
           /\ Shifted(list, k, n - m) \in Nat
           /\ Shifted(list, k, n - m) + n <= x + Len(list) * (n - m)
BY ShiftsInside

\* Replacing in a text what is left after replacing.
LEMMA PutInTwice ==
  ASSUME NEW text, Len(text) \in Nat, NEW z, NEW w, NEW list, NEW out, NEW m \in Nat \ {0},
         NEW r, Len(r) \in Nat, PutIn(text, z, list, m, r), PutIn(z, w, out, m, r),
         NEW D, ShiftIs(D, list, m, r), Behind(list, out, m, D),
         NEW all, BackIs(all, list, out, D)
  PROVE  PutIn(text, w, all, m, r)
<1>. DEFINE N == Len(text)
            M == Len(z)
            n == Len(r)
            d == n - m
            K == Len(list)
            O == Len(out)
            e(k) == k * d
<1>1. /\ Matches(N, list, m) /\ M = N + e(K)
      /\ \A k \in 0 .. K, i \in 0 .. N - 1 :
           Between(N, list, m, k, i) /\ (k < K => i < list[k + 1]) => z[i + e(k) + 1] = text[i + 1]
      /\ \A k \in 1 .. K, i \in 1 .. n : z[Shifted(list, k, d) + i] = r[i]
  BY DEF PutIn
<1>2. /\ Matches(M, out, m) /\ Len(w) = M + e(O)
      /\ \A k \in 0 .. O, i \in 0 .. M - 1 :
           Between(M, out, m, k, i) /\ (k < O => i < out[k + 1]) => w[i + e(k) + 1] = z[i + 1]
      /\ \A k \in 1 .. O, i \in 1 .. n : w[Shifted(out, k, d) + i] = r[i]
  BY DEF PutIn
<1>3. K \in Nat /\ O \in Nat /\ n \in Nat /\ d \in Int /\ N \in Nat /\ list \in Seq(Nat) /\ out \in Seq(Nat)
  BY <1>1, <1>2 DEF Matches
<1>3a. /\ \A k \in 1 .. K : list[k] \in Nat /\ list[k] + m <= N
       /\ \A k \in 1 .. K - 1 : list[k] + m <= list[k + 1]
       /\ \A k \in 1 .. O : out[k] \in Nat /\ out[k] + m <= M
  <2>1. /\ \A k \in 1 .. K : list[k] + m <= N
        /\ \A k \in 1 .. K - 1 : list[k] + m <= list[k + 1]
        /\ \A k \in 1 .. O : out[k] + m <= M
    BY <1>1, <1>2 DEF Matches
  <2>2. (\A k \in 1 .. K : list[k] \in Nat) /\ (\A k \in 1 .. O : out[k] \in Nat)
    BY <1>3, SMTT(30)
  <2>. HIDE DEF K, O, N, M
  <2>3. QED
    BY <2>1, <2>2
<1>. HIDE DEF d
<1>4. /\ \A a, b \in Int : e(a + b) = e(a) + e(b)
      /\ \A a \in Int : e(a) \in Int
      /\ e(0) = 0 /\ e(1) = d
  <2>1. \A a, b \in Int : e(a + b) = e(a) + e(b) /\ e(a) \in Int
    BY <1>3, TimesSum
  <2>2. e(0) = 0 /\ e(1) = d
    BY <1>3
  <2>3. QED
    BY <2>1, <2>2
<1>5. D = e(K) /\ D \in Int
  <2>1. D = e(K)
    BY DEF ShiftIs, d
  <2>2. e(K) \in Int
    BY <1>3, <1>4
  <2>3. QED
    BY <2>1, <2>2
<1>. HIDE DEF e, K, O, N, M, n
<1>6. M = N + D /\ M \in Nat
  <2>1. M = N + D
    BY <1>1, <1>5
  <2>2. \A x \in Nat, y \in Int : x + y \in Int
    OBVIOUS
  <2>3. Matches(M, out, m)
    BY <1>2
  <2>4. Len(z) \in Nat
    <3>1. M \in Nat
      <4>1. 0 <= N + e(K)
        <5>1. CASE K = 0
          BY <1>3, <1>4, <5>1
        <5>2. CASE K # 0
          <6>1. K \in 1 .. K
            BY <1>3, <5>2
          <6>2. Shifted(list, K, n - m) \in Nat /\ Shifted(list, K, n - m) + n <= N + K * (n - m)
            BY <1>1, <1>3, <6>1, ReplacedBefore DEF K
          <6>3. K * (n - m) = e(K)
            BY DEF e, d, n
          <6>4. QED
            BY <1>3, <1>5, <6>2, <6>3
        <5>3. QED
          BY <5>1, <5>2
      <4>2. QED
        BY <1>3, <1>5, <2>1, <4>1
    <3>2. QED
      BY <3>1 DEF M
  <2>5. QED
    BY <2>1, <2>4 DEF M
<1>7. /\ Len(all) = K + O
      /\ \A k \in 1 .. K : all[k] = list[k]
      /\ \A k \in 1 .. O : all[K + k] = out[k] - D
  BY DEF BackIs, K, O
<1>8. \A k \in 1 .. O : out[k] - D \in Nat /\ \A l \in 1 .. K : list[l] + m <= out[k] - D
  BY DEF Behind, K, O
<1>9. Matches(N, all, m)
  <2>1. Matches(N + D, out, m)
    BY <1>2, <1>6
  <2>2. QED
    BY <1>1, <1>3, <1>5, <2>1, MatchesTwice
<1>10. Len(w) = N + e(K + O)
  <2>0. K \in Int /\ O \in Int
    BY <1>3
  <2>1. e(K + O) = e(K) + e(O) /\ e(K) \in Int /\ e(O) \in Int
    BY <1>4, <2>0
  <2>2. QED
    BY <1>1, <1>2, <1>3, <2>1
<1>11. ASSUME NEW k \in 1 .. K
       PROVE  /\ Shifted(list, k, d) \in Nat /\ Shifted(list, k, d) + n <= M
              /\ 0 < O => Shifted(list, k, d) + n <= out[1]
  <2>1. Shifted(list, k, d) \in Nat /\ Shifted(list, k, d) + n <= N + D
    <3>1. Shifted(list, k, n - m) \in Nat /\ Shifted(list, k, n - m) + n <= N + K * (n - m)
      BY <1>1, <1>3, ReplacedBefore DEF K
    <3>2. K * (n - m) = D
      BY <1>5 DEF e, d, n
    <3>3. QED
      BY <3>1, <3>2 DEF d, n
  <2>2. ASSUME 0 < O PROVE Shifted(list, k, d) + n <= out[1]
    <3>. DEFINE x == out[1] - D
    <3>1. 1 \in 1 .. O
      BY <1>3, <2>2
    <3>2. x \in Nat /\ out[1] \in Nat /\ \A l \in 1 .. K : list[l] + m <= x
      BY <1>3a, <1>8, <3>1
    <3>. HIDE DEF x
    <3>3. Matches(x, list, m)
      BY <1>3, <1>3a, <3>2 DEF Matches, K
    <3>4. Shifted(list, k, n - m) + n <= x + K * (n - m) /\ Shifted(list, k, n - m) \in Nat
      BY <1>3, <3>2, <3>3, ReplacedBefore DEF K
    <3>5. K * (n - m) = D
      BY <1>5 DEF e, d, n
    <3>6. x + D = out[1]
      BY <1>5, <3>2 DEF x
    <3>7. QED
      BY <3>4, <3>5, <3>6 DEF d, n
  <2>3. QED
    BY <1>6, <2>1, <2>2
\* Before the matches of the second step, the text is that after the first.
<1>12. ASSUME NEW x \in 0 .. M - 1, 0 < O => x < out[1] PROVE w[x + 1] = z[x + 1]
  <2>1. Between(M, out, m, 0, x)
    <3>1. x <= M /\ ~ (0 > 0)
      BY <1>6
    <3>2. 0 < O => x <= out[0 + 1]
      <4>1. 0 < O => 1 \in 1 .. O
        BY <1>3
      <4>2. QED
        BY <1>3a, <1>6, <1>12, <4>1
    <3>3. QED
      BY <3>1, <3>2 DEF Between, O
  <2>2. 0 < O => x < out[0 + 1]
    BY <1>12
  <2>3. 0 \in 0 .. O
    BY <1>3
  <2>4. w[x + e(0) + 1] = z[x + 1]
    BY <1>2, <2>1, <2>2, <2>3
  <2>5. x + e(0) + 1 = x + 1
    BY <1>4
  <2>6. QED
    BY <2>4, <2>5
<1>13. ASSUME NEW k \in 0 .. K + O, NEW i \in 0 .. N - 1,
              Between(N, all, m, k, i), k < K + O => i < all[k + 1]
       PROVE  w[i + e(k) + 1] = text[i + 1]
  <2>0. i \in Nat /\ i < N /\ k \in Nat /\ e(k) \in Int
    BY <1>3, <1>4
  <2>0a. /\ i <= N
         /\ k > 0 => all[k] + m <= i
         /\ k < K + O => i <= all[k + 1]
    BY <1>7, <1>13 DEF Between
  <2>1. CASE k < K
    <3>1. k + 1 \in 1 .. K /\ (k > 0 => k \in 1 .. K) /\ k \in 0 .. K /\ k < K + O
      BY <1>3, <2>0, <2>1
    <3>2. all[k + 1] = list[k + 1] /\ (k > 0 => all[k] = list[k])
      BY <1>7, <3>1
    <3>3. i < list[k + 1] /\ list[k + 1] \in Nat
      BY <1>3a, <1>13, <3>1, <3>2
    <3>4. Between(N, list, m, k, i)
      <4>1. k > 0 => list[k] + m <= i
        BY <2>0a, <3>2
      <4>2. i <= list[k + 1]
        BY <2>0, <3>3
      <4>3. QED
        BY <2>0a, <4>1, <4>2 DEF Between
    <3>5. z[i + e(k) + 1] = text[i + 1]
      BY <1>1, <3>1, <3>3, <3>4
    <3>. DEFINE x == i + e(k)
                y == Shifted(list, k + 1, d)
    <3>6. x \in Nat
      <4>1. i + k * (n - m) \in Nat
        BY <1>1, <1>3, <2>0, <3>1, <3>4, BetweenShifts DEF K
      <4>2. QED
        BY <4>1 DEF e, d, n
    <3>7. y = list[k + 1] + e(k)
      <4>1. (k + 1) - 1 = k
        BY <2>0
      <4>2. QED
        BY <4>1 DEF Shifted, e
    <3>8. y \in Nat /\ y + n <= M /\ (0 < O => y + n <= out[1])
      BY <1>11, <3>1
    <3>9. x < y
      BY <2>0, <3>3, <3>7
    <3>. HIDE DEF x, y
    <3>10. x \in 0 .. M - 1 /\ (0 < O => x < out[1])
      <4>1. 0 < O => out[1] \in Nat
        <5>1. 0 < O => 1 \in 1 .. O
          BY <1>3
        <5>2. QED
          BY <1>3a, <5>1
      <4>2. QED
        BY <1>3, <1>6, <3>6, <3>8, <3>9, <4>1
    <3>11. w[x + 1] = z[x + 1]
      BY <1>12, <3>10
    <3>12. QED
      BY <3>5, <3>11 DEF x
  <2>2. CASE k >= K
    <3>. DEFINE l == k - K
                x == i + D
    <3>1. l \in 0 .. O /\ k = K + l /\ (l > 0 => l \in 1 .. O) /\ (l < O => l + 1 \in 1 .. O)
          /\ (l < O <=> k < K + O) /\ k + 1 = K + (l + 1)
      BY <1>3, <2>0, <2>2
    <3>. HIDE DEF l
    <3>2. \A j \in 1 .. K : list[j] + m <= i
      <4>1. CASE l = 0
        <5>1. ASSUME NEW j \in 1 .. K PROVE list[j] + m <= i
          <6>1. K \in 1 .. K /\ k = K /\ k > 0
            BY <1>3, <3>1, <4>1
          <6>2. list[K] + m <= i
            BY <1>7, <2>0a, <6>1
          <6>3. CASE j = K
            BY <6>2, <6>3
          <6>4. CASE j # K
            <7>1. j \in 1 .. K - 1
              BY <1>3, <6>4
            <7>2. list[j] + m <= list[K]
              <8>1. list \in [1 .. K -> Nat]
                BY <1>3 DEF K
              <8>2. \A a \in 1 .. K : \A b \in 1 .. a - 1 : list[b] + m <= list[a]
                BY <1>3, <1>3a, <8>1, Growing
              <8>3. QED
                BY <6>1, <7>1, <8>2
            <7>3. list[j] \in Nat /\ list[K] \in Nat
              BY <1>3a, <6>1
            <7>4. QED
              BY <2>0, <6>2, <7>2, <7>3
          <6>5. QED
            BY <6>3, <6>4
        <5>2. QED
          BY <5>1
      <4>2. CASE l > 0
        <5>1. l \in 1 .. O /\ k > 0
          BY <1>3, <3>1, <4>2
        <5>2. all[k] = out[l] - D
          BY <1>7, <3>1, <5>1
        <5>3. ASSUME NEW j \in 1 .. K PROVE list[j] + m <= i
          <6>1. list[j] + m <= out[l] - D /\ out[l] - D \in Nat /\ list[j] \in Nat
            BY <1>3a, <1>8, <5>1
          <6>2. (out[l] - D) + m <= i
            BY <2>0a, <5>1, <5>2
          <6>. DEFINE q == out[l] - D
          <6>. HIDE DEF q
          <6>3. list[j] + m <= q /\ q \in Nat /\ q + m <= i
            BY <6>1, <6>2 DEF q
          <6>4. QED
            BY <2>0, <6>1, <6>3
        <5>4. QED
          BY <5>3
      <4>3. QED
        BY <3>1, <4>1, <4>2
    <3>3. x \in Nat /\ z[x + 1] = text[i + 1]
      <4>1. \A j \in 1 .. Len(list) : list[j] + m <= i
        BY <3>2 DEF K
      <4>2. OldAt(text, z, D, i)
        BY <2>0, <4>1, BehindIsOld DEF N
      <4>3. QED
        BY <4>2 DEF OldAt
    <3>4. x \in 0 .. M - 1
      <4>1. x = i + D /\ x \in Nat
        BY <3>3
      <4>. HIDE DEF x
      <4>2. i \in Nat /\ i < N /\ N \in Nat /\ D \in Int /\ M = N + D
        BY <1>3, <1>5, <1>6, <2>0
      <4>3. QED
        BY ONLY <4>1, <4>2
    <3>5. l > 0 => out[l] + m <= x
      <4>1. ASSUME l > 0 PROVE out[l] + m <= x
        <5>1. l \in 1 .. O /\ k > 0
          BY <1>3, <3>1, <4>1
        <5>2. all[k] = out[l] - D /\ out[l] \in Nat
          BY <1>3a, <1>7, <3>1, <5>1
        <5>3. (out[l] - D) + m <= i
          BY <2>0a, <5>1, <5>2
        <5>4. QED
          BY <1>5, <2>0, <5>2, <5>3
      <4>2. QED
        BY <4>1
    <3>6. l < O => x < out[l + 1]
      <4>1. ASSUME l < O PROVE x < out[l + 1]
        <5>1. l + 1 \in 1 .. O /\ k < K + O /\ k + 1 = K + (l + 1)
          BY <3>1, <4>1
        <5>2. all[K + (l + 1)] = out[l + 1] - D /\ out[l + 1] \in Nat
          BY <1>3a, <1>7, <5>1
        <5>3. i < out[l + 1] - D
          BY <1>13, <5>1, <5>2
        <5>4. QED
          BY <1>5, <2>0, <5>2, <5>3
      <4>2. QED
        BY <4>1
    <3>. HIDE DEF x
    <3>7. Between(M, out, m, l, x)
      <4>1. l < O => x <= out[l + 1]
        <5>1. l < O => out[l + 1] \in Nat
          BY <1>3a, <3>1
        <5>2. QED
          BY <3>3, <3>6, <5>1
      <4>2. x <= M
        BY <1>6, <3>4
      <4>3. QED
        BY <3>5, <4>1, <4>2 DEF Between, O
    <3>8. w[x + e(l) + 1] = z[x + 1]
      BY <1>2, <3>1, <3>4, <3>6, <3>7
    <3>9. x + e(l) + 1 = i + e(k) + 1
      <4>1. l \in Int /\ K \in Int
        BY <1>3, <3>1
      <4>2. e(k) = e(K) + e(l) /\ e(l) \in Int
        BY <1>4, <3>1, <4>1
      <4>3. QED
        BY <1>5, <2>0, <4>2 DEF x
    <3>10. QED
      BY <3>3, <3>8, <3>9
  <2>3. QED
    BY <1>3, <2>0, <2>1, <2>2
<1>14. ASSUME NEW k \in 1 .. K + O, NEW i \in 1 .. n PROVE w[Shifted(all, k, d) + i] = r[i]
  <2>1. CASE k <= K
    <3>1. k \in 1 .. K
      BY <1>3, <2>1
    <3>. DEFINE y == Shifted(list, k, d)
                x == y + i - 1
    <3>2. Shifted(all, k, d) = y
      BY <1>7, <3>1 DEF Shifted
    <3>3. y \in Nat /\ y + n <= M /\ (0 < O => y + n <= out[1]) /\ z[y + i] = r[i]
      BY <1>1, <1>11, <3>1
    <3>. HIDE DEF y
    <3>4. 0 < O => out[1] \in Nat
      <4>1. 0 < O => 1 \in 1 .. O
        BY <1>3
      <4>2. QED
        BY <1>3a, <4>1
    <3>5. x \in 0 .. M - 1 /\ (0 < O => x < out[1]) /\ x + 1 = y + i
      BY <1>3, <1>6, <3>3, <3>4, SMTT(30)
    <3>. HIDE DEF x
    <3>6. w[x + 1] = z[x + 1]
      BY <1>12, <3>5
    <3>7. QED
      BY <3>2, <3>3, <3>5, <3>6
  <2>2. CASE k > K
    <3>. DEFINE l == k - K
    <3>1. l \in 1 .. O /\ k = K + l /\ k - 1 = K + (l - 1) /\ l - 1 \in Int /\ K \in Int
      BY <1>3, <2>2
    <3>. HIDE DEF l
    <3>2. all[k] = out[l] - D /\ out[l] \in Nat
      BY <1>3a, <1>7, <3>1
    <3>3. e(k - 1) = e(K) + e(l - 1) /\ e(l - 1) \in Int
      BY <1>4, <3>1
    <3>4. Shifted(all, k, d) = all[k] + e(k - 1) /\ Shifted(out, l, d) = out[l] + e(l - 1)
      BY DEF Shifted, e
    <3>5. Shifted(all, k, d) = Shifted(out, l, d)
      BY <1>5, <3>2, <3>3, <3>4
    <3>6. QED
      BY <1>2, <3>1, <3>5
  <2>3. QED
    BY <1>3, <2>1, <2>2
<1>15. QED
  <2>1. Len(w) = Len(text) + Len(all) * (Len(r) - m)
    BY <1>7, <1>10 DEF e, d, n, N
  <2>2. \A k \in 0 .. Len(all), i \in 0 .. Len(text) - 1 :
          Between(Len(text), all, m, k, i) /\ (k < Len(all) => i < all[k + 1])
            => w[i + k * (Len(r) - m) + 1] = text[i + 1]
    BY <1>7, <1>13 DEF e, d, n, N
  <2>3. \A k \in 1 .. Len(all), i \in 1 .. Len(r) : w[Shifted(all, k, Len(r) - m) + i] = r[i]
    BY <1>7, <1>14 DEF d, n
  <2>4. Matches(Len(text), all, m)
    BY <1>9 DEF N
  <2>. HIDE DEF Matches, Between, Shifted
  <2>5. QED
    BY <2>1, <2>2, <2>3, <2>4 DEF PutIn

\* The searcher s of a replace-all sees the old text D further on. Behind its next
\* candidate nothing is replaced, and what it has been past lies under one of list.
Ahead(list, s, p, text, D, start, stop) ==
  /\ ~ s.backward /\ ~ s.wrap /\ ~ s.wrapped
  /\ s.stop = stop + D /\ start + D <= s.next
  /\ \A k \in 1 .. Len(list) : list[k] + Len(p) + D <= s.next
  /\ \A i \in Occurrences(text, p, start, stop) :
       i + D < s.pos \/ i + D < s.next \/ s.finished => Under(list, Len(p), i)

\* The end of the pass leaves nothing out.
LEMMA AdvanceAhead ==
  ASSUME NEW p, Len(p) \in Nat \ {0}, NEW s, GoodSearcher(s, Len(p)), NEW list, NEW text,
         NEW D \in Int, NEW start \in Nat, NEW stop \in Nat,
         Ahead(list, s, p, text, D, start, stop), Lo(s) >= Hi(s, Len(p))
  PROVE  Ahead(list, AdvancePass(s, Len(p)), p, text, D, start, stop)
<1>. DEFINE m == Len(p)
            t == AdvancePass(s, m)
            c == CandEnd(s.start, s.stop, m)
<1>1. /\ ~ s.backward /\ ~ s.wrap /\ ~ s.wrapped
      /\ s.stop = stop + D /\ start + D <= s.next
      /\ \A k \in 1 .. Len(list) : list[k] + m + D <= s.next
      /\ \A i \in Occurrences(text, p, start, stop) :
           i + D < s.pos \/ i + D < s.next \/ s.finished => Under(list, m, i)
  BY DEF Ahead
<1>2. /\ SameSearch(t, s) /\ t.finished /\ t.pos = s.pos /\ t.next = s.next /\ t.wrapped = s.wrapped
  BY <1>1, AdvanceIs DEF Advances
<1>3. s.pos >= c
  BY <1>1 DEF Lo, Hi
<1>4. s.start \in Nat /\ s.stop \in Nat /\ s.pos \in Nat
  BY DEF GoodSearcher, Searchers
<1>5. c = Larger(s.stop - m + 1, s.start)
  BY <1>4, CandEndIs
<1>. HIDE DEF c, t, m
<1>6. ASSUME NEW i \in Occurrences(text, p, start, stop) PROVE Under(list, m, i)
  <2>1. i \in Nat /\ i + m <= stop
    BY OccurrencesAre DEF m
  <2>2. m \in Nat
    BY DEF m
  <2>3. i + D < s.pos
    BY <1>1, <1>3, <1>4, <1>5, <2>1, <2>2 DEF Larger
  <2>4. QED
    BY <1>1, <2>3
<1>7. Ahead(list, t, p, text, D, start, stop)
  BY <1>1, <1>2, <1>6 DEF Ahead, SameSearch, m
<1>8. QED
  BY <1>7 DEF t, m

\* What a step of a replace-all does: its matches lie behind those of list, in the
\* old text they are its matches, and the searcher has been past no other.
StepAhead(list, out, t, p, text, D, start, stop) ==
  /\ BackIs(Back(list, out, D), list, out, D) /\ Behind(list, out, Len(p), D)
  /\ FoundSoFar(Back(list, out, D), text, p, start, stop)
  /\ Ahead(Back(list, out, D), t, p, text, D, start, stop)

\* More matches leave nothing bare that lay under one.
LEMMA UnderMore ==
  ASSUME NEW list, NEW out, NEW D, NEW all, NEW m, BackIs(all, list, out, D), NEW i,
         Len(list) \in Nat, Len(out) \in Nat
  PROVE  /\ Under(list, m, i) => Under(all, m, i)
         /\ \A k \in 1 .. Len(out) : out[k] - D <= i /\ i < (out[k] - D) + m => Under(all, m, i)
<1>1. /\ Len(all) = Len(list) + Len(out)
      /\ \A k \in 1 .. Len(list) : all[k] = list[k]
      /\ \A k \in 1 .. Len(out) : all[Len(list) + k] = out[k] - D
  BY DEF BackIs
<1>2. ASSUME Under(list, m, i) PROVE Under(all, m, i)
  <2>1. PICK k \in 1 .. Len(list) : list[k] <= i /\ i < list[k] + m
    BY <1>2 DEF Under
  <2>2. k \in 1 .. Len(all)
    BY <1>1, <2>1
  <2>3. QED
    BY <1>1, <2>1, <2>2 DEF Under
<1>3. ASSUME NEW k \in 1 .. Len(out), out[k] - D <= i, i < (out[k] - D) + m PROVE Under(all, m, i)
  <2>1. Len(list) + k \in 1 .. Len(all)
    BY <1>1
  <2>2. all[Len(list) + k] = out[k] - D
    BY <1>1
  <2>3. all[Len(list) + k] <= i /\ i < all[Len(list) + k] + m
    BY <1>3, <2>2
  <2>4. QED
    BY <2>1, <2>3 DEF Under
<1>4. QED
  BY <1>2, <1>3

\* A window of a replace-all (search.rs:114-140, drive.rs:76-94).
LEMMA WindowAhead ==
  ASSUME NEW p, Len(p) \in Nat \ {0}, NEW s, GoodSearcher(s, Len(p)), ~ s.finished,
         NEW text, Len(text) \in Nat, NEW z, NEW r, Len(r) \in Nat,
         NEW start \in Nat, NEW stop \in Nat,
         NEW list, FoundSoFar(list, text, p, start, stop), PutIn(text, z, list, Len(p), r),
         NEW D, ShiftIs(D, list, Len(p), r), Ahead(list, s, p, text, D, start, stop),
         NEW out, NEW c0 \in Nat, NEW c1 \in Nat, NEW t,
         Scans(s, p, z, {}, c0, c1, out), Moves(s, t, Len(p), c0, c1, out)
  PROVE  StepAhead(list, out, t, p, text, D, start, stop)
<1>. DEFINE m == Len(p)
            all == Back(list, out, D)
            Occ == Occurrences(text, p, start, stop)
            n == s.next
            b == s.stop
            hi == Hi(s, m)
            K == Len(list)
            O == Len(out)
<1>1. /\ ~ s.backward /\ ~ s.wrap /\ ~ s.wrapped
      /\ b = stop + D /\ start + D <= n
      /\ \A k \in 1 .. K : list[k] + m + D <= n
      /\ \A i \in Occ : i + D < s.pos \/ i + D < n \/ s.finished => Under(list, m, i)
  BY DEF Ahead
<1>2. /\ SameSearch(t, s) /\ t.wrapped = s.wrapped /\ t.finished = s.finished /\ t.pos = c1
      /\ t.next = IF out = <<>> THEN n ELSE out[O] + m
  BY <1>1 DEF Moves
<1>3. /\ c0 = s.pos /\ c0 < c1 /\ c1 <= hi /\ Lo(s) <= c0
      /\ Sightings(out, p, z, {}, c0, c1)
      /\ \A k \in 1 .. O : n <= out[k]
      /\ WindowAnswers(out, p, z, {}, s, c0, c1, n)
  BY <1>1 DEF Scans
<1>4. /\ out \in Seq(Nat)
      /\ \A k \in 1 .. O : c0 <= out[k] /\ out[k] < c1 /\ Occurs(z, p, out[k])
      /\ \A k \in 1 .. O - 1 : out[k] + m <= out[k + 1]
  BY <1>3 DEF Sightings
<1>5. /\ m \in Nat \ {0} /\ n \in Nat /\ s.start \in Nat /\ b \in Nat /\ hi \in Nat /\ Lo(s) \in Nat
      /\ Lo(s) < hi => hi + m - 1 <= b
  BY GoodIsInRange DEF GoodSearcher, Searchers
<1>6. /\ list \in Seq(Nat) /\ K \in Nat /\ O \in Nat
      /\ \A k \in 1 .. K : list[k] \in Occ /\ list[k] \in Nat
      /\ \A k \in 1 .. K - 1 : list[k] + m <= list[k + 1]
      /\ \A k \in 1 .. K, i \in Occ : i < list[k] => Under(list, m, i)
  <2>1. /\ list \in Seq(Nat)
        /\ \A k \in 1 .. K : list[k] \in Occ
        /\ \A k \in 1 .. K - 1 : list[k] + m <= list[k + 1]
        /\ \A k \in 1 .. K, i \in Occ : i < list[k] => Under(list, m, i)
    BY DEF FoundSoFar
  <2>2. K \in Nat /\ O \in Nat /\ \A k \in 1 .. K : list[k] \in Nat
    BY <1>4, <2>1, SMTT(30)
  <2>3. QED
    BY <2>1, <2>2
<1>7. D \in Int
  <2>1. Len(r) - m \in Int
    BY <1>5
  <2>2. K * (Len(r) - m) \in Int
    BY <1>6, <2>1
  <2>3. QED
    BY <2>2 DEF ShiftIs
<1>8. \A i \in Occ : i \in Nat /\ start <= i /\ i + m <= stop /\ Occurs(text, p, i)
  BY OccurrencesAre
<1>9. c1 + m - 1 <= b
  <2>. HIDE DEF hi, b, m
  <2>1. Lo(s) < hi
    BY <1>3, <1>5
  <2>2. QED
    BY <1>3, <1>5, <2>1
<1>10. \A k \in 1 .. O : out[k] \in Nat
  BY <1>4
<1>. HIDE DEF Occ, n, b, hi, K, O
\* Behind the next candidate the two texts are the same, one further on.
<1>11. ASSUME NEW i \in Nat, n <= i + D PROVE Occurs(text, p, i) <=> Occurs(z, p, i + D)
  <2>1. ASSUME NEW k \in 1 .. Len(list) PROVE list[k] + Len(p) <= i
    <3>1. list[k] + m + D <= n /\ list[k] \in Nat
      BY <1>1, <1>6 DEF K
    <3>. DEFINE x == list[k]
    <3>2. x + m + D <= n /\ x \in Nat /\ m \in Nat /\ n \in Nat /\ n <= i + D /\ i \in Nat
      BY <1>5, <1>11, <3>1
    <3>. HIDE DEF m, x
    <3>3. x + m <= i
      BY ONLY <1>7, <3>2
    <3>4. QED
      BY <3>3 DEF m, x
  <2>2. QED
    BY <2>1, BehindOccurs
<1>12. Behind(list, out, m, D) /\ \A k \in 1 .. O : out[k] - D \in Nat /\ start <= out[k] - D
  <2>1. ASSUME NEW k \in 1 .. O
        PROVE  /\ out[k] - D \in Nat /\ start <= out[k] - D
               /\ \A l \in 1 .. K : list[l] + m <= out[k] - D
    <3>1. out[k] \in Nat /\ n <= out[k]
      BY <1>3, <1>10
    <3>2. out[k] - D \in Nat /\ start <= out[k] - D
      <4>. DEFINE y == out[k]
      <4>1. y \in Nat /\ n <= y /\ start + D <= n /\ start \in Nat /\ n \in Nat
        BY <1>1, <1>5, <3>1
      <4>. HIDE DEF y
      <4>2. y - D \in Nat /\ start <= y - D
        BY ONLY <1>7, <4>1
      <4>3. QED
        BY <4>2 DEF y
    <3>3. ASSUME NEW l \in 1 .. K PROVE list[l] + m <= out[k] - D
      <4>. DEFINE x == list[l]
                  y == out[k]
      <4>1. x + m + D <= n /\ x \in Nat /\ y \in Nat /\ n <= y /\ m \in Nat /\ n \in Nat
        BY <1>1, <1>5, <1>6, <3>1
      <4>. HIDE DEF m, x, y
      <4>2. x + m <= y - D
        BY ONLY <1>7, <4>1
      <4>3. QED
        BY <4>2 DEF x, y
    <3>4. QED
      BY <3>2, <3>3
  <2>2. QED
    BY <2>1 DEF Behind, K, O
<1>13. BackIs(all, list, out, D)
  BY <1>4, <1>6, <1>7, <1>12, BackFacts DEF O
<1>14. /\ all \in Seq(Nat) /\ Len(all) = K + O
       /\ \A k \in 1 .. K : all[k] = list[k]
       /\ \A k \in 1 .. O : all[K + k] = out[k] - D
  BY <1>13 DEF BackIs, K, O
<1>. HIDE DEF all
<1>14a. \A k \in 1 .. Len(all) : k \in 1 .. K \/ (k - K \in 1 .. O /\ k = K + (k - K))
  BY <1>6, <1>14
<1>15. \A i : /\ Under(list, m, i) => Under(all, m, i)
              /\ \A k \in 1 .. O : out[k] - D <= i /\ i < (out[k] - D) + m => Under(all, m, i)
  <2>1. TAKE i
  <2>2. Len(list) \in Nat /\ Len(out) \in Nat
    BY <1>6 DEF K, O
  <2>3. /\ Under(list, m, i) => Under(all, m, i)
        /\ \A k \in 1 .. Len(out) : out[k] - D <= i /\ i < (out[k] - D) + m => Under(all, m, i)
    BY <1>13, <2>2, UnderMore
  <2>4. QED
    BY <2>3 DEF O
<1>16. ASSUME NEW k \in 1 .. O PROVE out[k] - D \in Occ
  <2>. DEFINE x == out[k] - D
  <2>1. x \in Nat /\ start <= x /\ out[k] \in Nat /\ x + D = out[k]
    BY <1>7, <1>10, <1>12
  <2>2. n <= out[k] /\ Occurs(z, p, out[k]) /\ out[k] < c1
    BY <1>3, <1>4 DEF O
  <2>. HIDE DEF x
  <2>3. Occurs(text, p, x)
    BY <1>11, <2>1, <2>2
  <2>4. x + m <= stop
    <3>. HIDE DEF m
    <3>1. QED
      BY <1>1, <1>5, <1>7, <1>9, <2>1, <2>2
  <2>5. x \in start .. stop
    <3>. HIDE DEF m
    <3>1. QED
      BY <1>5, <2>1, <2>4
  <2>6. x \in Occ
    BY <2>3, <2>4, <2>5 DEF Occurrences, Occ
  <2>7. QED
    BY <2>6 DEF x
\* Whatever the window has been past lies under a match.
<1>17. ASSUME NEW i \in Occ, i + D < c1 \/ i + D < t.next PROVE Under(all, m, i)
  <2>0. i \in Nat /\ start <= i /\ i + m <= stop /\ Occurs(text, p, i)
    BY <1>8
  <2>1. CASE i + D < c0 \/ i + D < n
    <3>1. Under(list, m, i)
      BY <1>1, <1>3, <2>1
    <3>2. QED
      BY <1>15, <3>1
  <2>2. CASE ~ (i + D < c0) /\ ~ (i + D < n) /\ i + D < c1
    <3>. DEFINE x == i + D
    <3>1. x \in Nat /\ c0 <= x /\ n <= x /\ x < c1
      BY <1>5, <1>7, <2>0, <2>2
    <3>2. Occurs(z, p, x)
      BY <1>11, <2>0, <3>1
    <3>. HIDE DEF x
    <3>3. Answered(out, p, z, {}, s.start, s.stop, x)
      BY <1>3, <3>1, <3>2 DEF WindowAnswers
    <3>4. Under(out, m, x)
      BY <3>3, AllRead
    <3>5. PICK k \in 1 .. O : out[k] <= x /\ x < out[k] + m
      BY <3>4 DEF Under, O
    <3>6. out[k] - D <= i /\ i < (out[k] - D) + m
      <4>. DEFINE y == out[k]
      <4>1. y \in Nat /\ x = i + D /\ y <= x /\ x < y + m /\ i \in Nat /\ m \in Nat
        BY <1>5, <1>10, <2>0, <3>5 DEF x
      <4>. HIDE DEF m, y
      <4>2. y - D <= i /\ i < (y - D) + m
        BY ONLY <1>7, <4>1
      <4>3. QED
        BY <4>2 DEF y
    <3>7. QED
      BY <1>15, <3>6
  <2>3. CASE ~ (i + D < c0) /\ ~ (i + D < n) /\ ~ (i + D < c1)
    <3>1. i + D < t.next /\ ~ (i + D < n)
      BY <1>17, <2>3
    <3>2. out # <<>> /\ t.next = out[O] + m
      BY <1>2, <3>1
    <3>3. O \in 1 .. O
      BY <1>4, <3>2 DEF O
    <3>4. out[O] \in Nat /\ out[O] < c1
      BY <1>4, <1>10, <3>3 DEF O
    <3>5. out[O] - D <= i /\ i < (out[O] - D) + m
      <4>. DEFINE y == out[O]
      <4>1. /\ i + D < y + m /\ y \in Nat /\ y < c1 /\ ~ (i + D < c1)
            /\ m \in Nat /\ i \in Nat /\ c1 \in Nat
        BY <1>5, <2>0, <2>3, <3>1, <3>2, <3>4
      <4>. HIDE DEF m, y
      <4>2. y - D <= i /\ i < (y - D) + m
        BY ONLY <1>7, <4>1
      <4>3. QED
        BY <4>2 DEF y
    <3>6. QED
      BY <1>15, <3>3, <3>5
  <2>4. QED
    BY <2>1, <2>2, <2>3
<1>18. FoundSoFar(all, text, p, start, stop)
  <2>1. ASSUME NEW k \in 1 .. Len(all) PROVE all[k] \in Occ
    <3>1. CASE k \in 1 .. K
      BY <1>6, <1>14, <3>1
    <3>2. CASE k - K \in 1 .. O /\ k = K + (k - K)
      <4>1. all[K + (k - K)] = out[k - K] - D
        BY <1>14, <3>2
      <4>2. QED
        BY <1>16, <3>2, <4>1
    <3>3. QED
      BY <1>14a, <3>1, <3>2
  <2>2. \A k \in 1 .. Len(all) - 1 : all[k] + m <= all[k + 1]
    <3>. DEFINE N == Len(text)
    <3>1. Matches(N, list, m) /\ Len(z) = N + D
      BY DEF PutIn, ShiftIs
    <3>2. Matches(N + D, out, m)
      <4>1. ASSUME NEW k \in 1 .. O PROVE out[k] + m <= N + D
        BY <1>4, <3>1 DEF Occurs
      <4>2. QED
        BY <1>4, <4>1 DEF Matches, O
    <3>3. Matches(N, all, m)
      BY <1>5, <1>7, <1>12, <1>13, <3>1, <3>2, MatchesTwice
    <3>4. QED
      BY <3>3 DEF Matches
  <2>3. ASSUME NEW k \in 1 .. Len(all), NEW i \in Occ, i < all[k] PROVE Under(all, m, i)
    <3>1. CASE k \in 1 .. K
      <4>1. Under(list, m, i)
        BY <1>6, <1>14, <2>3, <3>1
      <4>2. QED
        BY <1>15, <4>1
    <3>2. CASE k - K \in 1 .. O /\ k = K + (k - K)
      <4>. DEFINE l == k - K
      <4>1. l \in 1 .. O /\ k = K + l
        BY <3>2
      <4>. HIDE DEF l
      <4>2. all[k] = out[l] - D /\ out[l] < c1 /\ out[l] \in Nat
        BY <1>4, <1>10, <1>14, <4>1 DEF O
      <4>3. i \in Nat
        BY <1>8
      <4>4. i + D < c1
        BY <1>7, <2>3, <4>2, <4>3
      <4>5. QED
        BY <1>17, <4>4
    <3>3. QED
      BY <1>14a, <3>1, <3>2
  <2>4. QED
    BY <1>14, <2>1, <2>2, <2>3 DEF FoundSoFar, Occ, m
<1>19. n <= t.next
  <2>1. CASE out = <<>>
    BY <1>2, <1>5, <2>1
  <2>2. CASE out # <<>>
    <3>1. O \in 1 .. O
      BY <1>4, <2>2 DEF O
    <3>2. n <= out[O] /\ out[O] \in Nat /\ t.next = out[O] + m
      BY <1>2, <1>3, <1>10, <2>2, <3>1
    <3>3. QED
      BY <1>5, <3>2
  <2>3. QED
    BY <2>1, <2>2
<1>20. ASSUME NEW k \in 1 .. O PROVE out[k] + m <= t.next
  <2>1. O \in 1 .. O /\ out # <<>>
    <3>1. O \in 1 .. O
      BY <1>6
    <3>2. QED
      BY <3>1 DEF O
  <2>2. t.next = out[O] + m /\ out[k] \in Nat /\ out[O] \in Nat
    BY <1>2, <1>10, <2>1
  <2>3. CASE k = O
    BY <1>5, <2>2, <2>3
  <2>4. CASE k # O
    <3>1. k \in 1 .. O - 1
      BY <1>6, <2>4
    <3>2. out[k] + m <= out[O]
      <4>1. out \in [1 .. O -> Nat] /\ \A l \in 1 .. O - 1 : out[l] + m <= out[l + 1]
        BY <1>4 DEF O
      <4>2. \A l \in 1 .. O : \A i \in 1 .. l - 1 : out[i] + m <= out[l]
        BY <1>5, <1>6, <4>1, Growing
      <4>3. QED
        BY <2>1, <3>1, <4>2
    <3>. DEFINE u == out[k]
                v == out[O]
    <3>3. u + m <= v /\ u \in Nat /\ v \in Nat /\ t.next = v + m /\ m \in Nat
      BY <1>5, <2>2, <3>2
    <3>. HIDE DEF u, v
    <3>4. u + m <= v + m
      BY ONLY <3>3
    <3>5. QED
      BY <3>3, <3>4 DEF u
  <2>5. QED
    BY <2>3, <2>4
<1>21. ASSUME NEW k \in 1 .. Len(all) PROVE all[k] + m + D <= t.next
  <2>0. t.next \in Nat
    BY <1>2 DEF SameSearch, Searchers
  <2>1. CASE k \in 1 .. K
    <3>1. all[k] = list[k] /\ list[k] + m + D <= n /\ list[k] \in Nat
      BY <1>1, <1>6, <1>14, <2>1
    <3>. DEFINE x == all[k]
                y == t.next
    <3>2. x + m + D <= n /\ x \in Nat /\ m \in Nat /\ n \in Nat /\ n <= y /\ y \in Nat
      BY <1>5, <1>19, <2>0, <3>1
    <3>. HIDE DEF x, y
    <3>3. x + m + D <= y
      BY ONLY <1>7, <3>2
    <3>4. QED
      BY <3>3 DEF x, y
  <2>2. CASE k - K \in 1 .. O /\ k = K + (k - K)
    <3>. DEFINE l == k - K
    <3>1. l \in 1 .. O /\ k = K + l
      BY <2>2
    <3>. HIDE DEF l
    <3>2. all[k] = out[l] - D /\ out[l] + m <= t.next /\ out[l] \in Nat
      BY <1>10, <1>14, <1>20, <3>1
    <3>. DEFINE x == all[k]
                v == out[l]
                y == t.next
    <3>3. x = v - D /\ v + m <= y /\ v \in Nat /\ m \in Nat /\ y \in Nat
      BY <1>5, <2>0, <3>2
    <3>. HIDE DEF x, v, y
    <3>4. x + m + D <= y
      BY ONLY <1>7, <3>3
    <3>5. QED
      BY <3>4 DEF x, y
  <2>3. QED
    BY <1>14a, <2>1, <2>2
<1>22. Ahead(all, t, p, text, D, start, stop)
  <2>1. ~ t.backward /\ ~ t.wrap /\ ~ t.wrapped /\ t.stop = stop + D /\ ~ t.finished
    BY <1>1, <1>2 DEF SameSearch, b
  <2>2. start + D <= t.next
    <3>1. t.next \in Nat
      BY <1>2 DEF SameSearch, Searchers
    <3>2. QED
      BY <1>1, <1>5, <1>7, <1>19, <3>1
  <2>3. \A i \in Occ : i + D < t.pos \/ i + D < t.next \/ t.finished => Under(all, m, i)
    BY <1>2, <1>17, <2>1
  <2>4. QED
    BY <1>21, <2>1, <2>2, <2>3 DEF Ahead, Occ, m
<1>23. QED
  BY <1>12, <1>13, <1>18, <1>22 DEF StepAhead, all, m

\* Without new matches the list stays as it is.
LEMMA BackNothing ==
  ASSUME NEW list \in Seq(Nat), NEW D \in Int
  PROVE  Back(list, <<>>, D) = list /\ BackIs(Back(list, <<>>, D), list, <<>>, D)
<1>. DEFINE out == <<>>
            all == Back(list, out, D)
<1>1. out \in Seq(Nat) /\ Len(out) = 0 /\ \A k \in 1 .. Len(out) : out[k] - D \in Nat
  OBVIOUS
<1>. HIDE DEF out
<1>2. BackIs(all, list, out, D)
  BY <1>1, BackFacts
<1>3. /\ all \in Seq(Nat) /\ Len(all) = Len(list)
      /\ \A k \in 1 .. Len(list) : all[k] = list[k]
  BY <1>1, <1>2 DEF BackIs
<1>. HIDE DEF all
<1>4. all = list
  BY <1>3
<1>5. QED
  BY <1>2, <1>4 DEF all, out

\* A step of a replace-all finds the next matches and passes no other by
\* (search.rs:78-147, drive.rs:76-94).
LEMMA SteppedAhead ==
  ASSUME NEW p, Len(p) \in Nat \ {0}, NEW s, GoodSearcher(s, Len(p)),
         NEW text, Len(text) \in Nat, NEW z, NEW r, Len(r) \in Nat,
         NEW start \in Nat, NEW stop \in Nat,
         NEW list, FoundSoFar(list, text, p, start, stop), PutIn(text, z, list, Len(p), r),
         NEW D \in Int, ShiftIs(D, list, Len(p), r), Ahead(list, s, p, text, D, start, stop),
         NEW st, StepIs(st, s, p, z, {})
  PROVE  StepAhead(list, st.out, st.searcher, p, text, D, start, stop)
<1>. DEFINE m == Len(p)
<1>1. list \in Seq(Nat)
  BY DEF FoundSoFar
<1>2. CASE StepWithout(st, s, m)
  <2>1. st.out = <<>>
    BY <1>2 DEF StepWithout
  <2>2. Ahead(list, st.searcher, p, text, D, start, stop)
    <3>1. CASE s.finished /\ st.searcher = s
      BY <3>1
    <3>2. CASE Lo(s) >= Hi(s, m) /\ st.searcher = AdvancePass(s, m)
      <4>1. Ahead(list, AdvancePass(s, Len(p)), p, text, D, start, stop)
        BY <3>2, AdvanceAhead
      <4>2. QED
        BY <3>2, <4>1
    <3>3. QED
      BY <1>2, <3>1, <3>2 DEF StepWithout
  <2>3. Back(list, st.out, D) = list /\ BackIs(Back(list, st.out, D), list, st.out, D)
    BY <1>1, <2>1, BackNothing
  <2>4. Behind(list, st.out, m, D)
    BY <2>1 DEF Behind
  <2>5. QED
    BY <2>2, <2>3, <2>4 DEF StepAhead
<1>3. CASE ~ s.finished /\ \E c0, c1, t : StepOver(st, s, p, z, {}, c0, c1, t)
  <2>1. PICK c0, c1, t : StepOver(st, s, p, z, {}, c0, c1, t)
    BY <1>3
  <2>2. /\ c0 \in Nat /\ c1 \in Nat
        /\ Scans(s, p, z, {}, c0, c1, st.out) /\ Moves(s, t, m, c0, c1, st.out)
        /\ \/ st.searcher = t
           \/ st.searcher = AdvancePass(t, m) /\ Lo(t) >= Hi(t, m)
    BY <2>1 DEF StepOver
  <2>. DEFINE out == st.out
              all == Back(list, out, D)
  <2>3. Scans(s, p, z, {}, c0, c1, out) /\ Moves(s, t, Len(p), c0, c1, out)
    BY <2>2
  <2>. HIDE DEF out
  <2>4. StepAhead(list, out, t, p, text, D, start, stop)
    BY <1>3, <2>2, <2>3, WindowAhead
  <2>5. /\ BackIs(all, list, out, D) /\ Behind(list, out, m, D)
        /\ FoundSoFar(all, text, p, start, stop) /\ Ahead(all, t, p, text, D, start, stop)
    BY <2>4 DEF StepAhead
  <2>6. GoodSearcher(t, Len(p))
    BY <2>2 DEF Moves
  <2>. HIDE DEF all
  <2>7. Ahead(all, st.searcher, p, text, D, start, stop)
    <3>1. CASE st.searcher = t
      BY <2>5, <3>1
    <3>2. CASE st.searcher = AdvancePass(t, m) /\ Lo(t) >= Hi(t, m)
      <4>1. Ahead(all, AdvancePass(t, Len(p)), p, text, D, start, stop)
        BY <2>5, <2>6, <3>2, AdvanceAhead
      <4>2. QED
        BY <3>2, <4>1
    <3>3. QED
      BY <2>2, <3>1, <3>2
  <2>8. QED
    BY <2>5, <2>7 DEF StepAhead, all, out
<1>4. QED
  BY <1>2, <1>3 DEF StepIs

\* A new searcher behind the last replacement, in a text that has shifted by E since
\* the job began, goes on where the old one was (drive.rs:95-107).
LEMMA RestartAhead ==
  ASSUME NEW p, Len(p) \in Nat \ {0}, NEW text, NEW start \in Nat, NEW stop \in Nat,
         NEW list, FoundSoFar(list, text, p, start, stop), list # <<>>,
         NEW D \in Int, NEW t, Ahead(list, t, p, text, D, start, stop), t.next \in Nat,
         NEW E \in Int, NEW at \in Nat, at = list[Len(list)] + Len(p) + E,
         NEW b \in Nat, b = stop + E, at <= b, NEW len \in Nat, b <= len
  PROVE  Ahead(list, NewSearcher(at, b, len, at, FALSE, FALSE, Len(p)), p, text, E, start, stop)
<1>. DEFINE m == Len(p)
            K == Len(list)
            s == NewSearcher(at, b, len, at, FALSE, FALSE, m)
            Occ == Occurrences(text, p, start, stop)
<1>1. /\ list \in Seq(Nat) /\ K \in Nat
      /\ \A k \in 1 .. K : list[k] \in Occ /\ list[k] \in Nat
      /\ \A k \in 1 .. K - 1 : list[k] + m <= list[k + 1]
      /\ \A k \in 1 .. K, i \in Occ : i < list[k] => Under(list, m, i)
  <2>1. /\ list \in Seq(Nat)
        /\ \A k \in 1 .. K : list[k] \in Occ
        /\ \A k \in 1 .. K - 1 : list[k] + m <= list[k + 1]
        /\ \A k \in 1 .. K, i \in Occ : i < list[k] => Under(list, m, i)
    BY DEF FoundSoFar
  <2>2. K \in Nat /\ \A k \in 1 .. K : list[k] \in Nat
    BY <2>1, SMTT(30)
  <2>3. QED
    BY <2>1, <2>2
<1>2. K \in 1 .. K /\ m \in Nat \ {0}
  BY <1>1
<1>3. \A i \in Occ : i \in Nat /\ start <= i /\ i + m <= stop
  BY OccurrencesAre
<1>4. /\ ~ s.backward /\ ~ s.wrap /\ ~ s.wrapped /\ s.stop = b /\ s.next = at /\ s.pos = at
      /\ s.finished => at > b - m
  <2>. DEFINE c == CandEnd(at, b, m)
  <2>1. Least(at, len) = at /\ Least(b, len) = b
    BY DEF Least
  <2>2. c \in Nat /\ at <= c /\ c = Larger(b - m + 1, at)
    BY <1>2, CandEndIs
  <2>3. Most(at, Least(at, c)) = at
    <3>. HIDE DEF c
    <3>1. at \in Nat /\ c \in Nat /\ at <= c
      BY <2>2
    <3>2. QED
      BY ONLY <3>1 DEF Most, Least
  <2>4. /\ s.backward = FALSE /\ s.wrap = FALSE /\ s.wrapped = FALSE /\ s.stop = b /\ s.next = at /\ s.pos = at
        /\ s.finished = (at >= c)
    BY <2>1, <2>3 DEF NewSearcher
  <2>5. at >= c => at > b - m
    <3>. HIDE DEF c, m
    <3>1. m \in Nat \ {0} /\ at \in Nat /\ b \in Nat /\ c = Larger(b - m + 1, at)
      BY <1>2, <2>2
    <3>2. QED
      BY ONLY <3>1 DEF Larger
  <2>. HIDE DEF s, c
  <2>6. QED
    BY <2>4, <2>5
<1>. HIDE DEF s, m, K, Occ
<1>5. ASSUME NEW k \in 1 .. K PROVE list[k] + m + E <= at
  <2>1. list[k] <= list[K]
    <3>1. CASE k = K
      BY <1>1, <1>2, <3>1, SMTT(30)
    <3>2. CASE k # K
      <4>1. k \in 1 .. K - 1
        BY <1>1, <3>2
      <4>2. list \in [1 .. K -> Nat]
        BY <1>1, SMTT(30) DEF K
      <4>3. \A a \in 1 .. K : \A c \in 1 .. a - 1 : list[c] + m <= list[a]
        BY <1>1, <1>2, <4>2, Growing
      <4>. DEFINE u == list[k]
                  v == list[K]
      <4>4. u + m <= v /\ u \in Nat /\ v \in Nat /\ m \in Nat
        BY <1>1, <1>2, <4>1, <4>3
      <4>. HIDE DEF u, v
      <4>5. u <= v
        BY ONLY <4>4
      <4>6. QED
        BY <4>5 DEF u, v
    <3>3. QED
      BY <3>1, <3>2
  <2>2. list[k] \in Nat /\ list[K] \in Nat /\ at = list[K] + m + E
    BY <1>1, <1>2 DEF K, m
  <2>. DEFINE u == list[k]
              v == list[K]
  <2>3. u \in Nat /\ v \in Nat /\ u <= v /\ at = v + m + E /\ m \in Nat /\ E \in Int
    BY <1>2, <2>1, <2>2
  <2>. HIDE DEF u, v
  <2>4. u + m + E <= at
    BY ONLY <2>3
  <2>5. QED
    BY <2>4 DEF u
<1>6. ASSUME NEW i \in Occ, i + E < at PROVE Under(list, m, i)
  <2>. DEFINE x == list[K]
              y == t.next
  <2>1. x \in Nat /\ at = x + m + E /\ x + m + D <= t.next /\ i \in Nat
    BY <1>1, <1>2, <1>3 DEF Ahead, K, m
  <2>2. /\ x + m + D <= y /\ x \in Nat /\ y \in Nat /\ m \in Nat /\ i \in Nat
        /\ i + E < x + m + E /\ D \in Int /\ E \in Int
    BY <1>2, <1>6, <2>1
  <2>. HIDE DEF x, y
  <2>3. i + D < y
    BY ONLY <2>2
  <2>4. QED
    BY <2>3 DEF Ahead, Occ, m, y
<1>7. ASSUME NEW i \in Occ, s.finished PROVE Under(list, m, i)
  <2>0. /\ i \in Nat /\ i + m <= stop /\ m \in Nat /\ at > b - m
        /\ at \in Nat /\ b = stop + E /\ E \in Int /\ stop \in Nat
    BY <1>2, <1>3, <1>4, <1>7
  <2>1. i + E < at
    BY ONLY <2>0
  <2>2. QED
    BY <1>6, <2>1
<1>8. start + E <= at
  <2>. DEFINE x == list[K]
  <2>1. /\ x \in Nat /\ start <= x /\ x + m + E <= at
        /\ start \in Nat /\ m \in Nat /\ E \in Int /\ at \in Nat
    BY <1>1, <1>2, <1>3, <1>5
  <2>. HIDE DEF x
  <2>2. QED
    BY ONLY <2>1
<1>9. \A i \in Occ : i + E < s.pos \/ i + E < s.next \/ s.finished => Under(list, m, i)
  BY <1>4, <1>6, <1>7
<1>10. Ahead(list, s, p, text, E, start, stop)
  BY <1>4, <1>5, <1>8, <1>9 DEF Ahead, Occ, m, K
<1>11. QED
  BY <1>10 DEF s, m

-----------------------------------------------------------------------------
(* The invariant of a replace-all that nobody disturbed. *)

\* What a job that goes on after a step consists of (drive.rs:95-107).
RestartedAs(g, j, st, d) ==
  /\ g.pattern = j.pattern /\ g.replacement = j.replacement /\ g.kind = j.kind
  /\ g.count = j.count + Len(st.out)
  /\ IF Len(j.replacement) = Len(j.pattern) \/ st.out = <<>>
       THEN g.searcher = st.searcher /\ g.rangeEnd = j.rangeEnd
       ELSE LET by == Len(j.replacement) - Len(j.pattern)
                at == Shifted(st.out, Len(st.out), by) + Len(j.replacement)
            IN  /\ g.rangeEnd = j.rangeEnd + Len(st.out) * by
                /\ g.searcher = NewSearcher(at, g.rangeEnd, Length(d), at, FALSE, FALSE, Len(j.pattern))

\* That is what Restarted makes of it.
LEMMA RestartedIs ==
  ASSUME NEW j \in Jobs, NEW st, NEW d
  PROVE  RestartedAs(Restarted(j, st, d), j, st, d)
<1>. DEFINE m == Len(j.pattern)
            n == Len(j.replacement)
            b == j.rangeEnd + Len(st.out) * (n - m)
            at == Shifted(st.out, Len(st.out), n - m) + n
            s == NewSearcher(at, b, Length(d), at, FALSE, FALSE, m)
            c == j.count + Len(st.out)
            g == Restarted(j, st, d)
<1>1. CASE n = m \/ st.out = <<>>
  <2>1. g = [j EXCEPT !.searcher = st.searcher, !.count = j.count + Len(st.out)]
    BY <1>1 DEF Restarted
  <2>2. g = [j EXCEPT !.searcher = st.searcher, !.count = c]
    BY <2>1
  <2>. HIDE DEF g, c
  <2>3. /\ g.searcher = st.searcher /\ g.rangeEnd = j.rangeEnd /\ g.count = c
        /\ g.pattern = j.pattern /\ g.kind = j.kind /\ g.replacement = j.replacement
    BY <2>2 DEF Jobs
  <2>4. QED
    BY <1>1, <2>3 DEF RestartedAs, g, c
<1>2. CASE ~ (n = m \/ st.out = <<>>)
  <2>1. g = [j EXCEPT !.rangeEnd = b, !.count = j.count + Len(st.out), !.searcher = s]
    BY <1>2 DEF Restarted, Resume
  <2>2. g = [j EXCEPT !.rangeEnd = b, !.count = c, !.searcher = s]
    BY <2>1
  <2>. HIDE DEF g, c, b, s
  <2>3. /\ g.searcher = s /\ g.rangeEnd = b /\ g.count = c
        /\ g.pattern = j.pattern /\ g.kind = j.kind /\ g.replacement = j.replacement
    BY <2>2 DEF Jobs
  <2>4. QED
    BY <1>2, <2>3 DEF RestartedAs, g, c, b, s
<1>3. QED
  BY <1>1, <1>2

\* Job j has so far replaced the matches of list in the text old, which is now z, and
\* has been past no other.
ReplacingOk(list, j, old, z, start, stop) ==
  /\ FoundSoFar(list, old, j.pattern, start, stop) /\ Len(list) = j.count
  /\ PutIn(old, z, list, Len(j.pattern), j.replacement)
  /\ j.searcher.stop = j.rangeEnd /\ j.searcher.stop <= Len(z)
  /\ \E D \in Int : /\ ShiftIs(D, list, Len(j.pattern), j.replacement)
                    /\ Ahead(list, j.searcher, j.pattern, old, D, start, stop)

\* What a step of such a job has replaced in the text the job began with.
StepReplaced(list, old, D, start, stop) ==
  /\ D \in Int /\ ShiftIs(D, list, Len(job.pattern), job.replacement)
  /\ StepAhead(list, Step.out, Step.searcher, job.pattern, old, D, start, stop)
  /\ PutIn(old, TextOf(doc', letters'), Back(list, Step.out, D), Len(job.pattern), job.replacement)

\* A step replaces the next matches of the text the job began with
\* (search.rs:78-147, drive.rs:76-94).
LEMMA StepReplacing ==
  ASSUME JobInv, job # NoJob, ReplacesStep, Unread = {}, NEW old, Len(old) \in Nat,
         NEW start \in Nat, NEW stop \in Nat, NEW list, ReplacingOk(list, job, old, Text, start, stop)
  PROVE  \E D : StepReplaced(list, old, D, start, stop)
<1>. DEFINE p == job.pattern
            s == job.searcher
            r == job.replacement
            m == Len(p)
            st == Step
            z == TextOf(doc', letters')
            empty == {}
<1>1. /\ doc \in GoodDocs /\ budget \in Int /\ m \in Nat \ {0} /\ GoodSearcher(s, m)
      /\ Len(r) \in Nat
  BY JobFields DEF JobInv
<1>2. Len(Text) \in Nat
  BY <1>1, TextLength DEF Text
<1>3. /\ FoundSoFar(list, old, p, start, stop) /\ PutIn(old, Text, list, m, r)
      /\ s.stop <= Len(Text)
  BY DEF ReplacingOk
<1>4. PICK D \in Int : ShiftIs(D, list, m, r) /\ Ahead(list, s, p, old, D, start, stop)
  BY DEF ReplacingOk
<1>5. StepIs(st, s, p, Text, empty)
  <2>1. StepIs(st, s, p, Text, Unread)
    BY <1>1, <1>2, <1>3, SteppedIs DEF Step
  <2>2. QED
    BY <2>1
<1>6. PutIn(Text, z, st.out, m, r)
  BY StepPut DEF StepPuts
<1>. HIDE DEF p, s, r, st, z
<1>7. StepAhead(list, st.out, st.searcher, p, old, D, start, stop)
  BY <1>1, <1>3, <1>4, <1>5, SteppedAhead DEF empty
<1>8. PutIn(old, z, Back(list, st.out, D), m, r)
  <2>. DEFINE all == Back(list, st.out, D)
              out == st.out
  <2>1. Behind(list, out, m, D) /\ BackIs(all, list, out, D)
    BY <1>7 DEF StepAhead
  <2>. HIDE DEF all, out
  <2>2. PutIn(Text, z, out, m, r)
    BY <1>6 DEF out
  <2>3. PutIn(old, z, all, m, r)
    BY <1>1, <1>3, <1>4, <2>1, <2>2, PutInTwice
  <2>4. QED
    BY <2>3 DEF all, out
<1>9. StepReplaced(list, old, D, start, stop)
  BY <1>4, <1>7, <1>8 DEF StepReplaced, p, s, r, st, z
<1>10. QED
  BY <1>9

\* What a finished replace-all has done: it has counted the matches of the reference,
\* and put its replacement in the place of each.
AllReplaced(count, z, old, p, r, start, stop) ==
  /\ count = Len(Greedy(old, p, start, stop))
  /\ z = Substituted(old, Elements(Greedy(old, p, start, stop)), Len(p), r)

\* A job that has been past the whole range has replaced all the reference lists.
LEMMA EndIsAll ==
  ASSUME NEW old, IsSequence(old), NEW z, IsSequence(z), NEW p, Len(p) \in Nat \ {0},
         NEW r \in Seq(Alphabet), NEW start \in Nat, NEW stop \in Nat,
         NEW all, FoundSoFar(all, old, p, start, stop), PutIn(old, z, all, Len(p), r),
         NEW t, t.finished, NEW D, Ahead(all, t, p, old, D, start, stop)
  PROVE  AllReplaced(Len(all), z, old, p, r, start, stop)
<1>. DEFINE G == Greedy(old, p, start, stop)
            complete == \A i \in Occurrences(old, p, start, stop) : Under(all, Len(p), i)
<1>1. complete
  BY DEF Ahead
<1>2. BeginsWith(G, all, complete)
  BY GreedyBegins
<1>. HIDE DEF complete, G
<1>3. /\ G \in Seq(Nat) /\ Len(G) = Len(all)
      /\ \A l \in 1 .. Len(all) : all[l] = G[l]
  BY <1>1, <1>2 DEF BeginsWith
<1>4. all \in Seq(Nat)
  BY DEF FoundSoFar
<1>5. G = all
  BY <1>3, <1>4, SMTT(30)
<1>6. Substituted(old, Elements(all), Len(p), r) = z
  BY PutInIs
<1>7. QED
  BY <1>5, <1>6 DEF AllReplaced, G

\* How a replace-all ends that nobody disturbed (drive.rs:95-112).
LEMMA ReplacingEnds ==
  ASSUME JobInv, job # NoJob, ReplacesStep, Step.searcher.finished, Unread = {},
         NEW old, IsSequence(old), NEW start \in Nat, NEW stop \in Nat,
         NEW list, ReplacingOk(list, job, old, Text, start, stop)
  PROVE  AllReplaced(job.count + Len(Step.out), TextOf(doc', letters'), old, job.pattern,
                     job.replacement, start, stop)
<1>1. Len(old) \in Nat
  BY SequenceOf
<1>2. PICK D : StepReplaced(list, old, D, start, stop)
  BY <1>1, StepReplacing
<1>. DEFINE p == job.pattern
            r == job.replacement
            out == Step.out
            t == Step.searcher
            z == TextOf(doc', letters')
            all == Back(list, out, D)
<1>3. /\ FoundSoFar(all, old, p, start, stop) /\ Ahead(all, t, p, old, D, start, stop)
      /\ BackIs(all, list, out, D) /\ PutIn(old, z, all, Len(p), r)
  BY <1>2 DEF StepReplaced, StepAhead
<1>4. doc' \in GoodDocs
  BY StepPut DEF StepPuts
<1>5. IsSequence(z)
  BY <1>4, TextLetters
<1>6. Len(p) \in Nat \ {0} /\ r \in Seq(Alphabet)
  BY JobFields DEF JobInv
<1>7. Len(list) = job.count
  BY DEF ReplacingOk
<1>8. Len(all) = job.count + Len(out)
  BY <1>3, <1>7 DEF BackIs
<1>9. t.finished
  OBVIOUS
<1>. HIDE DEF p, r, t, z, all
<1>10. AllReplaced(Len(all), z, old, p, r, start, stop)
  BY <1>3, <1>5, <1>6, <1>9, EndIsAll
<1>11. QED
  BY <1>8, <1>10 DEF p, r, z, all

\* What a step changes of the length, and where its last replacement ends.
StepShifts(x) ==
  /\ Len(Step.out) * x \in Int
  /\ Len(TextOf(doc', letters')) = Len(Text) + Len(Step.out) * x
  /\ Step.out # <<>> =>
       LET at == Shifted(Step.out, Len(Step.out), x) + Len(job.replacement)
       IN  /\ at \in Nat
           /\ at = Step.out[Len(Step.out)] + Len(job.pattern) + Len(Step.out) * x
           /\ at <= job.searcher.stop + Len(Step.out) * x

\* A step of replace-all moves what lies behind it (drive.rs:95-107).
LEMMA StepMoves ==
  ASSUME JobInv, job # NoJob, ReplacesStep
  PROVE  StepShifts(Len(job.replacement) - Len(job.pattern))
<1>. DEFINE out == Step.out
            m == Len(job.pattern)
            n == Len(job.replacement)
            x == n - m
            K == Len(out)
            b == job.searcher.stop
            u == out[K]
            y == K * x
            w == (K - 1) * x
<1>1. m \in Nat \ {0} /\ n \in Nat /\ x \in Int /\ b \in Nat
  BY JobFields DEF JobInv
<1>2. /\ out \in Seq(Nat)
      /\ \A k \in 1 .. Len(out) : out[k] + m <= b
      /\ \A k \in 1 .. Len(out) - 1 : out[k] + m <= out[k + 1]
  <2>1. StepFinds(out, job.searcher, job.pattern, Text, Unread)
    BY StepOfJob DEF StepKeeps
  <2>. HIDE DEF out
  <2>2. QED
    BY <2>1 DEF StepFinds
<1>3. Len(TextOf(doc', letters')) = Len(Text) + K * x
  BY StepPut DEF StepPuts, PutIn
<1>. HIDE DEF out
<1>4. K \in Nat
  BY <1>2
<1>. HIDE DEF K, x
<1>5. y = w + x /\ y \in Int /\ w \in Int
  BY <1>1, <1>4, OneMoreTimes
<1>6. ASSUME out # <<>>
      PROVE  /\ Shifted(out, K, x) + n \in Nat
             /\ Shifted(out, K, x) + n = u + m + y
             /\ Shifted(out, K, x) + n <= b + y
  <2>1. K \in 1 .. K
    BY <1>2, <1>4, <1>6 DEF K
  <2>2. Matches(b, out, m)
    BY <1>2 DEF Matches
  <2>3. Shifted(out, K, x) \in Nat /\ Shifted(out, K, x) + n <= b + y
    BY <1>1, <2>1, <2>2, ReplacedBefore DEF K, x
  <2>4. u \in Nat
    BY <1>2, <2>1 DEF K
  <2>5. Shifted(out, K, x) = u + w
    BY DEF Shifted
  <2>6. x = n - m
    BY DEF x
  <2>7. Shifted(out, K, x) + n = u + m + y
    <3>. HIDE DEF u, y, w, m, n
    <3>1. QED
      BY <1>1, <1>5, <2>4, <2>5, <2>6
  <2>8. QED
    BY <1>1, <2>3, <2>7
<1>. HIDE DEF y
<1>7. StepShifts(x)
  BY <1>3, <1>5, <1>6 DEF StepShifts, out, K, m, n, b, u, y
<1>8. QED
  BY <1>7 DEF x, m, n

\* A replace-all that goes on and that nobody disturbed has replaced what it has been
\* past (drive.rs:95-107).
LEMMA ReplacingGoes ==
  ASSUME JobInv, job # NoJob, ReplacesStep, Unread = {}, NEW old, Len(old) \in Nat,
         NEW start \in Nat, NEW stop \in Nat, NEW list, ReplacingOk(list, job, old, Text, start, stop)
  PROVE  \E more : ReplacingOk(more, Restarted(job, Step, doc'), old, TextOf(doc', letters'), start, stop)
<1>1. PICK D : StepReplaced(list, old, D, start, stop)
  BY StepReplacing
<1>. DEFINE p == job.pattern
            r == job.replacement
            m == Len(p)
            n == Len(r)
            x == n - m
            s == job.searcher
            out == Step.out
            t == Step.searcher
            z == TextOf(doc', letters')
            all == Back(list, out, D)
            K == Len(list)
            O == Len(out)
            y == O * x
            g == Restarted(job, Step, doc')
            len == Length(doc')
<1>2. /\ FoundSoFar(all, old, p, start, stop) /\ Ahead(all, t, p, old, D, start, stop)
      /\ BackIs(all, list, out, D) /\ PutIn(old, z, all, m, r)
      /\ D \in Int /\ D = K * x
  BY <1>1 DEF StepReplaced, StepAhead, ShiftIs
<1>3. /\ FoundSoFar(list, old, p, start, stop) /\ K = job.count
      /\ s.stop = job.rangeEnd /\ s.stop <= Len(Text)
  BY DEF ReplacingOk
<1>4. RestartedAs(g, job, Step, doc')
  BY RestartedIs DEF JobInv, GoodJob
<1>5. m \in Nat \ {0} /\ n \in Nat /\ s.stop \in Nat /\ x \in Int
  BY JobFields DEF JobInv
<1>6. doc' \in GoodDocs
  BY StepPut DEF StepPuts
<1>7. len = Len(z) /\ len \in Nat
  BY <1>6, TextLength
<1>8. GoodSearcher(t, m) /\ out \in Seq(Nat)
  BY StepOfJob DEF StepKeeps, StepFinds
<1>9. t.next \in Nat
  BY <1>8 DEF GoodSearcher, Searchers
<1>10. StepShifts(x)
  BY StepMoves
<1>11. Len(Text) \in Nat /\ K \in Nat /\ O \in Nat
  <2>1. Len(Text) \in Nat
    BY TextLength DEF JobInv, Text
  <2>2. list \in Seq(Nat)
    BY <1>3 DEF FoundSoFar
  <2>. HIDE DEF out
  <2>3. QED
    BY <1>8, <2>1, <2>2
<1>. HIDE DEF K, x
<1>12. (K + O) * x = D + y /\ y \in Int
  <2>. HIDE DEF O
  <2>1. K \in Int /\ O \in Int /\ x \in Int
    BY <1>5, <1>11
  <2>2. (K + O) * x = K * x + O * x /\ O * x \in Int
    BY <2>1, TimesSum
  <2>3. QED
    BY <1>2, <2>2
<1>13. /\ all \in Seq(Nat) /\ Len(all) = K + O
       /\ \A k \in 1 .. O : all[K + k] = out[k] - D
  BY <1>2 DEF BackIs, K
<1>14. Len(z) = Len(Text) + y
  BY <1>10 DEF StepShifts
<1>15. s.stop = stop + D
  <2>1. t.stop = stop + D
    BY <1>2 DEF Ahead
  <2>2. t.stop = s.stop
    BY StepOfJob DEF StepKeeps
  <2>3. QED
    BY <2>1, <2>2
<1>16. g.pattern = p /\ g.replacement = r /\ g.count = job.count + O
  BY <1>4 DEF RestartedAs
<1>17. Len(all) = g.count
  BY <1>3, <1>13, <1>16
<1>18. CASE n = m \/ out = <<>>
  <2>1. g.searcher = t /\ g.rangeEnd = job.rangeEnd
    BY <1>4, <1>18 DEF RestartedAs
  <2>2. y = 0
    <3>1. x = 0 \/ O = 0
      BY <1>5, <1>18 DEF x
    <3>2. QED
      BY <1>5, <1>11, <3>1
  <2>3. ShiftIs(D, all, m, r)
    <3>1. D = (K + O) * x
      BY <1>2, <1>12, <2>2
    <3>2. QED
      BY <1>13, <3>1 DEF ShiftIs, x
  <2>4. t.stop = s.stop
    BY StepOfJob DEF StepKeeps
  <2>5. g.searcher.stop = g.rangeEnd /\ g.searcher.stop <= Len(z)
    <3>. HIDE DEF g, t, z, s, y
    <3>1. QED
      BY <1>3, <1>5, <1>11, <1>14, <2>1, <2>2, <2>4
  <2>. HIDE DEF g, t, z, all, p, r, m
  <2>6. ReplacingOk(all, g, old, z, start, stop)
    BY <1>2, <1>16, <1>17, <2>1, <2>3, <2>5 DEF ReplacingOk, m
  <2>7. QED
    BY <2>6 DEF g, z
<1>19. CASE ~ (n = m \/ out = <<>>)
  <2>. DEFINE at == Shifted(out, O, x) + n
              b == job.rangeEnd + y
              E == D + y
              no == FALSE
  <2>1. g.rangeEnd = b /\ g.searcher = NewSearcher(at, b, len, at, no, no, m)
    BY <1>4, <1>19 DEF RestartedAs, x
  <2>2. at \in Nat /\ at = out[O] + m + y /\ at <= s.stop + y
    BY <1>10, <1>19 DEF StepShifts
  <2>3. O \in 1 .. O
    BY <1>8, <1>11, <1>19
  <2>4. all # <<>> /\ all[Len(all)] = out[O] - D
    <3>. HIDE DEF all, O, out
    <3>1. all[K + O] = out[O] - D /\ Len(all) = K + O /\ K + O > 0
      BY <1>11, <1>13, <2>3
    <3>2. all # <<>>
      BY <3>1
    <3>3. QED
      BY <3>1, <3>2
  <2>5. out[O] \in Nat
    BY <1>8, <2>3
  <2>. DEFINE v == out[O]
  <2>. HIDE DEF at, y, all, g, len, z, m, s, v, out, O
  <2>6. E \in Int /\ at = all[Len(all)] + m + E
    <3>. DEFINE a == all[Len(all)]
    <3>1. v \in Nat /\ a = v - D /\ at = v + m + y
      BY <2>2, <2>4, <2>5 DEF v
    <3>2. D \in Int /\ y \in Int /\ m \in Nat
      BY <1>2, <1>5, <1>12
    <3>. HIDE DEF a
    <3>3. D + y \in Int /\ at = a + m + (D + y)
      BY ONLY <3>1, <3>2
    <3>4. QED
      BY <3>3 DEF a
  <2>7. b \in Nat /\ b = stop + E /\ at <= b /\ b <= len
    <3>. DEFINE a == s.stop
                L == Len(Text)
    <3>1. b = a + y /\ a \in Nat /\ a <= L /\ L \in Nat /\ a = stop + D /\ at <= a + y
      BY <1>3, <1>5, <1>11, <1>15, <2>2
    <3>2. len = L + y /\ y \in Int /\ D \in Int /\ at \in Nat
      BY <1>2, <1>7, <1>12, <1>14, <2>2
    <3>. HIDE DEF a, L, b
    <3>3. b \in Nat /\ b = stop + (D + y) /\ at <= b /\ b <= len
      BY ONLY <3>1, <3>2
    <3>4. QED
      BY <3>3
  <2>. HIDE DEF b, E
  <2>8. Ahead(all, NewSearcher(at, b, len, at, FALSE, FALSE, m), p, old, E, start, stop)
    <3>. HIDE DEF p, t
    <3>1. Len(p) \in Nat \ {0} /\ m = Len(p)
      BY <1>5 DEF m
    <3>2. QED
      BY <1>2, <1>7, <1>9, <2>2, <2>4, <2>6, <2>7, <3>1, RestartAhead
  <2>9. Ahead(all, g.searcher, p, old, E, start, stop)
    BY <2>1, <2>8
  <2>10. ShiftIs(E, all, m, r)
    BY <1>12, <1>13 DEF ShiftIs, x, n, E
  <2>11. g.searcher.stop = g.rangeEnd /\ g.searcher.stop <= Len(z)
    <3>1. g.searcher.stop = stop + E
      BY <2>9 DEF Ahead
    <3>2. QED
      BY <1>7, <2>1, <2>7, <3>1
  <2>. HIDE DEF p, r
  <2>12. ReplacingOk(all, g, old, z, start, stop)
    BY <1>2, <1>16, <1>17, <2>6, <2>9, <2>10, <2>11 DEF ReplacingOk, m
  <2>13. QED
    BY <2>12 DEF g, z
<1>20. QED
  BY <1>18, <1>19

\* A replace-all begins with nothing replaced (gui/src/search.rs).
LEMMA BeginsReplacing ==
  ASSUME NEW d \in GoodDocs, NEW ls, NEW p \in Patterns, NEW r \in Replacements, NEW range,
         range[1] \in Nat, range[2] \in Nat, range[1] <= range[2], range[2] <= Length(d),
         NEW j, j = JobOf(d, "ReplaceAll", p, r, range, range[1], FALSE, FALSE)
  PROVE  /\ j.searcher.start \in Nat /\ j.searcher.stop \in Nat
         /\ ReplacingOk(<<>>, j, TextOf(d, ls), TextOf(d, ls), j.searcher.start, j.searcher.stop)
<1>. DEFINE x == range[1]
            y == range[2]
            len == Length(d)
            m == Len(p)
            n == Len(r)
            by == n - m
            no == FALSE
            s == NewSearcher(x, y, len, x, no, no, m)
            none == <<>>
            zero == 0
            kind == "ReplaceAll"
            text == TextOf(d, ls)
            N == Len(text)
<1>1. /\ m \in Nat \ {0} /\ len \in Nat /\ x \in Nat /\ y \in Nat /\ x <= y /\ y <= len
      /\ no \in BOOLEAN /\ ~ no /\ N = len /\ by \in Int
  BY PatternLength, ReplacementLetters, TextLength
<1>2. j = [kind |-> kind, pattern |-> p, replacement |-> r, rangeEnd |-> y,
           count |-> zero, results |-> none, searcher |-> s]
  BY DEF JobOf
<1>3. s.stop = y
  <2>1. Least(y, len) = y
    BY <1>1 DEF Least
  <2>2. s.stop = Least(y, len)
    <3>. HIDE DEF x, y, len, no, m
    <3>1. QED
      BY DEF NewSearcher
  <2>3. QED
    BY <2>1, <2>2
<1>. HIDE DEF x, y, len, m, n, by, no, text, N, kind
<1>4. Begins(s, m) /\ s.backward = no /\ s.wrap = no /\ s.origin = s.start
  <2>1. BeginsAs(NewSearcher(x, y, len, x, no, no, m), x, y, len, x, no, no, m)
    BY ONLY <1>1, NewBegins
  <2>2. BeginsAs(s, x, y, len, x, no, no, m)
    BY <2>1
  <2>. HIDE DEF s
  <2>3. QED
    BY <1>1, <2>2 DEF BeginsAs
<1>5. GoodSearcher(s, m)
  BY ONLY <1>1, NewIsGood
<1>6. s.start \in Nat /\ s.stop \in Nat
  BY <1>5 DEF GoodSearcher, Searchers
<1>. HIDE DEF s
<1>7. /\ j.pattern = p /\ j.replacement = r /\ j.rangeEnd = y /\ j.count = zero /\ j.searcher = s
  <2>. HIDE DEF none, zero
  <2>1. QED
    BY ONLY <1>2
<1>8. none \in Seq(Nat) /\ Len(none) = 0
  OBVIOUS
<1>. HIDE DEF none
<1>9. FoundSoFar(none, text, p, s.start, s.stop)
  BY <1>8 DEF FoundSoFar
<1>10. zero * by = 0 /\ zero \in Int /\ \A i \in Nat : i + zero = i
  BY <1>1
<1>11. PutIn(text, text, none, m, r)
  <2>1. Matches(N, none, m)
    BY <1>8 DEF Matches
  <2>2. N = N + Len(none) * by
    BY <1>1, <1>8, <1>10
  <2>3. ASSUME NEW k \in 0 .. Len(none), NEW i \in 0 .. N - 1
        PROVE  text[i + k * by + 1] = text[i + 1]
    <3>1. k = zero /\ i \in Nat
      BY <1>1, <1>8
    <3>2. i + k * by + 1 = i + 1
      BY <1>10, <3>1
    <3>3. QED
      BY <3>2
  <2>4. ASSUME NEW k \in 1 .. Len(none) PROVE FALSE
    BY <1>8
  <2>5. QED
    BY <2>1, <2>2, <2>3, <2>4 DEF PutIn, N, by, n
<1>12. ShiftIs(zero, none, m, r)
  BY <1>8, <1>10 DEF ShiftIs, by, n
<1>13. Ahead(none, s, p, text, zero, s.start, s.stop)
  <2>1. ~ s.backward /\ ~ s.wrap /\ ~ s.wrapped /\ s.pos = s.start /\ s.next = s.start
    BY <1>1, <1>4 DEF Begins
  <2>2. s.finished => s.start >= CandEnd(s.start, s.stop, m)
    BY <1>4 DEF Begins
  <2>3. ASSUME NEW i \in Occurrences(text, p, s.start, s.stop)
        PROVE  ~ (i + zero < s.pos \/ i + zero < s.next \/ s.finished)
    <3>1. i \in Nat /\ s.start <= i /\ i < CandEnd(s.start, s.stop, m)
      BY <1>1, <1>6, OccurrencesAre DEF m
    <3>2. CandEnd(s.start, s.stop, m) \in Nat
      BY <1>1, <1>6, CandEndIs
    <3>3. QED
      BY <1>6, <2>1, <2>2, <3>1, <3>2
  <2>4. s.stop = s.stop + zero /\ s.start + zero <= s.next
    BY <1>6, <2>1
  <2>. HIDE DEF zero
  <2>5. QED
    BY <1>8, <2>1, <2>3, <2>4 DEF Ahead
<1>14. s.stop = j.rangeEnd /\ s.stop <= N
  BY <1>1, <1>3, <1>7
<1>. HIDE DEF zero
<1>15. ReplacingOk(none, j, text, text, s.start, s.stop)
  <2>1. Len(none) = j.count
    BY <1>7, <1>8 DEF zero
  <2>2. QED
    BY <1>7, <1>9, <1>10, <1>11, <1>12, <1>13, <1>14, <2>1 DEF ReplacingOk, m, N
<1>16. QED
  BY <1>6, <1>7, <1>15 DEF none, text

\* The replace-all j that nobody disturbed: what it was asked, and what it has replaced.
ReplacingFrom(j, a, z, unread) ==
  /\ unread = {} /\ IsSequence(a.text)
  /\ a.searcher.start \in Nat /\ a.searcher.stop \in Nat
  /\ \E list : ReplacingOk(list, j, a.text, z, a.searcher.start, a.searcher.stop)

ReplacingInv ==
  job # NoJob /\ job.kind = "ReplaceAll" /\ asked.is = "known" /\ asked.unread = {}
    => ReplacingFrom(job, asked, Text, Unread)

\* It begins so.
LEMMA StartReplacing ==
  ASSUME JobInv, HStart, job' # NoJob, job'.kind = "ReplaceAll", asked'.unread = {}
  PROVE  ReplacingFrom(job', asked', Text', Unread')
<1>0. doc \in GoodDocs /\ Length(doc) \in Nat /\ 0 \in Nat
  BY GoodDocFields DEF JobInv
<1>1. PICK p \in Patterns, wrap \in BOOLEAN :
        \/ \E range \in SearchRanges, backward \in BOOLEAN :
             \E from \in Froms(range, backward) : StartNext(p, backward, wrap, range, from)
        \/ \E range \in SearchRanges : StartAll(p, range)
        \/ \E range \in SearchRanges, r \in Replacements : StartReplaceAll(p, r, range)
        \/ \E r \in Replacements, at \in Offsets : ReplaceCurrent(p, r, at, wrap)
  BY DEF HStart, Start
<1>2. ASSUME NEW range, NEW backward, NEW from, StartNext(p, backward, wrap, range, from) PROVE FALSE
  <2>1. job'.kind = "Next"
    BY <1>2 DEF StartNext, Begin, JobOf
  <2>2. QED
    BY <2>1
<1>3. ASSUME NEW range, StartAll(p, range) PROVE FALSE
  <2>1. job'.kind = "All"
    BY <1>3 DEF StartAll, Begin, JobOf
  <2>2. QED
    BY <2>1
<1>4. ASSUME NEW r, NEW at, ReplaceCurrent(p, r, at, wrap) PROVE FALSE
  <2>1. job = NoJob /\ Replaced(p, r, at, wrap)
    BY <1>4 DEF ReplaceCurrent
  <2>2. Begin(JobOf(doc', "Next", p, <<>>, Whole(doc'), at + Len(r), FALSE, wrap))
    BY <2>1 DEF Replaced
  <2>3. job'.kind = "Next"
    BY <2>2 DEF Begin, JobOf
  <2>4. QED
    BY <2>3
<1>5. PICK range \in SearchRanges, r \in Replacements : StartReplaceAll(p, r, range)
  BY <1>1, <1>2, <1>3, <1>4
<1>6. /\ job' = JobOf(doc, "ReplaceAll", p, r, range, range[1], FALSE, FALSE)
      /\ UNCHANGED <<doc, letters, source, bad>>
  BY <1>5 DEF StartReplaceAll, Begin
<1>7. /\ range[1] \in Nat /\ range[2] \in Nat /\ range[1] <= range[2]
      /\ range[2] <= Length(doc)
  <2>1. range[1] \in Nat /\ range[2] \in Nat /\ range[1] <= range[2]
    BY <1>0, RangesAre
  <2>2. range[2] <= Length(doc)
    BY <1>0 DEF SearchRanges, Whole
  <2>3. QED
    BY <2>1, <2>2
<1>. DEFINE j == job'
            a == asked'
            text == TextOf(doc, letters)
<1>8. /\ j.searcher.start \in Nat /\ j.searcher.stop \in Nat
      /\ ReplacingOk(<<>>, j, text, text, j.searcher.start, j.searcher.stop)
  <2>1. j = JobOf(doc, "ReplaceAll", p, r, range, range[1], FALSE, FALSE) /\ p \in Patterns
    BY <1>1, <1>6
  <2>. HIDE DEF j
  <2>2. QED
    BY <1>0, <1>7, <2>1, BeginsReplacing
<1>9. Text' = text /\ Unread' = UnreadIn(doc)
  BY <1>6, TextAfter
<1>10. a.text = text /\ a.unread = UnreadIn(doc) /\ a.searcher = j.searcher
  <2>1. a = AskedNow(doc', letters', j)
    BY DEF HStart
  <2>2. a.text = TextOf(doc', letters') /\ a.unread = UnreadIn(doc') /\ a.searcher = j.searcher
    BY <2>1 DEF AskedNow
  <2>3. TextOf(doc', letters') = text /\ UnreadIn(doc') = UnreadIn(doc)
    BY <1>6
  <2>. HIDE DEF a, text, j
  <2>4. QED
    BY <2>2, <2>3
<1>11. IsSequence(text)
  BY <1>0, TextLetters
<1>12. a.unread = {}
  OBVIOUS
<1>. DEFINE none == <<>>
<1>13. ReplacingOk(none, j, text, text, j.searcher.start, j.searcher.stop)
  BY <1>8
<1>. HIDE DEF j, a, text, none
<1>14. ReplacingFrom(j, a, text, UnreadIn(doc))
  BY <1>8, <1>10, <1>11, <1>12, <1>13 DEF ReplacingFrom
<1>15. QED
  BY <1>9, <1>14 DEF j, a

\* Every step keeps what a replace-all that nobody disturbed has replaced right.
LEMMA NextReplacing == JobInv /\ ReplacingInv /\ [HNext]_hvars => ReplacingInv'
<1>1. SUFFICES ASSUME JobInv, ReplacingInv, [HNext]_hvars PROVE ReplacingInv'
  OBVIOUS
<1>2. CASE HStart
  BY <1>1, <1>2, StartReplacing DEF ReplacingInv
<1>3. CASE BeginFrame /\ UNCHANGED asked
  <2>1. UNCHANGED <<doc, letters, source, bad, job, asked>>
    BY <1>3 DEF BeginFrame
  <2>2. Text' = Text /\ Unread' = Unread
    BY <2>1 DEF Text, Unread, TextOf, UnreadIn
  <2>3. QED
    BY <1>1, <2>1, <2>2 DEF ReplacingInv
<1>4. CASE HEnd /\ job' = NoJob
  BY <1>4 DEF ReplacingInv
<1>5. CASE (DriveNext \/ DriveAll) /\ job' # NoJob
  <2>1. job'.kind # "ReplaceAll"
    BY <1>1, <1>5, DriveOthersKeep
  <2>2. QED
    BY <2>1 DEF ReplacingInv
<1>6. CASE DriveReplaceAll /\ job' # NoJob /\ asked' = asked
  <2>1. SUFFICES ASSUME asked.is = "known", asked.unread = {}
                 PROVE  ReplacingFrom(job', asked, Text', Unread')
    BY <1>6 DEF ReplacingInv
  <2>2. job # NoJob /\ job.kind = "ReplaceAll" /\ (ReplacesStep \/ TearsStep \/ RefusesStep)
    BY <1>6, DriveReplaceAllIs
  <2>3. ReplacesStep
    BY <1>6, <2>2 DEF TearsStep, RefusesStep, Finish
  <2>4. job' = Restarted(job, Step, doc')
    BY <1>6, <2>3 DEF ReplacesStep, GoesOn
  <2>. DEFINE old == asked.text
              start == asked.searcher.start
              stop == asked.searcher.stop
              g == Restarted(job, Step, doc')
              z == TextOf(doc', letters')
  <2>5. /\ Unread = {} /\ IsSequence(old) /\ start \in Nat /\ stop \in Nat
        /\ \E list : ReplacingOk(list, job, old, Text, start, stop)
    BY <1>1, <2>1, <2>2 DEF ReplacingInv, ReplacingFrom
  <2>6. PICK list : ReplacingOk(list, job, old, Text, start, stop)
    BY <2>5
  <2>7. Len(old) \in Nat
    BY <2>5, SequenceOf
  <2>8. \E more : ReplacingOk(more, g, old, z, start, stop)
    <3>. HIDE DEF old, start, stop
    <3>1. QED
      BY <1>1, <2>2, <2>3, <2>5, <2>6, <2>7, ReplacingGoes
  <2>9. Text' = z /\ Unread' = UnreadIn(doc')
    <3>1. UNCHANGED <<source, bad>>
      BY <1>6 DEF DriveReplaceAll
    <3>2. QED
      BY <3>1, TextAfter
  <2>10. UnreadIn(doc') = {}
    BY <1>1, <2>2, <2>3, <2>5, StepPut DEF StepPuts, Unread
  <2>. HIDE DEF g, z
  <2>11. ReplacingFrom(g, asked, z, UnreadIn(doc'))
    BY <2>5, <2>8, <2>10 DEF ReplacingFrom
  <2>12. QED
    BY <2>4, <2>9, <2>11 DEF g
<1>7. CASE HUser
  <2>1. asked'.is # "known"
    BY <1>7 DEF HUser, NotAsked, Disturbed
  <2>2. QED
    BY <2>1 DEF ReplacingInv
<1>8. CASE UNCHANGED hvars
  <2>1. UNCHANGED <<doc, letters, source, bad, job, asked>>
    BY <1>8 DEF hvars, searchvars
  <2>2. Text' = Text /\ Unread' = Unread
    BY <2>1 DEF Text, Unread, TextOf, UnreadIn
  <2>3. QED
    BY <1>1, <2>1, <2>2 DEF ReplacingInv
<1>9. ASSUME HEnd, job' # NoJob PROVE (Drive /\ asked' = asked)
  BY <1>9 DEF HEnd, Cancel, Finish
<1>10. QED
  BY <1>1, <1>2, <1>3, <1>4, <1>5, <1>6, <1>7, <1>8, <1>9 DEF HNext, Drive

\* In every state the replace-all that runs undisturbed has replaced the matches it
\* has been past, and no others.
LEMMA ReplacingInvHolds == HSpec => [](JobInv /\ ReplacingInv)
<1>1. HInit => JobInv /\ ReplacingInv
  <2>1. HInit => job = NoJob
    BY DEF HInit, SearchInit
  <2>2. QED
    BY <2>1, InitJob DEF ReplacingInv
<1>2. (JobInv /\ ReplacingInv) /\ [HNext]_hvars => (JobInv /\ ReplacingInv)'
  BY NextJob, NextReplacing
<1>3. QED
  BY <1>1, <1>2, PTL DEF HSpec

\* How a replace-all ends that nobody disturbed and that can read every byte.
LEMMA ReplacedAllEnds ==
  ASSUME JobInv, ReplacingInv, DriveReplaceAll, job' = NoJob, asked.is = "known",
         asked.unread = {}, outcome'.kind = "Replaced"
  PROVE  AllReplaced(outcome'.count, TextOf(doc', letters'), asked.text, job.pattern,
                     job.replacement, asked.searcher.start, asked.searcher.stop)
<1>1. job # NoJob /\ job.kind = "ReplaceAll" /\ (ReplacesStep \/ TearsStep \/ RefusesStep)
  BY DriveReplaceAllIs
<1>2. ReplacesStep
  <2>1. (TearsStep => outcome' = [kind |-> "Torn"]) /\ (RefusesStep => outcome' = [kind |-> "Error"])
    BY DEF TearsStep, RefusesStep, Finish, Ended
  <2>2. ~ TearsStep /\ ~ RefusesStep
    BY <2>1
  <2>3. QED
    BY <1>1, <2>2
<1>3. outcome' = [kind |-> "Replaced", count |-> job.count + Len(Step.out)] /\ Step.searcher.finished
  <2>1. outcome' # outcome
    BY <1>1 DEF JobInv, Pending
  <2>2. QED
    BY <1>2, <2>1 DEF ReplacesStep, GoesOn
<1>4. ReplacingFrom(job, asked, Text, Unread)
  BY <1>1 DEF ReplacingInv
<1>. DEFINE old == asked.text
            start == asked.searcher.start
            stop == asked.searcher.stop
<1>5. /\ Unread = {} /\ IsSequence(old) /\ start \in Nat /\ stop \in Nat
      /\ \E list : ReplacingOk(list, job, old, Text, start, stop)
  BY <1>4 DEF ReplacingFrom
<1>6. PICK list : ReplacingOk(list, job, old, Text, start, stop)
  BY <1>5
<1>7. outcome'.count = job.count + Len(Step.out)
  BY <1>3
<1>. HIDE DEF old, start, stop
<1>8. AllReplaced(job.count + Len(Step.out), TextOf(doc', letters'), old, job.pattern,
                  job.replacement, start, stop)
  BY <1>1, <1>2, <1>3, <1>5, <1>6, ReplacingEnds
<1>9. QED
  BY <1>7, <1>8 DEF old, start, stop

\* Replace all substitutes every match of its range as it was when the job began,
\* each once, although every replacement of another length shifts the text under the
\* searcher, and counts them (drive.rs:76-112).
THEOREM ReplacesAll == HSpec => ReplaceAllIsExact
<1>. DEFINE P == EndsKnown({"Replaced"}) /\ asked.unread = {} =>
       /\ outcome'.count = Len(AskedGreedy)
       /\ TextOf(doc', letters') =
            Substituted(asked.text, Elements(AskedGreedy), Len(job.pattern), job.replacement)
<1>1. (JobInv /\ ReplacingInv) /\ [HNext]_hvars => [P]_hvars
  <2>1. ASSUME JobInv, ReplacingInv, HNext PROVE P
    <3>1. SUFFICES ASSUME EndsKnown({"Replaced"}), asked.unread = {} PROVE P
      OBVIOUS
    <3>2. DriveReplaceAll /\ outcome'.kind = "Replaced"
      BY <2>1, <3>1, WhatEnds DEF EndsKnown
    <3>3. AllReplaced(outcome'.count, TextOf(doc', letters'), asked.text, job.pattern,
                      job.replacement, asked.searcher.start, asked.searcher.stop)
      BY <2>1, <3>1, <3>2, ReplacedAllEnds DEF EndsKnown
    <3>4. QED
      BY <3>3 DEF AllReplaced, AskedGreedy
  <2>. HIDE DEF P
  <2>2. QED
    BY <2>1
<1>2. QED
  BY <1>1, ReplacingInvHolds, PTL DEF HSpec, ReplaceAllIsExact
=============================================================================
