--------------------------- MODULE DocumentProofs ---------------------------
(***************************************************************************)
(* What the operators of PieceTable return, for every table, and the safety *)
(* of Document for every value of its constants.                           *)
(*                                                                         *)
(* The typing and the storage invariant are one argument: every operation  *)
(* keeps a document inside Docs(P), for any set P of pieces that clipping  *)
(* cannot leave.  All pieces are such a set, and so are the non-empty      *)
(* pieces that lie in their store.                                         *)
(***************************************************************************)
EXTENDS Document, Induction, SequenceTheorems

-----------------------------------------------------------------------------
(* The recursive functions satisfy their defining equations. *)

\* The running ends are defined piece by piece.
LEMMA EndsRecursion ==
  ASSUME NEW t \in Seq(Piece)
  PROVE  /\ Ends(t) \in [0 .. Len(t) -> Nat]
         /\ Ends(t)[0] = 0
         /\ \A k \in 1 .. Len(t) : Ends(t)[k] = Ends(t)[k - 1] + t[k].len
<1>. DEFINE n == Len(t)
            step == [x \in Nat \X (1 .. n) |-> x[1] + t[x[2]].len]
            Body(f) == [k \in 0 .. Len(t) |-> IF k = 0 THEN 0 ELSE f[k - 1] + t[k].len]
<1>1. n \in Nat /\ \A i \in 1 .. n : t[i].len \in Nat
  <2>1. n \in Nat /\ \A i \in 1 .. n : t[i] \in Piece
    OBVIOUS
  <2>2. QED
    BY <2>1 DEF Piece
<1>2. step \in [Nat \X (1 .. n) -> Nat]
  BY <1>1
<1>3. PICK r \in [0 .. n -> Nat] :
        r[0] = 0 /\ \A i \in 1 .. n : r[i] = step[<<r[i - 1], i>>]
  <2>1. 0 \in Nat
    OBVIOUS
  <2>2. Recursions(Nat, n, 0, step) # {}
    <3>. HIDE DEF step, n
    <3>1. QED
      BY <1>1, <1>2, <2>1, RecursionExists, Zenon
  <2>3. QED
    BY <2>2 DEF Recursions
<1>4. \A i \in 1 .. n : r[i] = r[i - 1] + t[i].len
  <2>1. \A i \in 1 .. n : i - 1 \in 0 .. n
    BY <1>1
  <2>2. \A i \in 1 .. n : <<r[i - 1], i>> \in Nat \X (1 .. n)
    BY <2>1
  <2>3. QED
    BY <2>2, <1>3
<1>5. r = Body(r)
  BY <1>3, <1>4
<1>6. Ends(t) = CHOOSE f : f = Body(f)
  BY DEF Ends
<1>7. Ends(t) = Body(Ends(t))
  <2>. HIDE DEF Body
  <2>1. QED
    BY <1>5, <1>6
<1>. DEFINE e == Ends(t)
<1>8. e[0] = 0 /\ \A k \in 1 .. n : e[k] = e[k - 1] + t[k].len
  <2>. HIDE DEF e
  <2>1. e = Body(e)
    BY <1>7 DEF e
  <2>2. QED
    BY <2>1, <1>1
<1>9. \A k \in 0 .. n : e[k] \in Nat
  <2>. DEFINE S == {k \in 0 .. n : e[k] \in Nat}
  <2>1. 0 \in S
    BY <1>8, <1>1
  <2>2. ASSUME NEW k \in 1 .. n, k - 1 \in S PROVE k \in S
    <3>1. e[k] = e[k - 1] + t[k].len
      BY <1>8
    <3>2. e[k - 1] \in Nat /\ t[k].len \in Nat
      BY <2>2, <1>1
    <3>. HIDE DEF e
    <3>3. QED
      BY <3>1, <3>2, <1>1
  <2>3. QED
    <3>. HIDE DEF S, e, n
    <3>1. \A k \in 0 .. n : k \in S
      BY <2>1, <2>2, <1>1, PrefixInduction
    <3>2. QED
      BY <3>1 DEF S
<1>10. QED
  BY <1>7, <1>8, <1>9

\* Concatenating cells is associative.
LEMMA CellsAssociate ==
  ASSUME NEW a \in Seq(Cell), NEW b \in Seq(Cell), NEW c \in Seq(Cell)
  PROVE  (a \o b) \o c = a \o (b \o c)
BY ConcatAssociative

\* The bytes of a piece, one cell each.
LEMMA BytesType ==
  ASSUME NEW p \in Piece
  PROVE  /\ Bytes(p) \in Seq(Cell)
         /\ Len(Bytes(p)) = p.len
         /\ \A i \in 1 .. p.len : Bytes(p)[i] = <<p.store, p.offset + i - 1>>
<1>1. p.len \in Nat /\ p.offset \in Nat /\ p.store \in Store
  BY DEF Piece
<1>2. \A i \in 1 .. p.len : <<p.store, p.offset + i - 1>> \in Cell
  BY <1>1 DEF Cell
<1>3. QED
  BY <1>1, <1>2 DEF Bytes

\* The content is defined piece by piece.
LEMMA ContentRecursion ==
  ASSUME NEW t \in Seq(Piece)
  PROVE  /\ ContentUpTo(t) \in [0 .. Len(t) -> Seq(Cell)]
         /\ ContentUpTo(t)[0] = <<>>
         /\ \A k \in 1 .. Len(t) : ContentUpTo(t)[k] = ContentUpTo(t)[k - 1] \o Bytes(t[k])
<1>. DEFINE n == Len(t)
            C == Seq(Cell)
            step == [x \in C \X (1 .. n) |-> x[1] \o Bytes(t[x[2]])]
            Body(f) == [k \in 0 .. Len(t) |-> IF k = 0 THEN <<>> ELSE f[k - 1] \o Bytes(t[k])]
<1>1. n \in Nat /\ \A i \in 1 .. n : Bytes(t[i]) \in C
  <2>1. n \in Nat /\ \A i \in 1 .. n : t[i] \in Piece
    OBVIOUS
  <2>2. QED
    BY <2>1, BytesType
<1>2. step \in [C \X (1 .. n) -> C]
  BY <1>1
<1>3. PICK r \in [0 .. n -> C] :
        r[0] = <<>> /\ \A i \in 1 .. n : r[i] = step[<<r[i - 1], i>>]
  <2>1. <<>> \in C
    OBVIOUS
  <2>2. Recursions(C, n, <<>>, step) # {}
    <3>. HIDE DEF step, n, C
    <3>1. QED
      BY <1>1, <1>2, <2>1, RecursionExists, Zenon
  <2>3. QED
    BY <2>2 DEF Recursions
<1>4. \A i \in 1 .. n : r[i] = r[i - 1] \o Bytes(t[i])
  <2>. HIDE DEF C
  <2>1. \A i \in 1 .. n : i - 1 \in 0 .. n
    BY <1>1
  <2>2. \A i \in 1 .. n : <<r[i - 1], i>> \in C \X (1 .. n)
    BY <2>1
  <2>3. QED
    BY <2>2, <1>3
<1>5. r = Body(r)
  <2>. HIDE DEF C
  <2>1. QED
    BY <1>3, <1>4
<1>6. ContentUpTo(t) = CHOOSE f : f = Body(f)
  BY DEF ContentUpTo
<1>7. ContentUpTo(t) = Body(ContentUpTo(t))
  <2>. HIDE DEF Body
  <2>1. QED
    BY <1>5, <1>6
<1>. DEFINE e == ContentUpTo(t)
<1>8. e[0] = <<>> /\ \A k \in 1 .. n : e[k] = e[k - 1] \o Bytes(t[k])
  <2>. HIDE DEF e
  <2>1. e = Body(e)
    BY <1>7 DEF e
  <2>2. \A k \in 0 .. n : Body(e)[k] = IF k = 0 THEN <<>> ELSE e[k - 1] \o Bytes(t[k])
    OBVIOUS
  <2>3. \A k \in 0 .. n : e[k] = IF k = 0 THEN <<>> ELSE e[k - 1] \o Bytes(t[k])
    <3>. HIDE DEF Body
    <3>1. QED
      BY <2>1, <2>2
  <2>4. 0 \in 0 .. n /\ \A k \in 1 .. n : k \in 0 .. n /\ k # 0
    BY <1>1
  <2>. HIDE DEF n
  <2>5. QED
    BY <2>3, <2>4, Zenon
<1>9. \A k \in 0 .. n : e[k] \in C
  <2>. DEFINE S == {k \in 0 .. n : e[k] \in C}
  <2>. HIDE DEF e
  <2>1. 0 \in S
    <3>1. e[0] \in C
      BY <1>8
    <3>2. QED
      BY <3>1, <1>1
  <2>2. ASSUME NEW k \in 1 .. n, k - 1 \in S PROVE k \in S
    <3>1. e[k - 1] \in C /\ Bytes(t[k]) \in C
      BY <2>2, <1>1
    <3>2. e[k - 1] \o Bytes(t[k]) \in C
      BY <3>1
    <3>3. e[k] = e[k - 1] \o Bytes(t[k])
      BY <1>8
    <3>. HIDE DEF C
    <3>4. k \in 0 .. n /\ e[k] \in C
      BY <3>2, <3>3, <1>1
    <3>5. QED
      BY <3>4
  <2>3. QED
    <3>. HIDE DEF S, n
    <3>1. \A k \in 0 .. n : k \in S
      BY <2>1, <2>2, <1>1, PrefixInduction
    <3>2. QED
      BY <3>1 DEF S
<1>10. QED
  BY <1>7, <1>8, <1>9

\* The content is a sequence of cells.
LEMMA ContentType ==
  ASSUME NEW t \in Seq(Piece)
  PROVE  Content(t) \in Seq(Cell)
<1>1. ContentUpTo(t) \in [0 .. Len(t) -> Seq(Cell)]
  BY ContentRecursion
<1>2. Len(t) \in 0 .. Len(t)
  OBVIOUS
<1>3. QED
  BY <1>1, <1>2 DEF Content

\* The running lengths are the lengths of the contents.
LEMMA ContentLength ==
  ASSUME NEW t \in Seq(Piece)
  PROVE  /\ \A k \in 0 .. Len(t) : Len(ContentUpTo(t)[k]) = Ends(t)[k]
         /\ Len(Content(t)) = TotalLen(t)
         /\ TotalLen(t) \in Nat
<1>. DEFINE n == Len(t)
            c == ContentUpTo(t)
            e == Ends(t)
            S == {k \in 0 .. n : Len(c[k]) = e[k]}
<1>1. n \in Nat /\ \A i \in 1 .. n : t[i] \in Piece
  OBVIOUS
<1>2. \A i \in 1 .. n : Bytes(t[i]) \in Seq(Cell) /\ Len(Bytes(t[i])) = t[i].len
  BY <1>1, BytesType
<1>3. /\ c \in [0 .. n -> Seq(Cell)]
      /\ c[0] = <<>>
      /\ \A k \in 1 .. n : c[k] = c[k - 1] \o Bytes(t[k])
  BY ContentRecursion
<1>4. /\ e \in [0 .. n -> Nat]
      /\ e[0] = 0
      /\ \A k \in 1 .. n : e[k] = e[k - 1] + t[k].len
  BY EndsRecursion
<1>. HIDE DEF c, e
<1>5. 0 \in S
  BY <1>1, <1>3, <1>4
<1>6. ASSUME NEW k \in 1 .. n, k - 1 \in S PROVE k \in S
  <2>1. k - 1 \in 0 .. n /\ c[k - 1] \in Seq(Cell)
    BY <1>1, <1>3, SMTT(20)
  <2>2. Len(c[k - 1] \o Bytes(t[k])) = Len(c[k - 1]) + Len(Bytes(t[k]))
    BY <2>1, <1>2
  <2>3. c[k] = c[k - 1] \o Bytes(t[k]) /\ e[k] = e[k - 1] + t[k].len
    BY <1>3, <1>4
  <2>4. Len(c[k - 1]) = e[k - 1] /\ Len(Bytes(t[k])) = t[k].len
    BY <1>2, <1>6
  <2>5. Len(c[k]) = e[k]
    BY <2>2, <2>3, <2>4
  <2>6. QED
    BY <2>5
<1>7. \A k \in 0 .. n : k \in S
  <2>. HIDE DEF S, n
  <2>1. QED
    BY <1>5, <1>6, <1>1, PrefixInduction
<1>8. QED
  BY <1>7, <1>4, <1>1 DEF Content, TotalLen, c, e

\* The content of one piece is its bytes.
LEMMA ContentOfOne ==
  ASSUME NEW p \in Piece
  PROVE  Content(<<p>>) = Bytes(p)
<1>. DEFINE t == <<p>>
<1>1. t \in Seq(Piece) /\ Len(t) = 1 /\ t[1] = p /\ 1 \in 1 .. Len(t) /\ 1 - 1 = 0
  OBVIOUS
<1>. HIDE DEF t
<1>2. ContentUpTo(t)[0] = <<>> /\ ContentUpTo(t)[1] = ContentUpTo(t)[0] \o Bytes(p)
  BY <1>1, ContentRecursion
<1>3. <<>> \o Bytes(p) = Bytes(p)
  BY BytesType, ConcatEmptySeq
<1>4. Content(t) = Bytes(p)
  BY <1>1, <1>2, <1>3 DEF Content
<1>5. QED
  BY <1>4 DEF t

\* The empty table is the empty document.
LEMMA ContentOfNone == Content(<<>>) = <<>>
<1>1. <<>> \in Seq(Piece) /\ Len(<<>>) = 0
  OBVIOUS
<1>2. QED
  BY <1>1, ContentRecursion DEF Content

\* The content of a concatenation is the concatenation of the contents.
LEMMA ContentConcat ==
  ASSUME NEW t \in Seq(Piece), NEW u \in Seq(Piece)
  PROVE  Content(t \o u) = Content(t) \o Content(u)
<1>. DEFINE v == t \o u
            m == Len(t)
            n == Len(u)
            cv == ContentUpTo(v)
            ct == ContentUpTo(t)
            cu == ContentUpTo(u)
<1>1. /\ v \in Seq(Piece) /\ Len(v) = m + n /\ m \in Nat /\ n \in Nat
      /\ \A k \in 1 .. m : v[k] = t[k] /\ t[k] \in Piece
      /\ \A k \in 1 .. n : v[m + k] = u[k] /\ u[k] \in Piece
  OBVIOUS
<1>2. /\ cv[0] = <<>> /\ \A k \in 1 .. m + n : cv[k] = cv[k - 1] \o Bytes(v[k])
      /\ ct[0] = <<>> /\ \A k \in 1 .. m : ct[k] = ct[k - 1] \o Bytes(t[k])
      /\ cu[0] = <<>> /\ \A k \in 1 .. n : cu[k] = cu[k - 1] \o Bytes(u[k])
  <2>. HIDE DEF v, m, n
  <2>1. v \in Seq(Piece) /\ Len(v) = m + n /\ Len(t) = m /\ Len(u) = n
    BY <1>1 DEF m, n
  <2>2. QED
    BY <2>1, ContentRecursion
<1>3. /\ \A k \in 0 .. m : ct[k] \in Seq(Cell)
      /\ \A k \in 0 .. n : cu[k] \in Seq(Cell)
  BY ContentRecursion
<1>. HIDE DEF v, m, n, cv, ct, cu
<1>4. \A k \in 0 .. m : cv[k] = ct[k]
  <2>. DEFINE S == {k \in 0 .. m : cv[k] = ct[k]}
  <2>1. 0 \in S
    BY <1>1, <1>2
  <2>2. ASSUME NEW k \in 1 .. m, k - 1 \in S PROVE k \in S
    <3>1. k \in 1 .. m + n /\ k \in 0 .. m
      BY <1>1
    <3>2. cv[k] = cv[k - 1] \o Bytes(v[k]) /\ ct[k] = ct[k - 1] \o Bytes(t[k]) /\ v[k] = t[k]
      BY <3>1, <1>1, <1>2
    <3>3. QED
      BY <3>1, <3>2, <2>2
  <2>3. QED
    <3>. HIDE DEF S
    <3>1. \A k \in 0 .. m : k \in S
      BY <2>1, <2>2, <1>1, PrefixInduction
    <3>2. QED
      BY <3>1 DEF S
<1>5. \A k \in 0 .. n : cv[m + k] = ct[m] \o cu[k]
  <2>. DEFINE S == {k \in 0 .. n : cv[m + k] = ct[m] \o cu[k]}
  <2>1. 0 \in S
    <3>1. m \in 0 .. m /\ 0 \in 0 .. n /\ m + 0 = m
      BY <1>1
    <3>2. ct[m] \o <<>> = ct[m]
      BY <3>1, <1>3, ConcatEmptySeq
    <3>3. QED
      BY <3>1, <3>2, <1>2, <1>4
  <2>2. ASSUME NEW k \in 1 .. n, k - 1 \in S PROVE k \in S
    <3>1. m + k \in 1 .. m + n /\ k \in 0 .. n /\ k - 1 \in 0 .. n /\ m \in 0 .. m
          /\ (m + k) - 1 = m + (k - 1)
      BY <1>1
    <3>2. cv[m + k] = cv[m + (k - 1)] \o Bytes(u[k])
      BY <3>1, <1>1, <1>2
    <3>3. cv[m + (k - 1)] = ct[m] \o cu[k - 1]
      BY <2>2
    <3>4. ct[m] \in Seq(Cell) /\ cu[k - 1] \in Seq(Cell) /\ Bytes(u[k]) \in Seq(Cell)
      BY <3>1, <1>1, <1>3, BytesType
    <3>5. (ct[m] \o cu[k - 1]) \o Bytes(u[k]) = ct[m] \o (cu[k - 1] \o Bytes(u[k]))
      BY <3>4, CellsAssociate
    <3>6. cu[k] = cu[k - 1] \o Bytes(u[k])
      BY <1>2
    <3>7. cv[m + k] = ct[m] \o cu[k]
      BY <3>2, <3>3, <3>5, <3>6
    <3>8. QED
      BY <3>1, <3>7
  <2>3. QED
    <3>. HIDE DEF S
    <3>1. \A k \in 0 .. n : k \in S
      BY <2>1, <2>2, <1>1, PrefixInduction
    <3>2. QED
      BY <3>1 DEF S
<1>6. n \in 0 .. n /\ Len(v) = m + n
  BY <1>1
<1>7. cv[m + n] = ct[m] \o cu[n]
  BY <1>5, <1>6
<1>8. Content(v) = Content(t) \o Content(u)
  BY <1>6, <1>7 DEF Content, cv, ct, cu, m, n
<1>9. QED
  BY <1>8 DEF v

-----------------------------------------------------------------------------
(* Clipping and slicing. *)

\* A clipped piece is a piece, or none.
LEMMA ClipType ==
  ASSUME NEW p \in Piece, NEW ps \in Nat, NEW a \in Nat, NEW b \in Nat
  PROVE  Clip(p, ps, a, b) \in Seq(Piece)
<1>1. p.len \in Nat /\ p.offset \in Nat /\ p.store \in Store
  BY DEF Piece
<1>. DEFINE s == Larger(a, ps)
            e == Smaller(b, ps + p.len)
<1>2. s \in Nat /\ e \in Nat /\ ps <= s
  BY <1>1 DEF Larger, Smaller
<1>3. CASE s < e
  <2>. DEFINE q == [store |-> p.store, offset |-> p.offset + (s - ps), len |-> e - s]
  <2>1. q \in Piece
    <3>. HIDE DEF s, e
    <3>1. QED
      BY <1>1, <1>2, <1>3 DEF Piece
  <2>2. Clip(p, ps, a, b) = <<q>>
    BY <1>3 DEF Clip
  <2>. HIDE DEF q
  <2>3. QED
    BY <2>1, <2>2
<1>4. CASE ~ (s < e)
  BY <1>4 DEF Clip
<1>5. QED
  BY <1>3, <1>4

\* Sequences over a smaller set are sequences over a larger one.
LEMMA SeqMonotonicInElements ==
  ASSUME NEW P \in SUBSET Piece, NEW t \in Seq(P)
  PROVE  t \in Seq(Piece)
OBVIOUS

\* PiecesIn cuts pieces out of any set of pieces closed under clipping.
LEMMA PiecesRecursion ==
  ASSUME NEW P \in SUBSET Piece, NEW t \in Seq(P), NEW a \in Nat, NEW b \in Nat,
         \A p \in P, ps \in Nat : Clip(p, ps, a, b) \in Seq(P)
  PROVE  /\ PiecesUpTo(t, a, b) \in [0 .. Len(t) -> Seq(P)]
         /\ PiecesUpTo(t, a, b)[0] = <<>>
         /\ \A k \in 1 .. Len(t) : PiecesUpTo(t, a, b)[k] =
              PiecesUpTo(t, a, b)[k - 1] \o Clip(t[k], Ends(t)[k - 1], a, b)
         /\ PiecesIn(t, a, b) \in Seq(P)
<1>. DEFINE n == Len(t)
            C == Seq(P)
            clip == [k \in 1 .. n |-> Clip(t[k], Ends(t)[k - 1], a, b)]
            step == [x \in C \X (1 .. n) |-> x[1] \o clip[x[2]]]
            Body(f) == [k \in 0 .. Len(t) |-> IF k = 0 THEN <<>> ELSE f[k - 1] \o clip[k]]
<1>0. n \in Nat /\ \A k \in 1 .. n : t[k] \in P
  OBVIOUS
<1>1. n \in Nat /\ \A k \in 1 .. n : clip[k] \in C
  <2>1. t \in Seq(Piece)
    BY <1>0, SeqMonotonicInElements
  <2>2. \A k \in 1 .. n : k - 1 \in 0 .. n
    BY <1>0
  <2>. HIDE DEF C
  <2>3. \A k \in 1 .. n : Ends(t)[k - 1] \in Nat
    BY <2>1, <2>2, EndsRecursion
  <2>4. \A k \in 1 .. n : Clip(t[k], Ends(t)[k - 1], a, b) \in C
    <3>. HIDE DEF n, clip
    <3>1. QED
      BY <2>3, <1>0, Zenon DEF C
  <2>5. QED
    BY <2>4, <1>0
<1>2. step \in [C \X (1 .. n) -> C]
  <2>. HIDE DEF clip
  <2>1. \A x \in C, y \in C : x \o y \in C
    OBVIOUS
  <2>. HIDE DEF C, n
  <2>2. QED
    BY <1>1, <2>1
<1>3. PICK r \in [0 .. n -> C] :
        r[0] = <<>> /\ \A i \in 1 .. n : r[i] = step[<<r[i - 1], i>>]
  <2>1. <<>> \in C
    OBVIOUS
  <2>2. Recursions(C, n, <<>>, step) # {}
    <3>. HIDE DEF step, n, C
    <3>1. QED
      BY <1>1, <1>2, <2>1, RecursionExists, Zenon
  <2>3. QED
    BY <2>2 DEF Recursions
<1>4. \A i \in 1 .. n : r[i] = r[i - 1] \o clip[i]
  <2>. HIDE DEF C
  <2>1. \A i \in 1 .. n : i - 1 \in 0 .. n
    BY <1>1
  <2>2. \A i \in 1 .. n : <<r[i - 1], i>> \in C \X (1 .. n)
    BY <2>1
  <2>3. QED
    BY <2>2, <1>3
<1>5. r = Body(r)
  <2>1. r[0] = <<>> /\ \A k \in 0 .. n : k # 0 => k \in 1 .. n
    BY <1>3, <1>0
  <2>. HIDE DEF C, clip, step
  <2>2. \A k \in 0 .. n : r[k] = IF k = 0 THEN <<>> ELSE r[k - 1] \o clip[k]
    BY <2>1, <1>4, Zenon
  <2>3. QED
    BY <2>2
<1>6. PiecesUpTo(t, a, b) = CHOOSE f : f = Body(f)
  <2>1. \A k \in 0 .. Len(t) : k # 0 => k \in 1 .. n
    BY <1>0
  <2>2. \A f : Body(f) =
          [k \in 0 .. Len(t) |-> IF k = 0 THEN <<>> ELSE f[k - 1] \o Clip(t[k], Ends(t)[k - 1], a, b)]
    BY <2>1
  <2>. HIDE DEF Body
  <2>3. QED
    BY <2>2 DEF PiecesUpTo
<1>7. PiecesUpTo(t, a, b) = Body(PiecesUpTo(t, a, b))
  <2>. HIDE DEF Body
  <2>1. QED
    BY <1>5, <1>6
<1>. DEFINE e == PiecesUpTo(t, a, b)
<1>8. e[0] = <<>> /\ \A k \in 1 .. n : e[k] = e[k - 1] \o clip[k]
  <2>. HIDE DEF e
  <2>1. e = Body(e)
    BY <1>7 DEF e
  <2>2. \A k \in 0 .. n : Body(e)[k] = IF k = 0 THEN <<>> ELSE e[k - 1] \o clip[k]
    OBVIOUS
  <2>3. \A k \in 0 .. n : e[k] = IF k = 0 THEN <<>> ELSE e[k - 1] \o clip[k]
    <3>. HIDE DEF Body
    <3>1. QED
      BY <2>1, <2>2
  <2>4. 0 \in 0 .. n /\ \A k \in 1 .. n : k \in 0 .. n /\ k # 0
    BY <1>1
  <2>. HIDE DEF n
  <2>5. QED
    BY <2>3, <2>4, Zenon
<1>9. \A k \in 0 .. n : e[k] \in C
  <2>. DEFINE S == {k \in 0 .. n : e[k] \in C}
  <2>. HIDE DEF e
  <2>1. 0 \in S
    <3>1. e[0] \in C
      BY <1>8
    <3>2. QED
      BY <3>1, <1>1
  <2>2. ASSUME NEW k \in 1 .. n, k - 1 \in S PROVE k \in S
    <3>1. e[k - 1] \in C /\ clip[k] \in C
      BY <2>2, <1>1
    <3>2. e[k - 1] \o clip[k] \in C
      BY <3>1
    <3>3. e[k] = e[k - 1] \o clip[k]
      BY <1>8
    <3>. HIDE DEF C
    <3>4. k \in 0 .. n /\ e[k] \in C
      BY <3>2, <3>3, <1>1
    <3>5. QED
      BY <3>4
  <2>3. QED
    <3>. HIDE DEF S, n
    <3>1. \A k \in 0 .. n : k \in S
      BY <2>1, <2>2, <1>1, PrefixInduction
    <3>2. QED
      BY <3>1 DEF S
<1>10. PiecesIn(t, a, b) \in Seq(P)
  BY <1>9, <1>1 DEF PiecesIn
<1>11. QED
  BY <1>7, <1>8, <1>9, <1>10 DEF clip

\* pieces_in answers with pieces.
LEMMA PiecesInType ==
  ASSUME NEW t \in Seq(Piece), NEW a \in Nat, NEW b \in Nat
  PROVE  /\ PiecesUpTo(t, a, b) \in [0 .. Len(t) -> Seq(Piece)]
         /\ PiecesUpTo(t, a, b)[0] = <<>>
         /\ \A k \in 1 .. Len(t) : PiecesUpTo(t, a, b)[k] =
              PiecesUpTo(t, a, b)[k - 1] \o Clip(t[k], Ends(t)[k - 1], a, b)
         /\ PiecesIn(t, a, b) \in Seq(Piece)
<1>1. \A p \in Piece, ps \in Nat : Clip(p, ps, a, b) \in Seq(Piece)
  BY ClipType
<1>2. Piece \in SUBSET Piece
  OBVIOUS
<1>3. QED
  BY <1>1, <1>2, PiecesRecursion

\* The bytes of a clipped piece are a window of the bytes of the piece.
LEMMA ClipContent ==
  ASSUME NEW p \in Piece, NEW ps \in Nat, NEW a \in Nat, NEW b \in Nat
  PROVE  Content(Clip(p, ps, a, b)) =
           IF Larger(a, ps) < Smaller(b, ps + p.len)
             THEN SubSeq(Bytes(p), Larger(a, ps) - ps + 1, Smaller(b, ps + p.len) - ps)
             ELSE <<>>
<1>1. p.len \in Nat /\ p.offset \in Nat /\ p.store \in Store
  BY DEF Piece
<1>. DEFINE s == Larger(a, ps)
            e == Smaller(b, ps + p.len)
<1>2. s \in Nat /\ e \in Nat /\ ps <= s /\ e <= ps + p.len
  BY <1>1 DEF Larger, Smaller
<1>3. CASE s < e
  <2>. DEFINE q == [store |-> p.store, offset |-> p.offset + (s - ps), len |-> e - s]
              w == SubSeq(Bytes(p), s - ps + 1, e - ps)
  <2>1. Clip(p, ps, a, b) = <<q>>
    BY <1>3 DEF Clip
  <2>. HIDE DEF s, e
  <2>2. q \in Piece /\ q.len = e - s /\ q.store = p.store /\ q.offset = p.offset + (s - ps)
    BY <1>1, <1>2, <1>3 DEF Piece
  <2>3. /\ Bytes(p) \in Seq(Cell) /\ Len(Bytes(p)) = p.len
        /\ \A i \in 1 .. p.len : Bytes(p)[i] = <<p.store, p.offset + i - 1>>
    BY BytesType
  <2>4. /\ s - ps + 1 \in 1 .. Len(Bytes(p)) + 1 /\ e - ps \in s - ps + 1 - 1 .. Len(Bytes(p))
        /\ (e - ps) - (s - ps + 1) + 1 = e - s
    BY <1>1, <1>2, <1>3, <2>3
  <2>5. /\ w \in Seq(Cell) /\ Len(w) = e - s
        /\ \A i \in 1 .. e - s : w[i] = Bytes(p)[(s - ps + 1) + i - 1]
    <3>1. \A i \in s - ps + 1 .. e - ps : Bytes(p)[i] \in Cell
      <4>1. \A i \in s - ps + 1 .. e - ps : i \in 1 .. Len(Bytes(p))
        BY <2>3, <1>1, <1>2
      <4>2. \A i \in 1 .. Len(Bytes(p)) : Bytes(p)[i] \in Cell
        BY <2>3
      <4>3. QED
        BY <4>1, <4>2
    <3>2. s - ps + 1 \in Int /\ e - ps \in Int /\ s - ps + 1 <= e - ps
      BY <1>1, <1>2, <1>3
    <3>3. QED
      BY <2>4, <3>1, <3>2, SubSeqProperties, SMTT(30)
  <2>. HIDE DEF q, w
  <2>6. /\ Bytes(q) \in Seq(Cell) /\ Len(Bytes(q)) = e - s
        /\ \A i \in 1 .. e - s : Bytes(q)[i] = <<p.store, p.offset + (s - ps) + i - 1>>
    BY <2>2, BytesType
  <2>7. \A i \in 1 .. e - s : Bytes(q)[i] = w[i]
    <3>1. SUFFICES ASSUME NEW i \in 1 .. e - s PROVE Bytes(q)[i] = w[i]
      OBVIOUS
    <3>2. (s - ps + 1) + i - 1 \in 1 .. p.len
      BY <1>1, <1>2, <1>3
    <3>3. p.offset + ((s - ps + 1) + i - 1) - 1 = p.offset + (s - ps) + i - 1
      BY <1>1, <1>2
    <3>4. QED
      BY <3>2, <3>3, <2>3, <2>5, <2>6
  <2>8. Bytes(q) = w
    BY <2>5, <2>6, <2>7, SeqEqual
  <2>9. Content(<<q>>) = w
    BY <2>2, <2>8, ContentOfOne
  <2>10. QED
    BY <1>3, <2>1, <2>9 DEF w, s, e
<1>4. CASE ~ (s < e)
  <2>1. Clip(p, ps, a, b) = <<>>
    BY <1>4 DEF Clip
  <2>2. QED
    BY <1>4, <2>1, ContentOfNone
<1>5. QED
  BY <1>3, <1>4

\* A window of a concatenation is a window of each part.
LEMMA WindowOfConcat ==
  ASSUME NEW u \in Seq(Cell), NEW v \in Seq(Cell), NEW a \in Nat, NEW b \in Nat
  PROVE  SubSeq(u \o v, a + 1, Smaller(b, Len(u) + Len(v))) =
           SubSeq(u, a + 1, Smaller(b, Len(u)))
             \o (IF Larger(a, Len(u)) < Smaller(b, Len(u) + Len(v))
                   THEN SubSeq(v, Larger(a, Len(u)) - Len(u) + 1,
                                  Smaller(b, Len(u) + Len(v)) - Len(u))
                   ELSE <<>>)
<1>. DEFINE m == Len(u)
            n == Len(v)
            s == Larger(a, m)
            e == Smaller(b, m + n)
            f == Smaller(b, m)
            l == SubSeq(u \o v, a + 1, e)
            x == SubSeq(u, a + 1, f)
            y == IF s < e THEN SubSeq(v, s - m + 1, e - m) ELSE <<>>
<1>1. /\ m \in Nat /\ n \in Nat /\ s \in Nat /\ e \in Nat /\ f \in Nat
      /\ e <= m + n /\ f <= e /\ s >= a /\ s >= m
      /\ e <= m => f = e
      /\ e > m => f = m
      /\ a >= m => s = a
      /\ a < m => s = m
  BY DEF Larger, Smaller
<1>2. /\ u \o v \in Seq(Cell) /\ Len(u \o v) = m + n
  BY ConcatProperties
<1>. HIDE DEF s, e, f, m, n
<1>3. ASSUME a >= e PROVE l = x \o y
  <2>1. a + 1 > e /\ a + 1 > f /\ ~ (s < e)
    BY <1>1, <1>3
  <2>2. l = <<>> /\ x = <<>>
    BY <2>1, <1>1, SubSeqEmpty
  <2>3. y = <<>> /\ <<>> \o <<>> = <<>>
    BY <2>1
  <2>4. QED
    BY <2>2, <2>3
<1>4. ASSUME a < e, e <= m PROVE l = x \o y
  <2>1. a + 1 \in 1 .. Len(u) /\ e \in 1 .. Len(u) /\ ~ (s < e)
    BY <1>1, <1>4 DEF m
  <2>2. l = SubSeq(u, a + 1, e)
    BY <2>1, SubSeqOfConcat1
  <2>3. x = SubSeq(u, a + 1, e)
    BY <1>1, <1>4
  <2>4. x \in Seq(Cell)
    <3>1. \A i \in a + 1 .. e : u[i] \in Cell
      BY <2>1
    <3>2. a + 1 \in Int /\ e \in Int
      BY <1>1
    <3>3. SubSeq(u, a + 1, e) \in Seq(Cell)
      BY <3>1, <3>2, SubSeqProperties
    <3>4. QED
      BY <2>3, <3>3
  <2>5. y = <<>>
    BY <2>1
  <2>6. x \o <<>> = x
    <3>. HIDE DEF x
    <3>1. QED
      BY <2>4, ConcatEmptySeq
  <2>7. QED
    BY <2>2, <2>3, <2>5, <2>6
<1>5. ASSUME a >= m, a < e PROVE l = x \o y
  <2>1. /\ a + 1 \in Len(u) + 1 .. Len(u) + Len(v) /\ e \in Len(u) + 1 .. Len(u) + Len(v)
        /\ s = a /\ s < e /\ f = m /\ f < a + 1 /\ a + 1 - m = s - m + 1
    BY <1>1, <1>5 DEF m, n
  <2>2. l = SubSeq(v, a + 1 - m, e - m)
    BY <2>1, SubSeqOfConcat2, SMTT(20) DEF m
  <2>3. l = y
    BY <2>1, <2>2
  <2>4. x = <<>>
    BY <2>1, <1>1, SubSeqEmpty
  <2>5. \A i \in s - m + 1 .. e - m : v[i] \in Cell
    BY <1>1, <1>5 DEF n
  <2>6. y \in Seq(Cell)
    BY <2>1, <2>5, <1>1, SubSeqProperties
  <2>7. <<>> \o y = y
    <3>. HIDE DEF y
    <3>1. QED
      BY <2>6, ConcatEmptySeq
  <2>8. QED
    BY <2>3, <2>4, <2>7
<1>6. ASSUME a < m, m < e PROVE l = x \o y
  <2>1. /\ a + 1 \in 1 .. Len(u) /\ m \in 1 .. Len(u)
        /\ m + 1 \in Len(u) + 1 .. Len(u) + Len(v) /\ e \in Len(u) + 1 .. Len(u) + Len(v)
        /\ s = m /\ s < e /\ f = m /\ m + 1 - m = s - m + 1
    BY <1>1, <1>6 DEF m, n
  <2>2. /\ a + 1 \in 1 .. Len(u \o v) + 1 /\ m \in (a + 1) - 1 .. Len(u \o v)
        /\ e \in m .. Len(u \o v)
    BY <1>1, <1>2, <1>6
  <2>3. l = SubSeq(u \o v, a + 1, m) \o SubSeq(u \o v, m + 1, e)
    BY <1>2, <2>2, ConcatAdjacentSubSeq
  <2>4. SubSeq(u \o v, a + 1, m) = SubSeq(u, a + 1, m)
    BY <2>1, SubSeqOfConcat1
  <2>5. SubSeq(u \o v, m + 1, e) = SubSeq(v, m + 1 - m, e - m)
    BY <2>1, SubSeqOfConcat2 DEF m
  <2>6. QED
    BY <2>1, <2>3, <2>4, <2>5
<1>7. l = x \o y
  <2>1. \/ a >= e
        \/ a < e /\ e <= m
        \/ a >= m /\ a < e
        \/ a < m /\ m < e
    BY <1>1
  <2>. HIDE DEF l, x, y
  <2>2. QED
    BY <2>1, <1>3, <1>4, <1>5, <1>6
<1>8. QED
  BY <1>7 DEF m, n, s, e, f

\* pieces_in reads the bytes of its range: the slice of the content.
THEOREM SliceContent ==
  ASSUME NEW t \in Seq(Piece), NEW a \in Nat, NEW b \in Nat
  PROVE  /\ PiecesIn(t, a, b) \in Seq(Piece)
         /\ Content(PiecesIn(t, a, b)) = SubSeq(Content(t), a + 1, Smaller(b, TotalLen(t)))
<1>. DEFINE n == Len(t)
            c == ContentUpTo(t)
            e == Ends(t)
            q == PiecesUpTo(t, a, b)
            S == {k \in 0 .. n : Content(q[k]) = SubSeq(c[k], a + 1, Smaller(b, e[k]))}
<1>1. n \in Nat /\ \A k \in 1 .. n : t[k] \in Piece
  OBVIOUS
<1>2. /\ \A k \in 0 .. n : c[k] \in Seq(Cell) /\ Len(c[k]) = e[k]
      /\ c[0] = <<>>
      /\ \A k \in 1 .. n : c[k] = c[k - 1] \o Bytes(t[k])
  BY ContentRecursion, ContentLength
<1>3. /\ \A k \in 0 .. n : e[k] \in Nat
      /\ e[0] = 0
      /\ \A k \in 1 .. n : e[k] = e[k - 1] + t[k].len
  BY EndsRecursion
<1>4. /\ \A k \in 0 .. n : q[k] \in Seq(Piece)
      /\ q[0] = <<>>
      /\ \A k \in 1 .. n : q[k] = q[k - 1] \o Clip(t[k], e[k - 1], a, b)
      /\ PiecesIn(t, a, b) \in Seq(Piece)
  <2>1. /\ q \in [0 .. n -> Seq(Piece)]
        /\ q[0] = <<>>
        /\ \A k \in 1 .. n : q[k] = q[k - 1] \o Clip(t[k], e[k - 1], a, b)
        /\ PiecesIn(t, a, b) \in Seq(Piece)
    BY PiecesInType
  <2>. HIDE DEF q
  <2>2. QED
    BY <2>1
<1>. HIDE DEF n, c, e, q
<1>5. 0 \in S
  <2>1. Smaller(b, e[0]) \in Int /\ Smaller(b, e[0]) < a + 1
    BY <1>3 DEF Smaller
  <2>2. SubSeq(c[0], a + 1, Smaller(b, e[0])) = <<>>
    BY <2>1, SubSeqEmpty
  <2>3. Content(q[0]) = <<>>
    BY <1>4, ContentOfNone
  <2>4. 0 \in 0 .. n
    BY <1>1
  <2>5. QED
    BY <2>2, <2>3, <2>4, Zenon
<1>6. ASSUME NEW k \in 1 .. n, k - 1 \in S PROVE k \in S
  <2>1. k \in 0 .. n /\ k - 1 \in 0 .. n
    BY <1>1
  <2>. DEFINE u == c[k - 1]
              v == Bytes(t[k])
              clip == Clip(t[k], e[k - 1], a, b)
  <2>2. /\ u \in Seq(Cell) /\ Len(u) = e[k - 1] /\ e[k - 1] \in Nat
        /\ v \in Seq(Cell) /\ Len(v) = t[k].len /\ t[k] \in Piece /\ e[k] = e[k - 1] + t[k].len
        /\ c[k] = u \o v
    BY <2>1, <1>1, <1>2, <1>3, BytesType
  <2>3. q[k - 1] \in Seq(Piece) /\ clip \in Seq(Piece) /\ q[k] = q[k - 1] \o clip
    BY <2>1, <2>2, <1>4, ClipType
  <2>4. Content(q[k]) = Content(q[k - 1]) \o Content(clip)
    BY <2>3, ContentConcat
  <2>5. Content(q[k - 1]) = SubSeq(u, a + 1, Smaller(b, e[k - 1]))
    BY <1>6
  <2>6. Content(clip) =
           IF Larger(a, e[k - 1]) < Smaller(b, e[k - 1] + t[k].len)
             THEN SubSeq(v, Larger(a, e[k - 1]) - e[k - 1] + 1,
                            Smaller(b, e[k - 1] + t[k].len) - e[k - 1])
             ELSE <<>>
    BY <2>2, ClipContent
  <2>. HIDE DEF u, v, clip
  <2>7. SubSeq(u \o v, a + 1, Smaller(b, e[k - 1] + t[k].len)) =
           SubSeq(u, a + 1, Smaller(b, e[k - 1]))
             \o (IF Larger(a, e[k - 1]) < Smaller(b, e[k - 1] + t[k].len)
                   THEN SubSeq(v, Larger(a, e[k - 1]) - e[k - 1] + 1,
                                  Smaller(b, e[k - 1] + t[k].len) - e[k - 1])
                   ELSE <<>>)
    <3>1. SubSeq(u \o v, a + 1, Smaller(b, Len(u) + Len(v))) =
           SubSeq(u, a + 1, Smaller(b, Len(u)))
             \o (IF Larger(a, Len(u)) < Smaller(b, Len(u) + Len(v))
                   THEN SubSeq(v, Larger(a, Len(u)) - Len(u) + 1,
                                  Smaller(b, Len(u) + Len(v)) - Len(u))
                   ELSE <<>>)
      BY <2>2, WindowOfConcat, Zenon
    <3>2. Len(u) = e[k - 1] /\ Len(v) = t[k].len
      BY <2>2
    <3>3. QED
      BY <3>1, <3>2, Zenon
  <2>8. Content(q[k]) = SubSeq(c[k], a + 1, Smaller(b, e[k]))
    BY <2>2, <2>4, <2>5, <2>6, <2>7
  <2>9. QED
    BY <2>1, <2>8
<1>7. \A k \in 0 .. n : k \in S
  <2>. HIDE DEF S
  <2>1. QED
    BY <1>1, <1>5, <1>6, PrefixInduction
<1>8. n \in 0 .. n
  BY <1>1
<1>9. Content(q[n]) = SubSeq(c[n], a + 1, Smaller(b, e[n]))
  BY <1>7, <1>8
<1>10. QED
  BY <1>9, <1>4 DEF PiecesIn, Content, TotalLen, n, c, e, q

-----------------------------------------------------------------------------
(* Splicing and deleting, as what they do to the content.                  *)

\* l is s with x put in at position o; s is l with x taken out.
Joined(s, l, o, x) ==
  /\ o \in 0 .. Len(s)
  /\ Len(l) = Len(s) + Len(x)
  /\ \A i \in 1 .. o : l[i] = s[i]
  /\ \A i \in 1 .. Len(x) : l[o + i] = x[i]
  /\ \A i \in o + 1 .. Len(s) : l[Len(x) + i] = s[i]

\* A sequence split at o is its two halves one after the other.
LEMMA Halves ==
  ASSUME NEW u \in Seq(Cell), NEW v \in Seq(Cell)
  PROVE  /\ u \o v \in Seq(Cell)
         /\ Len(u \o v) = Len(u) + Len(v)
         /\ \A i \in 1 .. Len(u) : (u \o v)[i] = u[i]
         /\ \A i \in 1 .. Len(v) : (u \o v)[Len(u) + i] = v[i]
OBVIOUS

\* The elements a + 1 .. b of a sequence, element by element.
LEMMA SubWindow ==
  ASSUME NEW c \in Seq(Cell), NEW a \in Nat, NEW b \in Nat, a <= b, b <= Len(c)
  PROVE  /\ SubSeq(c, a + 1, b) \in Seq(Cell)
         /\ Len(SubSeq(c, a + 1, b)) = b - a
         /\ \A i \in 1 .. b - a : SubSeq(c, a + 1, b)[i] = c[a + i]
OBVIOUS

\* What is put in is determined by where: both directions of Joined are functions.
LEMMA JoinedLong ==
  ASSUME NEW s \in Seq(Cell), NEW x \in Seq(Cell), NEW o \in Nat, o <= Len(s)
  PROVE  LET l == (SubSeq(s, 1, o) \o x) \o SubSeq(s, o + 1, Len(s))
         IN  l \in Seq(Cell) /\ Joined(s, l, o, x)
<1>. DEFINE p == SubSeq(s, 1, o)
            q == SubSeq(s, o + 1, Len(s))
            l == (p \o x) \o q
<1>1. /\ p \in Seq(Cell) /\ Len(p) = o /\ \A i \in 1 .. o : p[i] = s[i]
  <2>1. /\ SubSeq(s, 0 + 1, o) \in Seq(Cell) /\ Len(SubSeq(s, 0 + 1, o)) = o - 0
        /\ \A i \in 1 .. o - 0 : SubSeq(s, 0 + 1, o)[i] = s[0 + i]
    BY SubWindow
  <2>2. QED
    BY <2>1
<1>2. /\ q \in Seq(Cell) /\ Len(q) = Len(s) - o /\ \A i \in 1 .. Len(s) - o : q[i] = s[o + i]
  BY SubWindow
<1>. HIDE DEF p, q
<1>3. /\ l \in Seq(Cell) /\ Len(l) = Len(s) + Len(x)
      /\ \A i \in 1 .. o : l[i] = s[i]
      /\ \A i \in 1 .. Len(x) : l[o + i] = x[i]
      /\ \A i \in 1 .. Len(s) - o : l[o + Len(x) + i] = s[o + i]
  <2>. DEFINE m == p \o x
  <2>1. /\ m \in Seq(Cell) /\ Len(m) = o + Len(x)
        /\ \A i \in 1 .. o : m[i] = s[i]
        /\ \A i \in 1 .. Len(x) : m[o + i] = x[i]
    <3>1. /\ m \in Seq(Cell) /\ Len(m) = Len(p) + Len(x)
          /\ \A i \in 1 .. Len(p) : m[i] = p[i]
          /\ \A i \in 1 .. Len(x) : m[Len(p) + i] = x[i]
      BY <1>1, Halves
    <3>. HIDE DEF m
    <3>2. QED
      BY <3>1, <1>1
  <2>. HIDE DEF m
  <2>2. /\ m \o q \in Seq(Cell) /\ Len(m \o q) = o + Len(x) + Len(q)
        /\ \A i \in 1 .. o + Len(x) : (m \o q)[i] = m[i]
        /\ \A i \in 1 .. Len(q) : (m \o q)[o + Len(x) + i] = q[i]
    <3>1. /\ m \o q \in Seq(Cell) /\ Len(m \o q) = Len(m) + Len(q)
          /\ \A i \in 1 .. Len(m) : (m \o q)[i] = m[i]
          /\ \A i \in 1 .. Len(q) : (m \o q)[Len(m) + i] = q[i]
      BY <2>1, <1>2, Halves
    <3>2. QED
      BY <3>1, <2>1
  <2>3. (\A i \in 1 .. o : i \in 1 .. o + Len(x)) /\ (\A i \in 1 .. Len(x) : o + i \in 1 .. o + Len(x))
    OBVIOUS
  <2>4. l = m \o q
    BY DEF m
  <2>. HIDE DEF l
  <2>5. l \in Seq(Cell) /\ Len(l) = Len(s) + Len(x)
    <3>1. Len(s) \in Nat /\ Len(x) \in Nat
      OBVIOUS
    <3>2. Len(m \o q) = Len(s) + Len(x)
      BY <2>2, <1>2, <3>1
    <3>3. QED
      BY <2>2, <2>4, <3>2
  <2>6. /\ \A i \in 1 .. o : l[i] = s[i]
        /\ \A i \in 1 .. Len(x) : l[o + i] = x[i]
    BY <2>1, <2>2, <2>3, <2>4
  <2>7. \A i \in 1 .. Len(s) - o : l[o + Len(x) + i] = s[o + i]
    BY <2>2, <2>4, <1>2
  <2>8. QED
    BY <2>5, <2>6, <2>7
<1>. HIDE DEF l
<1>4. \A i \in o + 1 .. Len(s) : l[Len(x) + i] = s[i]
  <2>1. SUFFICES ASSUME NEW i \in o + 1 .. Len(s) PROVE l[Len(x) + i] = s[i]
    OBVIOUS
  <2>2. i - o \in 1 .. Len(s) - o /\ o + (i - o) = i /\ o + Len(x) + (i - o) = Len(x) + i
    OBVIOUS
  <2>3. QED
    BY <2>2, <1>3
<1>5. Joined(s, l, o, x)
  BY <1>3, <1>4 DEF Joined
<1>6. QED
  BY <1>3, <1>5 DEF l, p, q

\* Both halves around what was put in make up the shorter sequence.
LEMMA JoinedShort ==
  ASSUME NEW l \in Seq(Cell), NEW o \in Nat, NEW n \in Nat, o + n <= Len(l)
  PROVE  LET s == SubSeq(l, 1, o) \o SubSeq(l, o + n + 1, Len(l))
             x == SubSeq(l, o + 1, o + n)
         IN  s \in Seq(Cell) /\ x \in Seq(Cell) /\ Len(x) = n /\ Joined(s, l, o, x)
<1>. DEFINE p == SubSeq(l, 1, o)
            q == SubSeq(l, o + n + 1, Len(l))
            x == SubSeq(l, o + 1, o + n)
            s == p \o q
<1>1. /\ p \in Seq(Cell) /\ Len(p) = o /\ \A i \in 1 .. o : p[i] = l[i]
  <2>1. /\ SubSeq(l, 0 + 1, o) \in Seq(Cell) /\ Len(SubSeq(l, 0 + 1, o)) = o - 0
        /\ \A i \in 1 .. o - 0 : SubSeq(l, 0 + 1, o)[i] = l[0 + i]
    BY SubWindow
  <2>2. QED
    BY <2>1
<1>2. /\ q \in Seq(Cell) /\ Len(q) = Len(l) - (o + n)
      /\ \A i \in 1 .. Len(l) - (o + n) : q[i] = l[(o + n) + i]
  BY SubWindow
<1>3. /\ x \in Seq(Cell) /\ Len(x) = (o + n) - o /\ \A i \in 1 .. (o + n) - o : x[i] = l[o + i]
  BY SubWindow
<1>. HIDE DEF p, q, x
<1>4. /\ s \in Seq(Cell) /\ Len(s) = Len(l) - n
      /\ \A i \in 1 .. o : s[i] = p[i]
      /\ \A i \in 1 .. Len(l) - (o + n) : s[o + i] = q[i]
  BY <1>1, <1>2
<1>. HIDE DEF s
<1>5. Len(x) = n /\ \A i \in 1 .. n : l[o + i] = x[i]
  BY <1>3
<1>6. \A i \in o + 1 .. Len(s) : l[n + i] = s[i]
  <2>1. SUFFICES ASSUME NEW i \in o + 1 .. Len(s) PROVE l[n + i] = s[i]
    OBVIOUS
  <2>2. i - o \in 1 .. Len(l) - (o + n) /\ o + (i - o) = i /\ (o + n) + (i - o) = n + i
    BY <1>4
  <2>3. QED
    BY <2>2, <1>2, <1>4
<1>7. Joined(s, l, o, x)
  BY <1>1, <1>4, <1>5, <1>6 DEF Joined
<1>8. QED
  BY <1>3, <1>4, <1>5, <1>7 DEF s, p, q, x

\* What is put in, or taken out, at one place determines the other sequence.
LEMMA JoinedUnique ==
  ASSUME NEW s \in Seq(Cell), NEW l \in Seq(Cell), NEW o, NEW x \in Seq(Cell), Joined(s, l, o, x)
  PROVE  /\ \A m \in Seq(Cell) : Joined(s, m, o, x) => m = l
         /\ \A r \in Seq(Cell), y \in Seq(Cell) :
              Joined(r, l, o, y) /\ Len(y) = Len(x) => r = s /\ y = x
<1>1. o \in Nat /\ o <= Len(s) /\ Len(l) = Len(s) + Len(x)
  BY DEF Joined
<1>2. ASSUME NEW m \in Seq(Cell), Joined(s, m, o, x) PROVE m = l
  <2>1. Len(m) = Len(l)
    BY <1>2, <1>1 DEF Joined
  <2>2. ASSUME NEW i \in 1 .. Len(l) PROVE m[i] = l[i]
    <3>1. CASE i <= o
      BY <3>1, <1>1, <1>2 DEF Joined
    <3>2. CASE o < i /\ i <= o + Len(x)
      <4>1. i - o \in 1 .. Len(x) /\ o + (i - o) = i
        BY <3>2, <1>1
      <4>2. l[o + (i - o)] = x[i - o] /\ m[o + (i - o)] = x[i - o]
        BY <4>1, <1>2 DEF Joined
      <4>3. QED
        BY <4>1, <4>2
    <3>3. CASE o + Len(x) < i
      <4>1. i - Len(x) \in o + 1 .. Len(s) /\ Len(x) + (i - Len(x)) = i
        BY <3>3, <1>1
      <4>2. l[Len(x) + (i - Len(x))] = s[i - Len(x)] /\ m[Len(x) + (i - Len(x))] = s[i - Len(x)]
        BY <4>1, <1>2 DEF Joined
      <4>3. QED
        BY <4>1, <4>2
    <3>4. QED
      BY <3>1, <3>2, <3>3, <1>1
  <2>3. QED
    BY <2>1, <2>2, SeqEqual
<1>3. ASSUME NEW r \in Seq(Cell), NEW y \in Seq(Cell), Joined(r, l, o, y), Len(y) = Len(x)
      PROVE  r = s /\ y = x
  <2>1. Len(r) = Len(s)
    BY <1>1, <1>3 DEF Joined
  <2>2. ASSUME NEW i \in 1 .. Len(x) PROVE y[i] = x[i]
    BY <1>3 DEF Joined
  <2>3. ASSUME NEW i \in 1 .. Len(s) PROVE r[i] = s[i]
    <3>1. CASE i <= o
      BY <3>1, <1>1, <1>3 DEF Joined
    <3>2. CASE o < i
      <4>1. i \in o + 1 .. Len(s)
        BY <3>2, <1>1
      <4>2. l[Len(x) + i] = s[i] /\ l[Len(y) + i] = r[i]
        BY <4>1, <2>1, <1>3 DEF Joined
      <4>3. QED
        BY <4>2, <1>3
    <3>3. QED
      BY <3>1, <3>2, <1>1
  <2>4. QED
    BY <2>1, <2>2, <2>3, <1>3, SeqEqual
<1>4. QED
  BY <1>2, <1>3

-----------------------------------------------------------------------------
\* splice and delete, in terms of contents: splice puts the new pieces' bytes in
\* at the offset, delete takes the bytes out and returns them.
LEMMA SpliceJoins ==
  ASSUME NEW t \in Seq(Piece), NEW o \in Nat, NEW new \in Seq(Piece), o <= TotalLen(t)
  PROVE  /\ Splice(t, o, new) \in Seq(Piece)
         /\ Joined(Content(t), Content(Splice(t, o, new)), o, Content(new))
<1>. DEFINE c == Content(t)
            x == Content(new)
            u == PiecesIn(t, 0, o)
            v == NonEmpty(new)
            w == PiecesIn(t, o, TotalLen(t))
<1>1. c \in Seq(Cell) /\ Len(c) = TotalLen(t) /\ TotalLen(t) \in Nat
  BY ContentType, ContentLength
<1>2. x \in Seq(Cell) /\ Len(x) = TotalLen(new) /\ TotalLen(new) \in Nat
  BY ContentType, ContentLength
<1>3. u \in Seq(Piece) /\ Content(u) = SubSeq(c, 1, o)
  <2>1. u \in Seq(Piece) /\ Content(u) = SubSeq(c, 0 + 1, Smaller(o, TotalLen(t)))
    BY SliceContent
  <2>2. Smaller(o, TotalLen(t)) = o
    BY <1>1 DEF Smaller
  <2>. HIDE DEF u, c
  <2>3. QED
    BY <2>1, <2>2
<1>4. v \in Seq(Piece) /\ Content(v) = x
  <2>1. v \in Seq(Piece) /\ Content(v) = SubSeq(x, 0 + 1, Smaller(TotalLen(new), TotalLen(new)))
    BY <1>2, SliceContent DEF NonEmpty
  <2>2. Smaller(TotalLen(new), TotalLen(new)) = Len(x)
    BY <1>2 DEF Smaller
  <2>. HIDE DEF v, x
  <2>3. SubSeq(x, 0 + 1, Len(x)) = x
    BY <1>2
  <2>4. QED
    BY <2>1, <2>2, <2>3
<1>5. w \in Seq(Piece) /\ Content(w) = SubSeq(c, o + 1, Len(c))
  <2>1. w \in Seq(Piece) /\ Content(w) = SubSeq(c, o + 1, Smaller(TotalLen(t), TotalLen(t)))
    BY <1>1, SliceContent
  <2>2. Smaller(TotalLen(t), TotalLen(t)) = Len(c)
    BY <1>1 DEF Smaller
  <2>. HIDE DEF w, c
  <2>3. QED
    BY <2>1, <2>2
<1>. HIDE DEF u, v, w, c, x
<1>6. u \o v \in Seq(Piece) /\ (u \o v) \o w \in Seq(Piece)
  BY <1>3, <1>4, <1>5
<1>7. Content((u \o v) \o w) = (SubSeq(c, 1, o) \o x) \o SubSeq(c, o + 1, Len(c))
  <2>1. Content((u \o v) \o w) = Content(u \o v) \o Content(w)
    BY <1>5, <1>6, ContentConcat
  <2>2. Content(u \o v) = Content(u) \o Content(v)
    BY <1>3, <1>4, ContentConcat
  <2>3. QED
    BY <2>1, <2>2, <1>3, <1>4, <1>5
<1>8. o <= Len(c)
  BY <1>1
<1>9. Joined(c, Content((u \o v) \o w), o, x)
  BY <1>1, <1>2, <1>7, <1>8, JoinedLong
<1>10. Splice(t, o, new) = (u \o v) \o w
  BY DEF Splice, u, v, w
<1>11. QED
  BY <1>6, <1>9, <1>10 DEF c, x

\* delete takes its range out of the content, and answers with what it took.
LEMMA RemoveJoins ==
  ASSUME NEW t \in Seq(Piece), NEW o \in Nat, NEW n \in Nat, o + n <= TotalLen(t)
  PROVE  /\ Remove(t, o, n) \in Seq(Piece) /\ Removed(t, o, n) \in Seq(Piece)
         /\ Len(Content(Removed(t, o, n))) = n
         /\ Joined(Content(Remove(t, o, n)), Content(t), o, Content(Removed(t, o, n)))
<1>. DEFINE c == Content(t)
            u == PiecesIn(t, 0, o)
            v == PiecesIn(t, o, o + n)
            w == PiecesIn(t, o + n, TotalLen(t))
<1>1. c \in Seq(Cell) /\ Len(c) = TotalLen(t) /\ TotalLen(t) \in Nat
  BY ContentType, ContentLength
<1>2. Smaller(o, TotalLen(t)) = o /\ Smaller(o + n, TotalLen(t)) = o + n
      /\ Smaller(TotalLen(t), TotalLen(t)) = Len(c) /\ o + n \in Nat
  BY <1>1 DEF Smaller
<1>3. u \in Seq(Piece) /\ Content(u) = SubSeq(c, 1, o)
  <2>1. u \in Seq(Piece) /\ Content(u) = SubSeq(c, 0 + 1, Smaller(o, TotalLen(t)))
    BY SliceContent
  <2>. HIDE DEF u, c
  <2>2. QED
    BY <2>1, <1>2
<1>4. v \in Seq(Piece) /\ Content(v) = SubSeq(c, o + 1, o + n)
  <2>1. v \in Seq(Piece) /\ Content(v) = SubSeq(c, o + 1, Smaller(o + n, TotalLen(t)))
    BY <1>2, SliceContent
  <2>. HIDE DEF v, c
  <2>2. QED
    BY <2>1, <1>2
<1>5. w \in Seq(Piece) /\ Content(w) = SubSeq(c, o + n + 1, Len(c))
  <2>1. w \in Seq(Piece) /\ Content(w) = SubSeq(c, o + n + 1, Smaller(TotalLen(t), TotalLen(t)))
    BY <1>1, <1>2, SliceContent
  <2>. HIDE DEF w, c
  <2>2. QED
    BY <2>1, <1>2
<1>. HIDE DEF u, v, w, c
<1>6. u \o w \in Seq(Piece) /\ Content(u \o w) = Content(u) \o Content(w)
  <2>1. u \in Seq(Piece) /\ w \in Seq(Piece)
    BY <1>3, <1>5
  <2>2. u \o w \in Seq(Piece)
    BY <2>1
  <2>3. QED
    BY <2>1, <2>2, ContentConcat
<1>7. o + n <= Len(c)
  BY <1>1
<1>8. Len(Content(v)) = n /\ Joined(Content(u \o w), c, o, Content(v))
  BY <1>1, <1>3, <1>4, <1>5, <1>6, <1>7, JoinedShort
<1>9. QED
  BY <1>4, <1>6, <1>8 DEF Remove, Removed, u, v, w, c

-----------------------------------------------------------------------------
(* Where a piece's bytes stand in the content. *)

\* The running ends of the pieces, piece by piece.
LEMMA EndsFacts ==
  ASSUME NEW t \in Seq(Piece)
  PROVE  /\ \A k \in 0 .. Len(t) : Ends(t)[k] \in Nat
         /\ Ends(t)[0] = 0
         /\ TotalLen(t) = Ends(t)[Len(t)] /\ TotalLen(t) \in Nat
         /\ \A k \in 1 .. Len(t) : Ends(t)[k] = Ends(t)[k - 1] + t[k].len
         /\ \A k \in 1 .. Len(t) : t[k].len \in Nat /\ t[k].offset \in Nat /\ t[k].store \in Store
         /\ Len(t) \in Nat
<1>1. /\ Ends(t) \in [0 .. Len(t) -> Nat] /\ Ends(t)[0] = 0
      /\ \A k \in 1 .. Len(t) : Ends(t)[k] = Ends(t)[k - 1] + t[k].len
  BY EndsRecursion
<1>2. Len(t) \in Nat /\ \A k \in 1 .. Len(t) : t[k] \in Piece
  OBVIOUS
<1>3. \A k \in 1 .. Len(t) : t[k].len \in Nat /\ t[k].offset \in Nat /\ t[k].store \in Store
  BY <1>2 DEF Piece
<1>4. \A k \in 0 .. Len(t) : Ends(t)[k] \in Nat
  BY <1>1
<1>5. Len(t) \in 0 .. Len(t)
  BY <1>2
<1>6. QED
  BY <1>1, <1>2, <1>3, <1>4, <1>5 DEF TotalLen

\* The ends never decrease.
LEMMA EndsGrow ==
  ASSUME NEW t \in Seq(Piece), NEW m \in 0 .. Len(t)
  PROVE  \A k \in 0 .. m : Ends(t)[k] <= Ends(t)[m]
<1>. DEFINE e == Ends(t)
            S == {j \in 0 .. m : \A k \in 0 .. j : e[k] <= e[j]}
<1>1. /\ \A k \in 0 .. m : e[k] \in Nat
      /\ \A k \in 1 .. m : e[k] = e[k - 1] + t[k].len /\ t[k].len \in Nat
      /\ m \in Nat
  <2>1. m \in Nat /\ (\A k \in 0 .. m : k \in 0 .. Len(t)) /\ (\A k \in 1 .. m : k \in 1 .. Len(t))
    OBVIOUS
  <2>2. /\ \A k \in 0 .. Len(t) : e[k] \in Nat
        /\ \A k \in 1 .. Len(t) : e[k] = e[k - 1] + t[k].len /\ t[k].len \in Nat
    BY EndsFacts
  <2>. HIDE DEF e
  <2>3. QED
    BY <2>1, <2>2
<1>. HIDE DEF e
<1>2. 0 \in S
  BY <1>1
<1>3. ASSUME NEW j \in 1 .. m, j - 1 \in S PROVE j \in S
  <2>1. j \in 0 .. m /\ j - 1 \in 0 .. m /\ e[j - 1] \in Nat /\ e[j] \in Nat
    BY <1>1
  <2>2. e[j - 1] <= e[j]
    <3>1. e[j] = e[j - 1] + t[j].len /\ t[j].len \in Nat
      BY <1>1
    <3>2. QED
      BY <3>1, <2>1
  <2>3. ASSUME NEW k \in 0 .. j PROVE e[k] <= e[j]
    <3>1. CASE k = j
      BY <3>1, <2>1
    <3>2. CASE k # j
      <4>1. k \in 0 .. j - 1 /\ e[k] \in Nat
        BY <3>2, <1>1
      <4>2. e[k] <= e[j - 1]
        BY <4>1, <1>3
      <4>3. QED
        BY <4>1, <4>2, <2>1, <2>2
    <3>3. QED
      BY <3>1, <3>2
  <2>4. QED
    BY <2>1, <2>3
<1>4. \A j \in 0 .. m : j \in S
  <2>. HIDE DEF S
  <2>1. QED
    BY <1>1, <1>2, <1>3, PrefixInduction
<1>5. m \in 0 .. m
  BY <1>1
<1>6. QED
  BY <1>4, <1>5 DEF e

\* Byte i of piece k stands in the content behind the end of piece k - 1.
LEMMA CellAt ==
  ASSUME NEW t \in Seq(Piece)
  PROVE  \A k \in 1 .. Len(t) : \A i \in 1 .. t[k].len :
           /\ Ends(t)[k - 1] + i \in 1 .. Len(Content(t))
           /\ Content(t)[Ends(t)[k - 1] + i] = <<t[k].store, t[k].offset + i - 1>>
<1>. DEFINE n == Len(t)
            c == ContentUpTo(t)
            e == Ends(t)
            S == {m \in 0 .. n : \A k \in 1 .. m : \A i \in 1 .. t[k].len :
                     /\ e[k - 1] + i \in 1 .. Len(c[m])
                     /\ c[m][e[k - 1] + i] = <<t[k].store, t[k].offset + i - 1>>}
<1>1. /\ n \in Nat
      /\ \A k \in 0 .. n : c[k] \in Seq(Cell) /\ Len(c[k]) = e[k] /\ e[k] \in Nat
      /\ \A k \in 1 .. n : c[k] = c[k - 1] \o Bytes(t[k]) /\ e[k] = e[k - 1] + t[k].len
      /\ \A k \in 1 .. n : /\ t[k].len \in Nat
                           /\ Bytes(t[k]) \in Seq(Cell) /\ Len(Bytes(t[k])) = t[k].len
                           /\ \A i \in 1 .. t[k].len : Bytes(t[k])[i] = <<t[k].store, t[k].offset + i - 1>>
  <2>1. n \in Nat /\ \A k \in 1 .. n : t[k] \in Piece
    OBVIOUS
  <2>2. \A k \in 0 .. n : c[k] \in Seq(Cell) /\ Len(c[k]) = e[k] /\ e[k] \in Nat
    BY ContentRecursion, ContentLength, EndsFacts
  <2>3. \A k \in 1 .. n : c[k] = c[k - 1] \o Bytes(t[k]) /\ e[k] = e[k - 1] + t[k].len
    BY ContentRecursion, EndsFacts
  <2>4. \A k \in 1 .. n : t[k].len \in Nat
    BY EndsFacts
  <2>. HIDE DEF n, c, e
  <2>5. QED
    BY <2>1, <2>2, <2>3, <2>4, BytesType
<1>. HIDE DEF n, c, e
<1>2. 0 \in S
  BY <1>1
<1>3. ASSUME NEW m \in 1 .. n, m - 1 \in S PROVE m \in S
  <2>1. m \in 0 .. n /\ m - 1 \in 0 .. n /\ m \in 1 .. n
    BY <1>1
  <2>2. /\ c[m - 1] \in Seq(Cell) /\ Len(c[m - 1]) = e[m - 1] /\ e[m - 1] \in Nat
        /\ c[m] = c[m - 1] \o Bytes(t[m])
        /\ Bytes(t[m]) \in Seq(Cell) /\ Len(Bytes(t[m])) = t[m].len /\ t[m].len \in Nat
    BY <2>1, <1>1
  <2>3. /\ Len(c[m]) = e[m - 1] + t[m].len
        /\ \A i \in 1 .. e[m - 1] : c[m][i] = c[m - 1][i]
        /\ \A i \in 1 .. t[m].len : c[m][e[m - 1] + i] = Bytes(t[m])[i]
    <3>. DEFINE u == c[m - 1]
                v == Bytes(t[m])
    <3>1. /\ u \in Seq(Cell) /\ v \in Seq(Cell) /\ Len(u) = e[m - 1] /\ Len(v) = t[m].len
          /\ c[m] = u \o v
      BY <2>2
    <3>. HIDE DEF u, v
    <3>2. /\ Len(u \o v) = Len(u) + Len(v)
          /\ \A i \in 1 .. Len(u) : (u \o v)[i] = u[i]
          /\ \A i \in 1 .. Len(v) : (u \o v)[Len(u) + i] = v[i]
      BY <3>1, Halves
    <3>3. /\ Len(c[m]) = e[m - 1] + t[m].len
          /\ \A i \in 1 .. e[m - 1] : c[m][i] = u[i]
          /\ \A i \in 1 .. t[m].len : c[m][e[m - 1] + i] = v[i]
      BY <3>1, <3>2
    <3>4. QED
      BY <3>3 DEF u, v
  <2>4. ASSUME NEW k \in 1 .. m, NEW i \in 1 .. t[k].len
        PROVE  /\ e[k - 1] + i \in 1 .. Len(c[m])
               /\ c[m][e[k - 1] + i] = <<t[k].store, t[k].offset + i - 1>>
    <3>1. CASE k = m
      <4>1. Bytes(t[m])[i] = <<t[m].store, t[m].offset + i - 1>>
        BY <3>1, <2>1, <1>1
      <4>2. c[m][e[m - 1] + i] = Bytes(t[m])[i]
        BY <3>1, <2>3
      <4>3. e[m - 1] + i \in 1 .. e[m - 1] + t[m].len
        BY <3>1, <2>2, SMTT(30)
      <4>4. QED
        BY <4>1, <4>2, <4>3, <3>1, <2>3
    <3>2. CASE k # m
      <4>1. k \in 1 .. m - 1
        BY <3>2
      <4>2. /\ e[k - 1] + i \in 1 .. Len(c[m - 1])
            /\ c[m - 1][e[k - 1] + i] = <<t[k].store, t[k].offset + i - 1>>
        BY <4>1, <1>3
      <4>. DEFINE x == e[k - 1] + i
      <4>3. x \in 1 .. e[m - 1] /\ c[m - 1][x] = <<t[k].store, t[k].offset + i - 1>>
        BY <4>2, <2>2
      <4>. HIDE DEF x
      <4>4. c[m][x] = c[m - 1][x]
        BY <4>3, <2>3
      <4>5. x \in 1 .. Len(c[m])
        <5>1. Len(c[m]) = e[m - 1] + t[m].len /\ e[m - 1] \in Nat /\ t[m].len \in Nat
          BY <2>2, <2>3
        <5>2. QED
          BY <4>3, <5>1
      <4>6. QED
        BY <4>3, <4>4, <4>5 DEF x
    <3>3. QED
      BY <3>1, <3>2
  <2>5. QED
    BY <2>1, <2>4
<1>4. \A m \in 0 .. n : m \in S
  <2>. HIDE DEF S
  <2>1. QED
    BY <1>1, <1>2, <1>3, PrefixInduction
<1>5. n \in S
  BY <1>1, <1>4, SMTT(30)
<1>6. QED
  BY <1>5 DEF Content, n, c, e

\* Every position lies in a piece.
LEMMA PieceAt ==
  ASSUME NEW t \in Seq(Piece), NEW i \in 1 .. TotalLen(t)
  PROVE  \E k \in 1 .. Len(t) : Ends(t)[k - 1] < i /\ i <= Ends(t)[k]
<1>. DEFINE n == Len(t)
            e == Ends(t)
            S == {m \in 0 .. n : i <= e[m] => \E k \in 1 .. m : e[k - 1] < i /\ i <= e[k]}
<1>1. /\ n \in Nat /\ e[0] = 0 /\ TotalLen(t) = e[n]
      /\ \A k \in 0 .. n : e[k] \in Nat
  BY EndsFacts
<1>. HIDE DEF n, e
<1>2. 0 \in S
  BY <1>1
<1>3. ASSUME NEW m \in 1 .. n, m - 1 \in S PROVE m \in S
  <2>1. m \in 0 .. n /\ m - 1 \in 0 .. n /\ e[m - 1] \in Nat /\ e[m] \in Nat
    BY <1>1
  <2>2. ASSUME i <= e[m] PROVE \E k \in 1 .. m : e[k - 1] < i /\ i <= e[k]
    <3>1. CASE i <= e[m - 1]
      <4>1. PICK k \in 1 .. m - 1 : e[k - 1] < i /\ i <= e[k]
        BY <3>1, <1>3
      <4>2. k \in 1 .. m
        OBVIOUS
      <4>3. QED
        BY <4>1, <4>2
    <3>2. CASE ~ (i <= e[m - 1])
      <4>1. e[m - 1] < i /\ m \in 1 .. m
        BY <3>2, <2>1, <1>1
      <4>2. QED
        BY <4>1, <2>2
    <3>3. QED
      BY <3>1, <3>2
  <2>3. QED
    BY <2>1, <2>2
<1>4. \A m \in 0 .. n : m \in S
  <2>. HIDE DEF S
  <2>1. QED
    BY <1>1, <1>2, <1>3, PrefixInduction
<1>5. n \in S /\ i <= e[n]
  BY <1>1, <1>4
<1>6. QED
  BY <1>5 DEF n, e

-----------------------------------------------------------------------------
(* Normalized is a canonical form: it depends on the content alone. *)

\* No empty piece, and no piece that continues the one before it.
Canonical(t) ==
  /\ \A k \in 1 .. Len(t) : t[k].len > 0
  /\ \A k \in 1 .. Len(t) - 1 :
       t[k].store = t[k + 1].store => t[k].offset + t[k].len # t[k + 1].offset

\* A piece is its three fields.
LEMMA PieceEqual ==
  ASSUME NEW p \in Piece, NEW q \in Piece,
         p.store = q.store, p.offset = q.offset, p.len = q.len
  PROVE  p = q
BY DEF Piece

\* Tables whose neighbours are never contiguous and never empty are equal as
\* soon as their contents are.
LEMMA CanonicalUnique ==
  ASSUME NEW t \in Seq(Piece), NEW u \in Seq(Piece), Canonical(t), Canonical(u),
         Content(t) = Content(u), Len(t) <= Len(u)
  PROVE  t = u
<1>. DEFINE n == Len(t)
            c == Content(t)
            e == Ends(t)
            f == Ends(u)
            S == {k \in 0 .. n : e[k] = f[k] /\ \A j \in 1 .. k : t[j] = u[j]}
<1>1. /\ n \in Nat /\ Len(u) \in Nat /\ n <= Len(u)
      /\ \A k \in 0 .. n : e[k] \in Nat
      /\ \A k \in 0 .. Len(u) : f[k] \in Nat
      /\ e[0] = 0 /\ f[0] = 0
      /\ e[n] = Len(c) /\ f[Len(u)] = Len(c)
      /\ \A k \in 1 .. n : e[k] = e[k - 1] + t[k].len
      /\ \A k \in 1 .. Len(u) : f[k] = f[k - 1] + u[k].len
  BY EndsFacts, ContentLength
<1>2. /\ \A k \in 1 .. n : /\ t[k] \in Piece /\ t[k].len \in Nat \ {0}
                           /\ t[k].offset \in Nat
      /\ \A k \in 1 .. Len(u) : /\ u[k] \in Piece /\ u[k].len \in Nat \ {0}
                                /\ u[k].offset \in Nat
  <2>1. /\ \A k \in 1 .. n : t[k] \in Piece
        /\ \A k \in 1 .. Len(u) : u[k] \in Piece
    OBVIOUS
  <2>2. /\ \A k \in 1 .. n : t[k].len \in Nat /\ t[k].offset \in Nat
        /\ \A k \in 1 .. Len(u) : u[k].len \in Nat /\ u[k].offset \in Nat
    BY EndsFacts
  <2>3. /\ \A k \in 1 .. n : t[k].len > 0
        /\ \A k \in 1 .. Len(u) : u[k].len > 0
    BY DEF Canonical
  <2>. HIDE DEF n
  <2>4. ASSUME NEW k \in 1 .. n
        PROVE  t[k] \in Piece /\ t[k].len \in Nat \ {0} /\ t[k].offset \in Nat
    BY <2>1, <2>2, <2>3
  <2>5. ASSUME NEW k \in 1 .. Len(u)
        PROVE  u[k] \in Piece /\ u[k].len \in Nat \ {0} /\ u[k].offset \in Nat
    BY <2>1, <2>2, <2>3
  <2>6. QED
    BY <2>4, <2>5
<1>3. /\ \A k \in 1 .. n : \A i \in 1 .. t[k].len :
            c[e[k - 1] + i] = <<t[k].store, t[k].offset + i - 1>> /\ e[k - 1] + i \in 1 .. Len(c)
      /\ \A k \in 1 .. Len(u) : \A i \in 1 .. u[k].len :
            c[f[k - 1] + i] = <<u[k].store, u[k].offset + i - 1>> /\ f[k - 1] + i \in 1 .. Len(c)
  BY CellAt
<1>4. \A k \in 1 .. n : k < n => k + 1 \in 1 .. n /\ (k + 1) - 1 = k /\
        (t[k].store = t[k + 1].store => t[k].offset + t[k].len # t[k + 1].offset)
  BY <1>1 DEF Canonical
<1>5. \A k \in 1 .. Len(u) : k < Len(u) => k + 1 \in 1 .. Len(u) /\ (k + 1) - 1 = k /\
        (u[k].store = u[k + 1].store => u[k].offset + u[k].len # u[k + 1].offset)
  BY <1>1 DEF Canonical
<1>. HIDE DEF n, c, e, f
<1>6. 0 \in S
  BY <1>1
<1>7. ASSUME NEW k \in 1 .. n, k - 1 \in S PROVE k \in S
  <2>1. /\ k \in 1 .. n /\ k \in 1 .. Len(u) /\ k \in 0 .. n /\ k - 1 \in 0 .. n
        /\ e[k - 1] = f[k - 1] /\ e[k - 1] \in Nat
    BY <1>1, <1>7
  <2>. DEFINE p == t[k]
              q == u[k]
              x == e[k - 1]
  <2>2. /\ p \in Piece /\ p.len \in Nat \ {0} /\ p.offset \in Nat
        /\ q \in Piece /\ q.len \in Nat \ {0} /\ q.offset \in Nat
        /\ e[k] = x + p.len /\ f[k] = x + q.len /\ x \in Nat
    BY <2>1, <1>1, <1>2
  <2>3. /\ \A i \in 1 .. p.len : c[x + i] = <<p.store, p.offset + i - 1>>
        /\ \A i \in 1 .. q.len : c[x + i] = <<q.store, q.offset + i - 1>>
    BY <2>1, <1>3
  <2>0. p = t[k] /\ q = u[k] /\ x = e[k - 1] /\ x = f[k - 1]
    BY <2>1
  <2>. HIDE DEF p, q, x
  <2>4. p.store = q.store /\ p.offset = q.offset
    <3>1. 1 \in 1 .. p.len /\ 1 \in 1 .. q.len /\ p.offset + 1 - 1 = p.offset /\ q.offset + 1 - 1 = q.offset
      BY <2>2
    <3>2. c[x + 1] = <<p.store, p.offset + 1 - 1>> /\ c[x + 1] = <<q.store, q.offset + 1 - 1>>
      BY <3>1, <2>3
    <3>3. QED
      BY <3>1, <3>2
  <2>5. ~ (p.len < q.len)
    <3>1. SUFFICES ASSUME p.len < q.len PROVE FALSE
      OBVIOUS
    <3>2. k < n
      <4>1. e[k] # Len(c)
        <5>1. x + q.len \in 1 .. Len(c)
          <6>1. p.len \in 1 .. p.len /\ q.len \in 1 .. q.len
            BY <2>2
          <6>2. QED
            BY <6>1, <2>0, <2>1, <1>3
        <5>2. QED
          BY <5>1, <2>2, <3>1
      <4>2. QED
        BY <4>1, <2>1, <1>1
    <3>3. /\ k + 1 \in 1 .. n /\ (k + 1) - 1 = k
          /\ p.store = t[k + 1].store => p.offset + p.len # t[k + 1].offset
          /\ t[k + 1].len \in Nat \ {0} /\ t[k + 1].offset \in Nat
      BY <3>2, <2>0, <2>1, <1>2, <1>4
    <3>4. c[e[k] + 1] = <<t[k + 1].store, t[k + 1].offset + 1 - 1>>
      <4>1. 1 \in 1 .. t[k + 1].len
        BY <3>3
      <4>2. QED
        BY <4>1, <3>3, <1>3
    <3>5. c[x + (p.len + 1)] = <<q.store, q.offset + (p.len + 1) - 1>>
      <4>1. p.len + 1 \in 1 .. q.len
        BY <3>1, <2>2
      <4>2. QED
        BY <4>1, <2>3
    <3>6. x + (p.len + 1) = e[k] + 1 /\ q.offset + (p.len + 1) - 1 = p.offset + p.len
          /\ t[k + 1].offset + 1 - 1 = t[k + 1].offset
      BY <2>2, <2>4, <3>3, SMTT(30)
    <3>7. <<t[k + 1].store, t[k + 1].offset>> = <<p.store, p.offset + p.len>>
      BY <3>4, <3>5, <3>6, <2>4
    <3>8. QED
      BY <3>3, <3>7
  <2>6. ~ (q.len < p.len)
    <3>1. SUFFICES ASSUME q.len < p.len PROVE FALSE
      OBVIOUS
    <3>2. k < Len(u)
      <4>1. f[k] # Len(c)
        <5>1. x + p.len \in 1 .. Len(c)
          <6>1. p.len \in 1 .. p.len /\ q.len \in 1 .. q.len
            BY <2>2
          <6>2. QED
            BY <6>1, <2>0, <2>1, <1>3
        <5>2. QED
          BY <5>1, <2>2, <3>1
      <4>2. QED
        BY <4>1, <2>1, <1>1
    <3>3. /\ k + 1 \in 1 .. Len(u) /\ (k + 1) - 1 = k
          /\ q.store = u[k + 1].store => q.offset + q.len # u[k + 1].offset
          /\ u[k + 1].len \in Nat \ {0} /\ u[k + 1].offset \in Nat
      BY <3>2, <2>0, <2>1, <1>2, <1>5
    <3>4. c[f[k] + 1] = <<u[k + 1].store, u[k + 1].offset + 1 - 1>>
      <4>1. 1 \in 1 .. u[k + 1].len
        BY <3>3
      <4>2. QED
        BY <4>1, <3>3, <1>3, SMTT(30)
    <3>5. c[x + (q.len + 1)] = <<p.store, p.offset + (q.len + 1) - 1>>
      <4>1. q.len + 1 \in 1 .. p.len
        BY <3>1, <2>2
      <4>2. QED
        BY <4>1, <2>3
    <3>6. x + (q.len + 1) = f[k] + 1 /\ p.offset + (q.len + 1) - 1 = q.offset + q.len
          /\ u[k + 1].offset + 1 - 1 = u[k + 1].offset
      BY <2>2, <2>4, <3>3, SMTT(30)
    <3>7. <<u[k + 1].store, u[k + 1].offset>> = <<q.store, q.offset + q.len>>
      BY <3>4, <3>5, <3>6, <2>4
    <3>8. QED
      BY <3>3, <3>7
  <2>7. p.len = q.len /\ e[k] = f[k]
    BY <2>2, <2>5, <2>6
  <2>8. p = q
    BY <2>2, <2>4, <2>7, PieceEqual
  <2>9. \A j \in 1 .. k : t[j] = u[j]
    <3>1. \A j \in 1 .. k : j = k \/ j \in 1 .. k - 1
      BY <2>1
    <3>2. \A j \in 1 .. k - 1 : t[j] = u[j]
      BY <1>7
    <3>3. QED
      BY <3>1, <3>2, <2>0, <2>8
  <2>10. QED
    BY <2>1, <2>7, <2>9
<1>8. \A k \in 0 .. n : k \in S
  <2>. HIDE DEF S
  <2>1. QED
    BY <1>1, <1>6, <1>7, PrefixInduction
<1>9. e[n] = f[n] /\ (\A j \in 1 .. n : t[j] = u[j]) /\ n \in 0 .. n
  BY <1>1, <1>8
<1>10. n = Len(u)
  <2>1. SUFFICES ASSUME n < Len(u) PROVE FALSE
    BY <1>1
  <2>2. n + 1 \in 1 .. Len(u) /\ (n + 1) - 1 = n
    BY <2>1, <1>1
  <2>3. 1 \in 1 .. u[n + 1].len
    BY <2>2, <1>2
  <2>4. f[n] + 1 \in 1 .. Len(c)
    BY <2>2, <2>3, <1>3
  <2>5. QED
    BY <2>4, <1>1, <1>9
<1>11. QED
  BY <1>9, <1>10, SeqEqual DEF n

\* A non-empty table is its front and its last piece.
LEMMA SplitLast ==
  ASSUME NEW t \in Seq(Piece), t # <<>>
  PROVE  /\ Len(t) \in Nat \ {0} /\ t[Len(t)] \in Piece
         /\ SubSeq(t, 1, Len(t) - 1) \in Seq(Piece)
         /\ Len(SubSeq(t, 1, Len(t) - 1)) = Len(t) - 1
         /\ t = Append(SubSeq(t, 1, Len(t) - 1), t[Len(t)])
<1>. DEFINE n == Len(t)
            u == SubSeq(t, 1, n - 1)
<1>1. n \in Nat \ {0} /\ t[n] \in Piece
  OBVIOUS
<1>2. u \in Seq(Piece) /\ Len(u) = n - 1 /\ \A i \in 1 .. n - 1 : u[i] = t[i]
  <2>1. /\ \A i \in 1 .. n - 1 : t[i] \in Piece
        /\ 1 \in Int /\ n - 1 \in Int /\ (n - 1) - 1 + 1 = n - 1
        /\ (IF 1 <= n - 1 THEN (n - 1) - 1 + 1 ELSE 0) = n - 1
        /\ \A i \in 1 .. n - 1 : 1 + i - 1 = i
    <3>1. \A i \in 1 .. n : t[i] \in Piece
      OBVIOUS
    <3>. HIDE DEF n
    <3>2. \A i \in 1 .. n - 1 : i \in 1 .. n
      BY <1>1
    <3>3. QED
      BY <3>1, <3>2, <1>1
  <2>2. /\ u \in Seq(Piece) /\ Len(u) = (IF 1 <= n - 1 THEN (n - 1) - 1 + 1 ELSE 0)
        /\ \A i \in 1 .. (n - 1) - 1 + 1 : u[i] = t[1 + i - 1]
    <3>. HIDE DEF n
    <3>1. QED
      BY <2>1, SubSeqProperties
  <2>. HIDE DEF n, u
  <2>3. QED
    BY <2>1, <2>2
<1>. HIDE DEF u
<1>3. /\ Append(u, t[n]) \in Seq(Piece) /\ Len(Append(u, t[n])) = n
      /\ \A i \in 1 .. n - 1 : Append(u, t[n])[i] = u[i]
      /\ Append(u, t[n])[n] = t[n]
  <2>. HIDE DEF n
  <2>1. QED
    BY <1>1, <1>2
<1>4. \A i \in 1 .. n : i = n \/ i \in 1 .. n - 1
  BY <1>1
<1>5. \A i \in 1 .. n : Append(u, t[n])[i] = t[i]
  <2>. HIDE DEF n
  <2>1. QED
    BY <1>2, <1>3, <1>4
<1>6. t = Append(u, t[n])
  BY <1>3, <1>5, SeqEqual
<1>7. QED
  BY <1>1, <1>2, <1>6 DEF u

\* A piece pushed behind a table adds its bytes to the content.
LEMMA ContentAppend ==
  ASSUME NEW t \in Seq(Piece), NEW p \in Piece
  PROVE  /\ Append(t, p) \in Seq(Piece)
         /\ Content(Append(t, p)) = Content(t) \o Bytes(p)
<1>1. <<p>> \in Seq(Piece) /\ Append(t, p) = t \o <<p>> /\ Append(t, p) \in Seq(Piece)
  OBVIOUS
<1>2. QED
  BY <1>1, ContentConcat, ContentOfOne

\* A piece followed by the one that continues it holds the bytes of both.
LEMMA BytesJoin ==
  ASSUME NEW p \in Piece, NEW q \in Piece, p.store = q.store, p.offset + p.len = q.offset
  PROVE  /\ [p EXCEPT !.len = @ + q.len] \in Piece
         /\ Bytes([p EXCEPT !.len = @ + q.len]) = Bytes(p) \o Bytes(q)
<1>. DEFINE r == [p EXCEPT !.len = @ + q.len]
<1>1. /\ p.len \in Nat /\ p.offset \in Nat /\ p.store \in Store
      /\ q.len \in Nat /\ q.offset \in Nat
      /\ r \in Piece /\ r.len = p.len + q.len /\ r.offset = p.offset /\ r.store = p.store
  BY DEF Piece
<1>. HIDE DEF r
<1>2. /\ Bytes(p) \in Seq(Cell) /\ Len(Bytes(p)) = p.len
      /\ \A i \in 1 .. p.len : Bytes(p)[i] = <<p.store, p.offset + i - 1>>
      /\ Bytes(q) \in Seq(Cell) /\ Len(Bytes(q)) = q.len
      /\ \A i \in 1 .. q.len : Bytes(q)[i] = <<q.store, q.offset + i - 1>>
      /\ Bytes(r) \in Seq(Cell) /\ Len(Bytes(r)) = p.len + q.len
      /\ \A i \in 1 .. p.len + q.len : Bytes(r)[i] = <<p.store, p.offset + i - 1>>
  BY <1>1, BytesType
<1>. DEFINE u == Bytes(p)
            v == Bytes(q)
            w == Bytes(r)
<1>3. /\ u \o v \in Seq(Cell) /\ Len(u \o v) = p.len + q.len
      /\ \A i \in 1 .. p.len : (u \o v)[i] = u[i]
      /\ \A i \in 1 .. q.len : (u \o v)[p.len + i] = v[i]
  <2>1. u \in Seq(Cell) /\ v \in Seq(Cell) /\ Len(u) = p.len /\ Len(v) = q.len
    BY <1>2
  <2>. HIDE DEF u, v
  <2>2. /\ u \o v \in Seq(Cell) /\ Len(u \o v) = Len(u) + Len(v)
        /\ \A i \in 1 .. Len(u) : (u \o v)[i] = u[i]
        /\ \A i \in 1 .. Len(v) : (u \o v)[Len(u) + i] = v[i]
    BY <2>1, Halves
  <2>3. QED
    BY <2>1, <2>2
<1>4. ASSUME NEW i \in 1 .. p.len + q.len PROVE w[i] = (u \o v)[i]
  <2>1. w[i] = <<p.store, p.offset + i - 1>>
    BY <1>2
  <2>2. CASE i <= p.len
    <3>1. i \in 1 .. p.len
      BY <2>2, <1>1
    <3>2. QED
      BY <3>1, <2>1, <1>2, <1>3
  <2>3. CASE ~ (i <= p.len)
    <3>1. i - p.len \in 1 .. q.len /\ p.len + (i - p.len) = i
          /\ q.offset + (i - p.len) - 1 = p.offset + i - 1
      BY <2>3, <1>1
    <3>2. (u \o v)[p.len + (i - p.len)] = v[i - p.len]
      BY <3>1, <1>3
    <3>3. v[i - p.len] = <<q.store, q.offset + (i - p.len) - 1>>
      BY <3>1, <1>2
    <3>4. QED
      BY <3>1, <3>2, <3>3, <2>1
  <2>4. QED
    BY <2>2, <2>3
<1>5. w = u \o v
  <2>1. w \in Seq(Cell) /\ Len(w) = Len(u \o v) /\ Len(w) = p.len + q.len
    BY <1>2, <1>3
  <2>. HIDE DEF u, v, w
  <2>2. QED
    BY <2>1, <1>3, <1>4, SeqEqual
<1>6. QED
  BY <1>1, <1>5 DEF r

NormalStep(out, p) ==
  IF p.len = 0 THEN out
  ELSE IF /\ out # <<>>
          /\ out[Len(out)].store = p.store
          /\ out[Len(out)].offset + out[Len(out)].len = p.offset
         THEN [out EXCEPT ![Len(out)].len = @ + p.len]
         ELSE Append(out, p)

\* One step of normalized keeps the table canonical and adds the bytes of the piece.
LEMMA NormalStepGood ==
  ASSUME NEW out \in Seq(Piece), NEW p \in Piece, Canonical(out)
  PROVE  /\ NormalStep(out, p) \in Seq(Piece)
         /\ Canonical(NormalStep(out, p))
         /\ Content(NormalStep(out, p)) = Content(out) \o Bytes(p)
<1>. DEFINE m == Len(out)
            last == out[m]
            joins == out # <<>> /\ last.store = p.store /\ last.offset + last.len = p.offset
<1>1. /\ p.len \in Nat /\ p.offset \in Nat /\ m \in Nat
      /\ \A k \in 1 .. m : out[k] \in Piece /\ out[k].len \in Nat \ {0} /\ out[k].offset \in Nat
      /\ \A k \in 1 .. m - 1 :
           out[k].store = out[k + 1].store => out[k].offset + out[k].len # out[k + 1].offset
  <2>1. p.len \in Nat /\ p.offset \in Nat
    BY DEF Piece
  <2>2. m \in Nat /\ \A k \in 1 .. m : out[k] \in Piece
    OBVIOUS
  <2>3. QED
    BY <2>1, <2>2, EndsFacts DEF Canonical
<1>2. CASE p.len = 0
  <2>1. Bytes(p) \in Seq(Cell) /\ Len(Bytes(p)) = 0
    BY <1>2, BytesType
  <2>2. Bytes(p) = <<>>
    <3>. DEFINE b == Bytes(p)
    <3>1. b \in Seq(Cell) /\ Len(b) = 0
      BY <2>1
    <3>. HIDE DEF b
    <3>2. b = <<>>
      BY <3>1
    <3>3. QED
      BY <3>2 DEF b
  <2>3. Content(out) \o <<>> = Content(out)
    BY ContentType, ConcatEmptySeq
  <2>4. NormalStep(out, p) = out
    BY <1>2 DEF NormalStep
  <2>5. QED
    BY <2>2, <2>3, <2>4
<1>3. CASE p.len # 0 /\ ~ joins
  <2>. DEFINE q == Append(out, p)
  <2>1. NormalStep(out, p) = q
    BY <1>3 DEF NormalStep
  <2>2. q \in Seq(Piece) /\ Content(q) = Content(out) \o Bytes(p)
    BY ContentAppend
  <2>3. Len(q) = m + 1 /\ (\A k \in 1 .. m : q[k] = out[k]) /\ q[m + 1] = p
    OBVIOUS
  <2>. HIDE DEF q, m
  <2>4. \A k \in 1 .. Len(q) : q[k].len > 0
    <3>1. \A k \in 1 .. m + 1 : k = m + 1 \/ k \in 1 .. m
      BY <1>1
    <3>2. QED
      BY <3>1, <2>3, <1>1, <1>3
  <2>5. ASSUME NEW k \in 1 .. Len(q) - 1, q[k].store = q[k + 1].store
        PROVE  q[k].offset + q[k].len # q[k + 1].offset
    <3>1. k \in 1 .. m
      BY <2>3, <1>1
    <3>2. CASE k = m
      <4>1. out # <<>>
        BY <3>1 DEF m
      <4>2. q[k] = last /\ q[k + 1] = p
        BY <3>1, <3>2, <2>3
      <4>3. QED
        BY <4>1, <4>2, <1>3, <2>5
    <3>3. CASE k # m
      <4>1. k \in 1 .. m - 1 /\ k + 1 \in 1 .. m
        BY <3>1, <3>3, <1>1
      <4>2. q[k] = out[k] /\ q[k + 1] = out[k + 1]
        BY <3>1, <4>1, <2>3
      <4>3. QED
        BY <4>1, <4>2, <1>1, <2>5
    <3>4. QED
      BY <3>2, <3>3
  <2>6. QED
    BY <2>1, <2>2, <2>4, <2>5 DEF Canonical
<1>4. CASE p.len # 0 /\ joins
  <2>. DEFINE front == SubSeq(out, 1, m - 1)
              wide == [last EXCEPT !.len = @ + p.len]
              q == [out EXCEPT ![m] = wide]
  <2>1. NormalStep(out, p) = q
    BY <1>4 DEF NormalStep
  <2>2. /\ m \in Nat \ {0} /\ last \in Piece /\ front \in Seq(Piece) /\ Len(front) = m - 1
        /\ out = Append(front, last)
    BY <1>4, SplitLast
  <2>3. wide \in Piece /\ Bytes(wide) = Bytes(last) \o Bytes(p)
    <3>. HIDE DEF last
    <3>1. QED
      BY <2>2, <1>4, BytesJoin
  <2>4. wide.store = last.store /\ wide.offset = last.offset /\ wide.len = last.len + p.len
    <3>. HIDE DEF last
    <3>1. QED
      BY <2>2 DEF Piece
  <2>5. q \in Seq(Piece) /\ Len(q) = m /\ (\A k \in 1 .. m - 1 : q[k] = out[k]) /\ q[m] = wide
    <3>. HIDE DEF wide
    <3>1. QED
      BY <2>2, <2>3
  <2>. HIDE DEF wide, q, front
  <2>6. q = Append(front, wide)
    <3>1. \A k \in 1 .. m - 1 : front[k] = out[k]
      <4>1. \A k \in 1 .. m - 1 : Append(front, last)[k] = front[k]
        <5>. HIDE DEF m, last
        <5>1. QED
          BY <2>2
      <4>2. QED
        BY <4>1, <2>2, Zenon
    <3>2. /\ Append(front, wide) \in Seq(Piece) /\ Len(Append(front, wide)) = m
          /\ (\A k \in 1 .. m - 1 : Append(front, wide)[k] = front[k])
          /\ Append(front, wide)[m] = wide
      <4>. HIDE DEF m, last
      <4>1. QED
        BY <2>2, <2>3
    <3>. HIDE DEF m, last
    <3>3. \A k \in 1 .. m : k = m \/ k \in 1 .. m - 1
      BY <2>2
    <3>4. \A k \in 1 .. m : q[k] = Append(front, wide)[k]
      BY <3>1, <3>2, <3>3, <2>5
    <3>5. QED
      BY <3>2, <3>4, <2>5, SeqEqual
  <2>7. Content(q) = Content(out) \o Bytes(p)
    <3>. HIDE DEF m, last
    <3>1. Content(q) = Content(front) \o Bytes(wide)
      BY <2>2, <2>3, <2>6, ContentAppend
    <3>2. Content(out) = Content(front) \o Bytes(last)
      BY <2>2, ContentAppend
    <3>3. /\ Content(front) \in Seq(Cell) /\ Bytes(last) \in Seq(Cell) /\ Bytes(p) \in Seq(Cell)
      BY <2>2, ContentType, BytesType
    <3>. DEFINE a == Content(front)
                b == Bytes(last)
                c == Bytes(p)
    <3>4. (a \o b) \o c = a \o (b \o c)
      <4>1. a \in Seq(Cell) /\ b \in Seq(Cell) /\ c \in Seq(Cell)
        BY <3>3
      <4>. HIDE DEF a, b, c
      <4>2. QED
        BY <4>1, CellsAssociate
    <3>5. QED
      BY <3>1, <3>2, <3>4, <2>3, Zenon
  <2>8. \A k \in 1 .. Len(q) : q[k].len > 0
    <3>1. \A k \in 1 .. m : k = m \/ (k \in 1 .. m - 1 /\ k \in 1 .. m)
      BY <2>2
    <3>2. wide.len > 0
      <4>1. last.len \in Nat
        BY <2>2 DEF Piece
      <4>2. QED
        BY <4>1, <2>4, <1>1, <1>4
    <3>. HIDE DEF m, last
    <3>3. QED
      BY <3>1, <3>2, <2>5, <1>1
  <2>9. ASSUME NEW k \in 1 .. Len(q) - 1, q[k].store = q[k + 1].store
        PROVE  q[k].offset + q[k].len # q[k + 1].offset
    <3>1. k \in 1 .. m - 1 /\ q[k] = out[k]
      BY <2>5
    <3>2. q[k + 1].store = out[k + 1].store /\ q[k + 1].offset = out[k + 1].offset
      <4>1. CASE k + 1 = m
        BY <4>1, <2>4, <2>5
      <4>2. CASE k + 1 # m
        <5>1. k + 1 \in 1 .. m - 1
          BY <3>1, <4>2, <2>2
        <5>2. QED
          BY <5>1, <2>5
      <4>3. QED
        BY <4>1, <4>2
    <3>3. QED
      BY <3>1, <3>2, <1>1, <2>9
  <2>10. QED
    BY <2>1, <2>5, <2>7, <2>8, <2>9 DEF Canonical
<1>5. QED
  BY <1>2, <1>3, <1>4

\* normalized answers with a canonical table of the same content.
LEMMA NormalizedCanonical ==
  ASSUME NEW t \in Seq(Piece)
  PROVE  /\ Normalized(t) \in Seq(Piece)
         /\ Canonical(Normalized(t))
         /\ Content(Normalized(t)) = Content(t)
<1>. DEFINE n == Len(t)
            C == {u \in Seq(Piece) : Canonical(u)}
            c == ContentUpTo(t)
            step == [x \in C \X (1 .. n) |-> NormalStep(x[1], t[x[2]])]
            Body(f) == [k \in 0 .. Len(t) |-> IF k = 0 THEN <<>> ELSE NormalStep(f[k - 1], t[k])]
            e == CHOOSE f : f = Body(f)
<1>1. n \in Nat /\ \A k \in 1 .. n : t[k] \in Piece
  OBVIOUS
<1>2. step \in [C \X (1 .. n) -> C]
  BY <1>1, NormalStepGood
<1>3. <<>> \in C
  BY DEF Canonical
<1>4. PICK r \in [0 .. n -> C] :
        r[0] = <<>> /\ \A i \in 1 .. n : r[i] = step[<<r[i - 1], i>>]
  <2>1. Recursions(C, n, <<>>, step) # {}
    <3>. HIDE DEF step, n, C
    <3>1. QED
      BY <1>1, <1>2, <1>3, RecursionExists, Zenon
  <2>2. QED
    BY <2>1 DEF Recursions
<1>5. \A i \in 1 .. n : r[i] = NormalStep(r[i - 1], t[i])
  <2>. HIDE DEF C
  <2>1. \A i \in 1 .. n : i - 1 \in 0 .. n
    BY <1>1
  <2>2. \A i \in 1 .. n : <<r[i - 1], i>> \in C \X (1 .. n)
    BY <2>1
  <2>3. QED
    BY <2>2, <1>4
<1>6. r = Body(r)
  <2>. HIDE DEF C
  <2>1. QED
    BY <1>4, <1>5
<1>7. e = Body(e)
  <2>. HIDE DEF Body
  <2>1. QED
    BY <1>6
<1>8. Normalized(t) = e[n]
  BY DEF Normalized, NormalStep
<1>. HIDE DEF e
<1>9. e[0] = <<>> /\ \A k \in 1 .. n : e[k] = NormalStep(e[k - 1], t[k])
  <2>1. \A k \in 0 .. n : Body(e)[k] = IF k = 0 THEN <<>> ELSE NormalStep(e[k - 1], t[k])
    OBVIOUS
  <2>2. \A k \in 0 .. n : e[k] = IF k = 0 THEN <<>> ELSE NormalStep(e[k - 1], t[k])
    <3>. HIDE DEF Body
    <3>1. QED
      BY <2>1, <1>7
  <2>3. 0 \in 0 .. n /\ \A k \in 1 .. n : k \in 0 .. n /\ k # 0
    BY <1>1
  <2>. HIDE DEF n
  <2>4. QED
    BY <2>2, <2>3, Zenon
<1>10. c[0] = <<>> /\ \A k \in 1 .. n : c[k] = c[k - 1] \o Bytes(t[k])
  BY ContentRecursion
<1>. DEFINE S == {k \in 0 .. n : e[k] \in C /\ Content(e[k]) = c[k]}
<1>. HIDE DEF c
<1>11. 0 \in S
  <2>1. 0 \in 0 .. n
    BY <1>1
  <2>. HIDE DEF C, n
  <2>2. QED
    BY <2>1, <1>3, <1>9, <1>10, ContentOfNone
<1>12. ASSUME NEW k \in 1 .. n, k - 1 \in S PROVE k \in S
  <2>1. /\ e[k - 1] \in Seq(Piece) /\ Canonical(e[k - 1]) /\ Content(e[k - 1]) = c[k - 1]
        /\ t[k] \in Piece /\ k \in 0 .. n
    BY <1>1, <1>12
  <2>2. /\ e[k] \in Seq(Piece) /\ Canonical(e[k])
        /\ Content(e[k]) = Content(e[k - 1]) \o Bytes(t[k])
    BY <2>1, <1>9, NormalStepGood
  <2>3. QED
    BY <2>1, <2>2, <1>10
<1>13. \A k \in 0 .. n : k \in S
  <2>. HIDE DEF S, n
  <2>1. QED
    BY <1>1, <1>11, <1>12, PrefixInduction
<1>14. e[n] \in C /\ Content(e[n]) = c[n]
  BY <1>1, <1>13
<1>15. QED
  BY <1>8, <1>14 DEF Content, c

\* The debug assertion of a re-applied delete: pieces that hold the same bytes are
\* the same byte runs, however they are split.
THEOREM SameContentSameRuns ==
  ASSUME NEW t \in Seq(Piece), NEW u \in Seq(Piece), Content(t) = Content(u)
  PROVE  SameByteRuns(t, u)
<1>. DEFINE a == Normalized(t)
            b == Normalized(u)
<1>1. /\ a \in Seq(Piece) /\ Canonical(a) /\ b \in Seq(Piece) /\ Canonical(b)
      /\ Content(a) = Content(b)
  BY NormalizedCanonical
<1>. HIDE DEF a, b
<1>2. Len(a) \in Nat /\ Len(b) \in Nat
  BY <1>1
<1>3. a = b
  BY <1>1, <1>2, CanonicalUnique
<1>4. QED
  BY <1>3 DEF SameByteRuns, a, b

-----------------------------------------------------------------------------
(* Modified ranges.                                                        *)

RangeLists == Seq(Nat \X Nat)

\* Position i lies in one of the ranges.
InRanges(out, i) == \E j \in 1 .. Len(out) : out[j][1] <= i /\ i < out[j][2]

\* Non-empty ranges in order, none touching the next.
LieApart(out) ==
  /\ \A j \in 1 .. Len(out) : out[j][1] < out[j][2]
  /\ \A j \in 1 .. Len(out) - 1 : out[j][2] < out[j + 1][1]

\* A range pushed behind the others is added to them, joined to one it touches.
LEMMA PushRangeGood ==
  ASSUME NEW out \in RangeLists, LieApart(out), NEW s \in Nat, NEW e \in Nat, s < e,
         \A j \in 1 .. Len(out) : out[j][2] <= s
  PROVE  /\ PushRange(out, s, e) \in RangeLists /\ LieApart(PushRange(out, s, e))
         /\ \A j \in 1 .. Len(PushRange(out, s, e)) : PushRange(out, s, e)[j][2] <= e
         /\ \A i \in Nat : InRanges(PushRange(out, s, e), i) <=> InRanges(out, i) \/ (s <= i /\ i < e)
<1>. DEFINE m == Len(out)
            q == PushRange(out, s, e)
            x == <<s, e>>
            last == out[m]
            y == <<last[1], e>>
<1>1. /\ m \in Nat /\ \A j \in 1 .. m : out[j] \in Nat \X Nat
      /\ \A j \in 1 .. m : out[j][1] \in Nat /\ out[j][2] \in Nat
  BY DEF RangeLists
<1>2. /\ \A j \in 1 .. m : out[j][1] < out[j][2] /\ out[j][2] <= s
      /\ \A j \in 1 .. m - 1 : out[j][2] < out[j + 1][1]
  BY DEF LieApart
<1>3. CASE out # <<>> /\ last[2] = s
  <2>1. q = [out EXCEPT ![m] = y] /\ m # 0
    BY <1>3 DEF PushRange, RangeLists
  <2>2. m \in 1 .. m /\ last[1] \in Nat /\ last[1] < s /\ y \in Nat \X Nat
        /\ y[1] = last[1] /\ y[2] = e
    <3>1. m \in 1 .. m
      BY <2>1, <1>1
    <3>2. QED
      BY <3>1, <1>1, <1>2, <1>3
  <2>. HIDE DEF y
  <2>3. /\ q \in RangeLists /\ Len(q) = m /\ q[m] = y /\ \A j \in 1 .. m - 1 : q[j] = out[j]
    BY <2>1, <2>2 DEF RangeLists
  <2>. HIDE DEF q, m, last
  <2>4. ASSUME NEW j \in 1 .. m PROVE j = m \/ (j \in 1 .. m - 1 /\ j # m)
    BY <1>1
  <2>5. \A j \in 1 .. m : q[j][1] < q[j][2] /\ q[j][2] <= e
    <3>1. SUFFICES ASSUME NEW j \in 1 .. m PROVE q[j][1] < q[j][2] /\ q[j][2] <= e
      OBVIOUS
    <3>2. CASE j = m
      BY <3>2, <2>2, <2>3
    <3>3. CASE j \in 1 .. m - 1
      <4>1. q[j] = out[j]
        BY <3>3, <2>3
      <4>2. out[j][1] < out[j][2] /\ out[j][2] <= s /\ out[j][2] \in Nat
        BY <1>1, <1>2
      <4>3. QED
        BY <4>1, <4>2
    <3>4. QED
      BY <3>2, <3>3, <2>4
  <2>6. \A j \in 1 .. m - 1 : q[j][2] < q[j + 1][1]
    <3>1. SUFFICES ASSUME NEW j \in 1 .. m - 1 PROVE q[j][2] < q[j + 1][1]
      OBVIOUS
    <3>2. j + 1 \in 1 .. m
      BY <1>1
    <3>3. q[j + 1][1] = out[j + 1][1]
      <4>1. CASE j + 1 = m
        BY <4>1, <2>2, <2>3 DEF last
      <4>2. CASE j + 1 # m
        BY <4>2, <3>2, <2>4, <2>3
      <4>3. QED
        BY <4>1, <4>2
    <3>4. QED
      BY <3>3, <2>3, <1>2
  <2>7. ASSUME NEW i \in Nat
        PROVE  InRanges(q, i) <=> InRanges(out, i) \/ (s <= i /\ i < e)
    <3>1. ASSUME InRanges(q, i) PROVE InRanges(out, i) \/ (s <= i /\ i < e)
      <4>1. PICK j \in 1 .. m : q[j][1] <= i /\ i < q[j][2]
        BY <3>1, <2>3 DEF InRanges
      <4>2. CASE j = m
        <5>1. last[1] <= i /\ i < e
          BY <4>1, <4>2, <2>2, <2>3
        <5>2. CASE i < s
          BY <5>1, <5>2, <2>2, <1>3 DEF InRanges, last, m
        <5>3. QED
          BY <5>1, <5>2
      <4>3. CASE j \in 1 .. m - 1
        BY <4>1, <4>3, <2>3 DEF InRanges, m
      <4>4. QED
        BY <4>2, <4>3, <2>4
    <3>2. ASSUME InRanges(out, i) PROVE InRanges(q, i)
      <4>1. PICK j \in 1 .. m : out[j][1] <= i /\ i < out[j][2]
        BY <3>2 DEF InRanges, m
      <4>2. q[j][1] <= i /\ i < q[j][2]
        <5>1. CASE j = m
          <6>1. last[1] <= i /\ i < s
            BY <4>1, <5>1, <1>3 DEF last
          <6>2. QED
            BY <6>1, <5>1, <2>2, <2>3
        <5>2. CASE j \in 1 .. m - 1
          BY <4>1, <5>2, <2>3
        <5>3. QED
          BY <5>1, <5>2, <2>4
      <4>3. QED
        BY <4>2, <2>3 DEF InRanges
    <3>3. ASSUME s <= i, i < e PROVE InRanges(q, i)
      <4>1. q[m][1] <= i /\ i < q[m][2] /\ m \in 1 .. Len(q)
        BY <3>3, <2>2, <2>3
      <4>2. QED
        BY <4>1 DEF InRanges
    <3>4. QED
      BY <3>1, <3>2, <3>3
  <2>8. QED
    BY <2>3, <2>5, <2>6, <2>7 DEF LieApart, q
<1>4. CASE ~ (out # <<>> /\ last[2] = s)
  <2>1. q = Append(out, x) /\ x \in Nat \X Nat /\ x[1] = s /\ x[2] = e
    BY <1>4 DEF PushRange
  <2>. HIDE DEF x
  <2>2. /\ q \in RangeLists /\ Len(q) = m + 1 /\ q[m + 1] = x /\ \A j \in 1 .. m : q[j] = out[j]
    BY <2>1 DEF RangeLists
  <2>3. m # 0 => m \in 1 .. m /\ last[2] < s
    <3>1. ASSUME m # 0 PROVE m \in 1 .. m /\ last[2] < s
      <4>1. m \in 1 .. m /\ out # <<>>
        BY <3>1, <1>1
      <4>2. last[2] # s /\ last[2] <= s /\ last[2] \in Nat
        BY <4>1, <1>1, <1>2, <1>4
      <4>3. QED
        BY <4>1, <4>2
    <3>2. QED
      BY <3>1
  <2>. HIDE DEF q, m, last
  <2>4. ASSUME NEW j \in 1 .. m + 1 PROVE j = m + 1 \/ j \in 1 .. m
    BY <1>1
  <2>5. \A j \in 1 .. m + 1 : q[j][1] < q[j][2] /\ q[j][2] <= e
    <3>1. SUFFICES ASSUME NEW j \in 1 .. m + 1 PROVE q[j][1] < q[j][2] /\ q[j][2] <= e
      OBVIOUS
    <3>2. CASE j = m + 1
      BY <3>2, <2>1, <2>2
    <3>3. CASE j \in 1 .. m
      BY <3>3, <2>2, <1>1, <1>2
    <3>4. QED
      BY <3>2, <3>3, <2>4
  <2>6. \A j \in 1 .. (m + 1) - 1 : q[j][2] < q[j + 1][1]
    <3>1. SUFFICES ASSUME NEW j \in 1 .. m PROVE q[j][2] < q[j + 1][1]
      BY <1>1
    <3>2. CASE j = m
      <4>1. q[j] = last /\ q[j + 1] = x /\ m # 0
        BY <3>2, <2>2, <1>1 DEF last
      <4>2. QED
        BY <4>1, <2>1, <2>3
    <3>3. CASE j # m
      <4>1. j \in 1 .. m - 1 /\ j + 1 \in 1 .. m
        BY <3>3, <1>1
      <4>2. QED
        BY <4>1, <2>2, <1>2
    <3>4. QED
      BY <3>2, <3>3
  <2>7. ASSUME NEW i \in Nat
        PROVE  InRanges(q, i) <=> InRanges(out, i) \/ (s <= i /\ i < e)
    <3>1. ASSUME InRanges(q, i) PROVE InRanges(out, i) \/ (s <= i /\ i < e)
      <4>1. PICK j \in 1 .. m + 1 : q[j][1] <= i /\ i < q[j][2]
        BY <3>1, <2>2 DEF InRanges
      <4>2. CASE j = m + 1
        BY <4>1, <4>2, <2>1, <2>2
      <4>3. CASE j \in 1 .. m
        BY <4>1, <4>3, <2>2 DEF InRanges, m
      <4>4. QED
        BY <4>2, <4>3, <2>4
    <3>2. ASSUME InRanges(out, i) PROVE InRanges(q, i)
      <4>1. PICK j \in 1 .. m : out[j][1] <= i /\ i < out[j][2]
        BY <3>2 DEF InRanges, m
      <4>2. q[j][1] <= i /\ i < q[j][2] /\ j \in 1 .. Len(q)
        BY <4>1, <2>2, <1>1
      <4>3. QED
        BY <4>2 DEF InRanges
    <3>3. ASSUME s <= i, i < e PROVE InRanges(q, i)
      <4>1. q[m + 1][1] <= i /\ i < q[m + 1][2] /\ m + 1 \in 1 .. Len(q)
        BY <3>3, <2>1, <2>2, <1>1
      <4>2. QED
        BY <4>1 DEF InRanges
    <3>4. QED
      BY <3>1, <3>2, <3>3
  <2>8. QED
    BY <2>2, <2>5, <2>6, <2>7 DEF LieApart, q
<1>5. QED
  BY <1>3, <1>4

ModifiedStep(out, p, a, b, from, to) ==
  LET s == Larger(a, from)
      e == Smaller(b, to)
  IN  IF p.store = "Added" /\ s < e THEN PushRange(out, s, e) ELSE out

\* Pushing a range gives ranges.
LEMMA PushRangeType ==
  ASSUME NEW out \in RangeLists, NEW s \in Nat, NEW e \in Nat
  PROVE  PushRange(out, s, e) \in RangeLists
<1>. DEFINE V == Nat \X Nat
            x == <<s, e>>
            y == <<out[Len(out)][1], e>>
<1>1. out \in Seq(V) /\ x \in V
  BY DEF RangeLists
<1>2. CASE out # <<>> /\ out[Len(out)][2] = s
  <2>1. PushRange(out, s, e) = [out EXCEPT ![Len(out)] = y]
    BY <1>2 DEF PushRange
  <2>2. y \in V
    <3>1. Len(out) \in 1 .. Len(out)
      BY <1>2 DEF RangeLists
    <3>2. out[Len(out)] \in Nat \X Nat
      BY <3>1 DEF RangeLists
    <3>3. QED
      BY <3>2
  <2>3. Len(out) \in 1 .. Len(out) /\ 1 .. Len(out) = DOMAIN out
    BY <1>2 DEF RangeLists
  <2>. HIDE DEF V, y
  <2>4. \A j \in DOMAIN out : out[j] \in V
    BY <1>1
  <2>. DEFINE q == [out EXCEPT ![Len(out)] = y]
  <2>5. q \in [1 .. Len(out) -> V] /\ Len(out) \in Nat
    BY <1>1, <2>2, <2>3, <2>4
  <2>. HIDE DEF q
  <2>6. q \in Seq(V)
    BY <2>5
  <2>7. QED
    BY <2>1, <2>6 DEF RangeLists, V, q
<1>3. CASE ~ (out # <<>> /\ out[Len(out)][2] = s)
  <2>1. PushRange(out, s, e) = Append(out, x)
    BY <1>3 DEF PushRange
  <2>. HIDE DEF V, x
  <2>2. Append(out, x) \in Seq(V)
    BY <1>1
  <2>3. QED
    BY <2>1, <2>2 DEF RangeLists, V
<1>4. QED
  BY <1>2, <1>3

\* One piece of modified_in gives ranges.
LEMMA ModifiedStepType ==
  ASSUME NEW out \in RangeLists, NEW p, NEW a \in Nat, NEW b \in Nat, NEW from \in Nat, NEW to \in Nat
  PROVE  ModifiedStep(out, p, a, b, from, to) \in RangeLists
<1>1. Larger(a, from) \in Nat /\ Smaller(b, to) \in Nat
  BY DEF Larger, Smaller
<1>2. PushRange(out, Larger(a, from), Smaller(b, to)) \in RangeLists
  BY <1>1, PushRangeType
<1>3. QED
  BY <1>2 DEF ModifiedStep

\* modified_in visits the pieces one by one.
LEMMA ModifiedRecursion ==
  ASSUME NEW t \in Seq(Piece), NEW a \in Nat, NEW b \in Nat
  PROVE  \E f \in [0 .. Len(t) -> RangeLists] :
           /\ f[0] = <<>> /\ f[Len(t)] = ModifiedIn(t, a, b)
           /\ \A k \in 1 .. Len(t) :
                f[k] = ModifiedStep(f[k - 1], t[k], a, b, Ends(t)[k - 1], Ends(t)[k])
<1>. DEFINE n == Len(t)
            E == Ends(t)
            C == RangeLists
            step == [x \in C \X (1 .. n) |-> ModifiedStep(x[1], t[x[2]], a, b, E[x[2] - 1], E[x[2]])]
            Body(f) == [k \in 0 .. Len(t) |-> IF k = 0 THEN <<>> ELSE
                                                ModifiedStep(f[k - 1], t[k], a, b, E[k - 1], E[k])]
            e == CHOOSE f : f = Body(f)
<1>1. n \in Nat /\ \A k \in 1 .. n : E[k - 1] \in Nat /\ E[k] \in Nat
  <2>1. n \in Nat /\ \A k \in 0 .. n : E[k] \in Nat
    BY EndsFacts
  <2>2. \A k \in 1 .. n : k \in 0 .. n /\ k - 1 \in 0 .. n
    BY <2>1
  <2>. HIDE DEF n, E
  <2>3. QED
    BY <2>1, <2>2
<1>2. step \in [C \X (1 .. n) -> C]
  <2>1. \A x \in C \X (1 .. n) : x[1] \in C /\ x[2] \in 1 .. n
    OBVIOUS
  <2>. HIDE DEF C, n, E
  <2>2. \A u \in C, k \in 1 .. n : ModifiedStep(u, t[k], a, b, E[k - 1], E[k]) \in C
    BY <1>1, ModifiedStepType DEF C
  <2>3. QED
    BY <2>1, <2>2
<1>3. <<>> \in C
  BY DEF RangeLists
<1>4. PICK r \in [0 .. n -> C] :
        r[0] = <<>> /\ \A i \in 1 .. n : r[i] = step[<<r[i - 1], i>>]
  <2>1. Recursions(C, n, <<>>, step) # {}
    <3>. HIDE DEF step, n, C
    <3>1. QED
      BY <1>1, <1>2, <1>3, RecursionExists, Zenon
  <2>2. QED
    BY <2>1 DEF Recursions
<1>. HIDE DEF C
<1>5. \A i \in 1 .. n : r[i] = ModifiedStep(r[i - 1], t[i], a, b, E[i - 1], E[i])
  <2>1. \A i \in 1 .. n : i - 1 \in 0 .. n
    BY <1>1
  <2>2. \A i \in 1 .. n : <<r[i - 1], i>> \in C \X (1 .. n)
    BY <2>1
  <2>. HIDE DEF E
  <2>3. QED
    BY <2>2, <1>4
<1>6. r = Body(r)
  <2>. HIDE DEF E
  <2>1. QED
    BY <1>4, <1>5
<1>7. e = Body(e)
  <2>. HIDE DEF Body
  <2>1. QED
    BY <1>6
<1>8. ModifiedIn(t, a, b) = e[n]
  BY DEF ModifiedIn, ModifiedStep
<1>. HIDE DEF e
<1>9. e[0] = <<>> /\ \A k \in 1 .. n : e[k] = ModifiedStep(e[k - 1], t[k], a, b, E[k - 1], E[k])
  <2>1. \A k \in 0 .. n : Body(e)[k] = IF k = 0 THEN <<>> ELSE
                                         ModifiedStep(e[k - 1], t[k], a, b, E[k - 1], E[k])
    OBVIOUS
  <2>2. \A k \in 0 .. n : e[k] = IF k = 0 THEN <<>> ELSE
                                   ModifiedStep(e[k - 1], t[k], a, b, E[k - 1], E[k])
    <3>. HIDE DEF Body
    <3>1. QED
      BY <2>1, <1>7
  <2>3. 0 \in 0 .. n /\ \A k \in 1 .. n : k \in 0 .. n /\ k # 0
    BY <1>1
  <2>. HIDE DEF n, E
  <2>4. QED
    BY <2>2, <2>3, Zenon
<1>. DEFINE S == {k \in 0 .. n : e[k] \in C}
<1>10. 0 \in S
  BY <1>1, <1>3, <1>9
<1>11. ASSUME NEW k \in 1 .. n, k - 1 \in S PROVE k \in S
  <2>1. k \in 0 .. n /\ e[k - 1] \in C /\ E[k - 1] \in Nat /\ E[k] \in Nat
    BY <1>1, <1>11
  <2>. HIDE DEF E
  <2>2. ModifiedStep(e[k - 1], t[k], a, b, E[k - 1], E[k]) \in C
    BY <2>1, ModifiedStepType DEF C
  <2>3. QED
    BY <2>1, <2>2, <1>9
<1>12. \A k \in 0 .. n : k \in S
  <2>. HIDE DEF S
  <2>1. QED
    BY <1>1, <1>10, <1>11, PrefixInduction
<1>13. e \in [0 .. n -> C]
  <2>1. \A k \in 0 .. n : e[k] \in C
    BY <1>12
  <2>. HIDE DEF E
  <2>2. QED
    BY <2>1, <1>7
<1>14. QED
  BY <1>8, <1>9, <1>13 DEF C

\* modified_in answers exactly the added positions, as ranges apart.
THEOREM ModifiedExact ==
  ASSUME NEW t \in Seq(Piece), NEW a \in Nat, NEW b \in Nat, b <= TotalLen(t)
  PROVE  /\ ModifiedIn(t, a, b) \in RangeLists /\ LieApart(ModifiedIn(t, a, b))
         /\ \A i \in Nat : InRanges(ModifiedIn(t, a, b), i) <=>
              a <= i /\ i < b /\ Content(t)[i + 1][1] = "Added"
<1>. DEFINE n == Len(t)
            E == Ends(t)
            c == Content(t)
<1>1. /\ n \in Nat /\ E[0] = 0 /\ TotalLen(t) = E[n]
      /\ \A k \in 0 .. n : E[k] \in Nat
      /\ \A k \in 1 .. n : E[k] = E[k - 1] + t[k].len /\ t[k].len \in Nat
      /\ \A k \in 1 .. n : k \in 0 .. n /\ k - 1 \in 0 .. n
  <2>1. n \in Nat
    OBVIOUS
  <2>2. \A k \in 1 .. n : k \in 0 .. n /\ k - 1 \in 0 .. n
    BY <2>1
  <2>3. QED
    BY <2>2, EndsFacts
<1>2. PICK f \in [0 .. n -> RangeLists] :
        /\ f[0] = <<>> /\ f[n] = ModifiedIn(t, a, b)
        /\ \A k \in 1 .. n : f[k] = ModifiedStep(f[k - 1], t[k], a, b, E[k - 1], E[k])
  BY ModifiedRecursion
<1>3. \A k \in 1 .. n : \A i \in 1 .. t[k].len : c[E[k - 1] + i][1] = t[k].store
  <2>1. SUFFICES ASSUME NEW k \in 1 .. n, NEW i \in 1 .. t[k].len
                 PROVE  c[E[k - 1] + i][1] = t[k].store
    OBVIOUS
  <2>2. c[E[k - 1] + i] = <<t[k].store, t[k].offset + i - 1>>
    BY CellAt
  <2>. HIDE DEF n, E, c
  <2>3. QED
    BY <2>2
<1>. HIDE DEF n, E, c
<1>. DEFINE Wanted(i, k) == a <= i /\ i < b /\ i < E[k] /\ c[i + 1][1] = "Added"
            S == {k \in 0 .. n :
                    /\ LieApart(f[k])
                    /\ \A j \in 1 .. Len(f[k]) : f[k][j][2] <= E[k]
                    /\ \A i \in Nat : InRanges(f[k], i) <=> Wanted(i, k)}
<1>4. 0 \in S
  <2>1. Len(f[0]) = 0 /\ 0 \in 0 .. n /\ 0 - 1 \in Int
    BY <1>1, <1>2
  <2>2. 1 .. Len(f[0]) = {} /\ 1 .. Len(f[0]) - 1 = {}
    BY <2>1
  <2>3. \A i \in Nat : ~ Wanted(i, 0)
    BY <1>1
  <2>. HIDE DEF Wanted
  <2>4. QED
    BY <2>1, <2>2, <2>3 DEF LieApart, InRanges
<1>5. ASSUME NEW k \in 1 .. n, k - 1 \in S PROVE k \in S
  <2>. DEFINE o == f[k - 1]
              from == E[k - 1]
              to == E[k]
              s == Larger(a, from)
              e == Smaller(b, to)
              added == t[k].store = "Added" /\ s < e
  <2>1. /\ k \in 0 .. n /\ from \in Nat /\ to \in Nat /\ from <= to
        /\ to = from + t[k].len /\ t[k].len \in Nat
    BY <1>1, SMTT(30)
  <2>2. /\ o \in RangeLists /\ LieApart(o) /\ \A j \in 1 .. Len(o) : o[j][2] <= from
        /\ \A i \in Nat : InRanges(o, i) <=> Wanted(i, k - 1)
    BY <1>1, <1>2, <1>5
  <2>3. f[k] = IF added THEN PushRange(o, s, e) ELSE o
    BY <1>2 DEF ModifiedStep
  <2>4. /\ s \in Nat /\ e \in Nat /\ from <= s /\ e <= to
        /\ \A i \in Nat : s <= i /\ i < e <=> a <= i /\ from <= i /\ i < b /\ i < to
    BY <2>1 DEF Larger, Smaller
  <2>5. \A j \in 1 .. Len(o) : o[j][2] \in Nat
    BY <2>2, SMTT(30) DEF RangeLists
  <2>. DEFINE here(i) == t[k].store = "Added" /\ s <= i /\ i < e
  <2>6. ASSUME NEW i \in Nat PROVE Wanted(i, k) <=> Wanted(i, k - 1) \/ here(i)
    <3>. DEFINE inThis == from <= i /\ i < to
    <3>1. ASSUME inThis PROVE c[i + 1][1] = t[k].store
      <4>. DEFINE j == i + 1 - from
      <4>1. j \in 1 .. t[k].len /\ from + j = i + 1
        BY <3>1, <2>1, SMTT(30)
      <4>. HIDE DEF j
      <4>2. c[from + j][1] = t[k].store
        BY <4>1, <1>3
      <4>3. QED
        BY <4>1, <4>2
    <3>. HIDE DEF from, to, s, e
    <3>2. Wanted(i, k) <=> a <= i /\ i < b /\ i < to /\ c[i + 1][1] = "Added"
      BY DEF to
    <3>3. Wanted(i, k - 1) <=> a <= i /\ i < b /\ i < from /\ c[i + 1][1] = "Added"
      BY DEF from
    <3>. HIDE DEF Wanted
    <3>4. CASE i < from
      <4>1. i < to /\ ~ here(i)
        BY <3>4, <2>1, <2>4
      <4>2. QED
        BY <4>1, <3>2, <3>3, <3>4
    <3>5. CASE from <= i /\ i < to
      <4>1. ~ (i < from) /\ c[i + 1][1] = t[k].store
        BY <3>1, <3>5, <2>1
      <4>2. QED
        BY <4>1, <3>2, <3>3, <3>5, <2>4
    <3>6. CASE to <= i
      <4>1. ~ (i < to) /\ ~ (i < from) /\ ~ here(i)
        BY <3>6, <2>1, <2>4
      <4>2. QED
        BY <4>1, <3>2, <3>3
    <3>7. QED
      BY <3>4, <3>5, <3>6, <2>1
  <2>7. CASE added
    <3>1. \A j \in 1 .. Len(o) : o[j][2] <= s
      <4>. HIDE DEF from, s, o
      <4>1. QED
        BY <2>1, <2>2, <2>4, <2>5
    <3>. DEFINE q == PushRange(o, s, e)
    <3>. HIDE DEF o, from, to, s, e, Wanted
    <3>2. /\ q \in RangeLists /\ LieApart(q)
          /\ \A j \in 1 .. Len(q) : q[j][2] <= e
          /\ \A i \in Nat : InRanges(q, i) <=> InRanges(o, i) \/ (s <= i /\ i < e)
      BY <2>2, <2>4, <2>7, <3>1, PushRangeGood
    <3>. HIDE DEF q
    <3>3. f[k] = q
      BY <2>3, <2>7 DEF q
    <3>4. \A j \in 1 .. Len(q) : q[j][2] <= to
      <4>1. \A j \in 1 .. Len(q) : q[j][2] \in Nat
        BY <3>2 DEF RangeLists
      <4>2. QED
        BY <3>2, <4>1, <2>1, <2>4, SMTT(30)
    <3>5. \A i \in Nat : InRanges(q, i) <=> Wanted(i, k)
      BY <3>2, <2>2, <2>6, <2>7
    <3>6. QED
      BY <3>2, <3>3, <3>4, <3>5, <2>1 DEF to
  <2>8. CASE ~ added
    <3>. HIDE DEF o, from, to, s, e, Wanted
    <3>1. f[k] = o
      BY <2>3, <2>8
    <3>2. \A j \in 1 .. Len(o) : o[j][2] <= to
      BY <2>1, <2>2, <2>5, SMTT(30)
    <3>3. ASSUME NEW i \in Nat PROVE ~ here(i)
      BY <2>4, <2>8
    <3>4. \A i \in Nat : InRanges(o, i) <=> Wanted(i, k)
      BY <2>2, <2>6, <3>3
    <3>5. QED
      BY <2>1, <2>2, <3>1, <3>2, <3>4 DEF to
  <2>9. QED
    BY <2>7, <2>8
<1>6. \A k \in 0 .. n : k \in S
  <2>. HIDE DEF S
  <2>1. QED
    BY <1>1, <1>4, <1>5, PrefixInduction
<1>7. n \in S /\ f[n] \in RangeLists
  BY <1>1, <1>2, <1>6
<1>8. b <= E[n] /\ E[n] \in Nat
  BY <1>1, <1>7
<1>9. \A i \in Nat : Wanted(i, n) <=> a <= i /\ i < b /\ c[i + 1][1] = "Added"
  BY <1>8
<1>10. QED
  BY <1>2, <1>7, <1>9 DEF c

-----------------------------------------------------------------------------
(* The document. *)

Edits(P) == [kind : {"Insert", "Delete"}, offset : Nat, pieces : Seq(P)]

Docs(P) == [size : Nat, table : Seq(P), added : Nat, spilled : BOOLEAN,
            undo : Seq(Seq(Edits(P))), redo : Seq(Seq(Edits(P))),
            savedDepth : Nat \cup {Unreachable}, resizable : BOOLEAN]

Clippable == {P \in SUBSET Piece :
                \A p \in P, ps \in Nat, a \in Nat, b \in Nat : Clip(p, ps, a, b) \in Seq(P)}

\* The non-empty pieces that lie in a source of `size` and an add buffer of
\* `added` bytes.
Stored(size, added) ==
  {p \in Piece : /\ p.len > 0
                 /\ p.offset + p.len <= IF p.store = "Added" THEN added ELSE size}

\* Clipping keeps non-empty pieces inside their stores.
LEMMA StoredIsClippable ==
  ASSUME NEW size \in Nat, NEW added \in Nat
  PROVE  Stored(size, added) \in Clippable
<1>. DEFINE P == Stored(size, added)
<1>1. SUFFICES ASSUME NEW p \in P, NEW ps \in Nat, NEW a \in Nat, NEW b \in Nat
               PROVE  Clip(p, ps, a, b) \in Seq(P)
  BY DEF Clippable, Stored
<1>2. /\ p.len \in Nat /\ p.offset \in Nat /\ p.store \in Store
      /\ p.offset + p.len <= IF p.store = "Added" THEN added ELSE size
  BY DEF Stored, Piece
<1>. DEFINE s == Larger(a, ps)
            e == Smaller(b, ps + p.len)
<1>3. s \in Nat /\ e \in Nat /\ ps <= s /\ e <= ps + p.len
  BY <1>2 DEF Larger, Smaller
<1>4. CASE s < e
  <2>. DEFINE q == [store |-> p.store, offset |-> p.offset + (s - ps), len |-> e - s]
  <2>1. Clip(p, ps, a, b) = <<q>>
    BY <1>4 DEF Clip
  <2>. HIDE DEF s, e
  <2>2. q \in Piece
    BY <1>2, <1>3, <1>4 DEF Piece
  <2>3. q.len > 0 /\ q.store = p.store /\ q.offset + q.len <= p.offset + p.len
    BY <1>2, <1>3, <1>4
  <2>. HIDE DEF q
  <2>4. q.offset + q.len <= IF q.store = "Added" THEN added ELSE size
    BY <1>2, <2>2, <2>3 DEF Piece
  <2>5. q \in P
    BY <2>2, <2>3, <2>4 DEF Stored
  <2>. HIDE DEF P
  <2>6. QED
    BY <2>1, <2>5
<1>5. CASE ~ (s < e)
  BY <1>5 DEF Clip
<1>6. QED
  BY <1>4, <1>5

\* Clipping keeps pieces.
LEMMA PiecesAreClippable == Piece \in Clippable
BY ClipType DEF Clippable

-----------------------------------------------------------------------------
(* The table's operations. *)

\* pieces_in answers with pieces of a set that clipping keeps.
LEMMA PiecesInClosed ==
  ASSUME NEW P \in Clippable, NEW t \in Seq(P), NEW a \in Nat, NEW b \in Nat
  PROVE  PiecesIn(t, a, b) \in Seq(P)
<1>1. P \in SUBSET Piece /\ \A p \in P, ps \in Nat : Clip(p, ps, a, b) \in Seq(P)
  BY DEF Clippable
<1>2. QED
  BY <1>1, PiecesRecursion

\* The length of a table is a number.
LEMMA TotalIsNat ==
  ASSUME NEW P \in Clippable, NEW t \in Seq(P)
  PROVE  TotalLen(t) \in Nat
<1>1. P \in SUBSET Piece
  BY DEF Clippable
<1>2. t \in Seq(Piece)
  BY <1>1, SeqMonotonicInElements
<1>3. QED
  BY <1>2, ContentLength

\* splice keeps the pieces in a set that clipping keeps.
LEMMA SpliceClosed ==
  ASSUME NEW P \in Clippable, NEW t \in Seq(P), NEW offset \in Nat, NEW new \in Seq(P)
  PROVE  Splice(t, offset, new) \in Seq(P)
<1>1. TotalLen(t) \in Nat /\ TotalLen(new) \in Nat
  BY TotalIsNat
<1>2. /\ PiecesIn(t, 0, offset) \in Seq(P)
      /\ NonEmpty(new) \in Seq(P)
      /\ PiecesIn(t, offset, TotalLen(t)) \in Seq(P)
  BY <1>1, PiecesInClosed DEF NonEmpty
<1>3. QED
  BY <1>2 DEF Splice

\* delete likewise, and what it answers with.
LEMMA RemoveClosed ==
  ASSUME NEW P \in Clippable, NEW t \in Seq(P), NEW offset \in Nat, NEW n \in Nat
  PROVE  Remove(t, offset, n) \in Seq(P) /\ Removed(t, offset, n) \in Seq(P)
<1>1. TotalLen(t) \in Nat /\ offset + n \in Nat
  BY TotalIsNat
<1>2. /\ PiecesIn(t, 0, offset) \in Seq(P)
      /\ PiecesIn(t, offset + n, TotalLen(t)) \in Seq(P)
      /\ PiecesIn(t, offset, offset + n) \in Seq(P)
  BY <1>1, PiecesInClosed
<1>3. QED
  BY <1>2 DEF Remove, Removed

\* Applying or reverting an edit likewise.
LEMMA EditClosed ==
  ASSUME NEW P \in Clippable, NEW t \in Seq(P), NEW e \in Edits(P)
  PROVE  Apply(t, e) \in Seq(P) /\ Revert(t, e) \in Seq(P)
<1>1. e.offset \in Nat /\ e.pieces \in Seq(P)
  BY DEF Edits
<1>2. TotalLen(e.pieces) \in Nat
  BY <1>1, TotalIsNat
<1>3. QED
  BY <1>1, <1>2, SpliceClosed, RemoveClosed DEF Apply, Revert

\* The tables a redo goes through.
LEMMA AppliedClosed ==
  ASSUME NEW P \in Clippable, NEW t \in Seq(P), NEW tx \in Seq(Edits(P))
  PROVE  /\ AppliedUpTo(t, tx) \in [0 .. Len(tx) -> Seq(P)]
         /\ AppliedUpTo(t, tx)[0] = t
         /\ \A k \in 1 .. Len(tx) :
              AppliedUpTo(t, tx)[k] = Apply(AppliedUpTo(t, tx)[k - 1], tx[k])
<1>. DEFINE n == Len(tx)
            C == Seq(P)
            step == [x \in C \X (1 .. n) |-> Apply(x[1], tx[x[2]])]
            Body(f) == [k \in 0 .. Len(tx) |-> IF k = 0 THEN t ELSE Apply(f[k - 1], tx[k])]
            e == AppliedUpTo(t, tx)
<1>0. n \in Nat /\ \A k \in 1 .. n : tx[k] \in Edits(P)
  <2>1. n \in Nat /\ \A k \in 1 .. n : tx[k] \in Edits(P)
    OBVIOUS
  <2>2. \A k \in 1 .. n : Len(tx) + 1 - k \in 1 .. n
    BY <2>1
  <2>3. QED
    BY <2>1, <2>2
<1>1. \A u \in C, k \in 1 .. n : Apply(u, tx[k]) \in C
  <2>. HIDE DEF n
  <2>1. QED
    BY <1>0, EditClosed
<1>2. step \in [C \X (1 .. n) -> C]
  <2>1. \A x \in C \X (1 .. n) : x[1] \in C /\ x[2] \in 1 .. n
    OBVIOUS
  <2>. HIDE DEF C, n
  <2>2. QED
    BY <1>1, <2>1
<1>3. PICK r \in [0 .. n -> C] :
        r[0] = t /\ \A i \in 1 .. n : r[i] = step[<<r[i - 1], i>>]
  <2>1. t \in C
    OBVIOUS
  <2>2. Recursions(C, n, t, step) # {}
    <3>. HIDE DEF step, n, C
    <3>1. QED
      BY <1>0, <1>2, <2>1, RecursionExists, Zenon
  <2>3. QED
    BY <2>2 DEF Recursions
<1>4. r[0] = t /\ \A k \in 1 .. n : r[k] = Apply(r[k - 1], tx[k])
  <2>. HIDE DEF C
  <2>1. \A k \in 1 .. n : k - 1 \in 0 .. n
    BY <1>0
  <2>2. \A k \in 1 .. n : <<r[k - 1], k>> \in C \X (1 .. n)
    BY <2>1
  <2>. HIDE DEF n
  <2>3. QED
    BY <2>2, <1>3
<1>5. r = Body(r)
  <2>1. \A k \in 0 .. n : k # 0 => k \in 1 .. n
    BY <1>0
  <2>. HIDE DEF C
  <2>2. \A k \in 0 .. n : r[k] = IF k = 0 THEN t ELSE Apply(r[k - 1], tx[k])
    BY <2>1, <1>4, Zenon
  <2>3. QED
    BY <2>2
<1>6. e = CHOOSE f : f = Body(f)
  BY DEF AppliedUpTo
<1>7. e = Body(e)
  <2>. HIDE DEF Body, e
  <2>1. QED
    BY <1>5, <1>6
<1>. HIDE DEF e
<1>8. \A k \in 0 .. n : e[k] = IF k = 0 THEN t ELSE Apply(e[k - 1], tx[k])
  <2>1. \A k \in 0 .. n : Body(e)[k] = IF k = 0 THEN t ELSE Apply(e[k - 1], tx[k])
    OBVIOUS
  <2>. HIDE DEF Body
  <2>2. QED
    BY <1>7, <2>1
<1>9. e[0] = t /\ \A k \in 1 .. n : e[k] = Apply(e[k - 1], tx[k])
  <2>1. 0 \in 0 .. n /\ \A k \in 1 .. n : k \in 0 .. n /\ k # 0
    BY <1>0
  <2>. HIDE DEF n
  <2>2. QED
    BY <1>8, <2>1, Zenon
<1>10. \A k \in 0 .. n : e[k] \in C
  <2>. DEFINE S == {k \in 0 .. n : e[k] \in C}
  <2>1. 0 \in S
    BY <1>9, <1>0
  <2>2. ASSUME NEW k \in 1 .. n, k - 1 \in S PROVE k \in S
    <3>. HIDE DEF C
    <3>1. k \in 0 .. n /\ e[k - 1] \in C
      BY <2>2, <1>0
    <3>2. e[k] \in C
      BY <3>1, <1>1, <1>9
    <3>3. QED
      BY <3>1, <3>2
  <2>. HIDE DEF S, n
  <2>3. \A k \in 0 .. n : k \in S
    BY <2>1, <2>2, <1>0, PrefixInduction
  <2>4. QED
    BY <2>3 DEF S
<1>11. e \in [0 .. n -> C]
  <2>. HIDE DEF C
  <2>1. QED
    BY <1>7, <1>10
<1>12. QED
  BY <1>9, <1>11 DEF e

\* The tables an undo goes through.
LEMMA RevertedClosed ==
  ASSUME NEW P \in Clippable, NEW t \in Seq(P), NEW tx \in Seq(Edits(P))
  PROVE  /\ RevertedUpTo(t, tx) \in [0 .. Len(tx) -> Seq(P)]
         /\ RevertedUpTo(t, tx)[0] = t
         /\ \A k \in 1 .. Len(tx) :
              RevertedUpTo(t, tx)[k] = Revert(RevertedUpTo(t, tx)[k - 1], tx[Len(tx) + 1 - k])
<1>. DEFINE n == Len(tx)
            C == Seq(P)
            step == [x \in C \X (1 .. n) |-> Revert(x[1], tx[Len(tx) + 1 - x[2]])]
            Body(f) == [k \in 0 .. Len(tx) |-> IF k = 0 THEN t ELSE Revert(f[k - 1], tx[Len(tx) + 1 - k])]
            e == RevertedUpTo(t, tx)
<1>0. n \in Nat /\ \A k \in 1 .. n : tx[Len(tx) + 1 - k] \in Edits(P)
  <2>1. n \in Nat /\ \A k \in 1 .. n : tx[k] \in Edits(P)
    OBVIOUS
  <2>2. \A k \in 1 .. n : Len(tx) + 1 - k \in 1 .. n
    BY <2>1
  <2>3. QED
    BY <2>1, <2>2
<1>1. \A u \in C, k \in 1 .. n : Revert(u, tx[Len(tx) + 1 - k]) \in C
  <2>. HIDE DEF n
  <2>1. QED
    BY <1>0, EditClosed
<1>2. step \in [C \X (1 .. n) -> C]
  <2>1. \A x \in C \X (1 .. n) : x[1] \in C /\ x[2] \in 1 .. n
    OBVIOUS
  <2>. HIDE DEF C, n
  <2>2. QED
    BY <1>1, <2>1
<1>3. PICK r \in [0 .. n -> C] :
        r[0] = t /\ \A i \in 1 .. n : r[i] = step[<<r[i - 1], i>>]
  <2>1. t \in C
    OBVIOUS
  <2>2. Recursions(C, n, t, step) # {}
    <3>. HIDE DEF step, n, C
    <3>1. QED
      BY <1>0, <1>2, <2>1, RecursionExists, Zenon
  <2>3. QED
    BY <2>2 DEF Recursions
<1>4. r[0] = t /\ \A k \in 1 .. n : r[k] = Revert(r[k - 1], tx[Len(tx) + 1 - k])
  <2>. HIDE DEF C
  <2>1. \A k \in 1 .. n : k - 1 \in 0 .. n
    BY <1>0
  <2>2. \A k \in 1 .. n : <<r[k - 1], k>> \in C \X (1 .. n)
    BY <2>1
  <2>. HIDE DEF n
  <2>3. QED
    BY <2>2, <1>3
<1>5. r = Body(r)
  <2>1. \A k \in 0 .. n : k # 0 => k \in 1 .. n
    BY <1>0
  <2>. HIDE DEF C
  <2>2. \A k \in 0 .. n : r[k] = IF k = 0 THEN t ELSE Revert(r[k - 1], tx[Len(tx) + 1 - k])
    BY <2>1, <1>4, Zenon
  <2>3. QED
    BY <2>2
<1>6. e = CHOOSE f : f = Body(f)
  BY DEF RevertedUpTo
<1>7. e = Body(e)
  <2>. HIDE DEF Body, e
  <2>1. QED
    BY <1>5, <1>6
<1>. HIDE DEF e
<1>8. \A k \in 0 .. n : e[k] = IF k = 0 THEN t ELSE Revert(e[k - 1], tx[Len(tx) + 1 - k])
  <2>1. \A k \in 0 .. n : Body(e)[k] = IF k = 0 THEN t ELSE Revert(e[k - 1], tx[Len(tx) + 1 - k])
    OBVIOUS
  <2>. HIDE DEF Body
  <2>2. QED
    BY <1>7, <2>1
<1>9. e[0] = t /\ \A k \in 1 .. n : e[k] = Revert(e[k - 1], tx[Len(tx) + 1 - k])
  <2>1. 0 \in 0 .. n /\ \A k \in 1 .. n : k \in 0 .. n /\ k # 0
    BY <1>0
  <2>. HIDE DEF n
  <2>2. QED
    BY <1>8, <2>1, Zenon
<1>10. \A k \in 0 .. n : e[k] \in C
  <2>. DEFINE S == {k \in 0 .. n : e[k] \in C}
  <2>1. 0 \in S
    BY <1>9, <1>0
  <2>2. ASSUME NEW k \in 1 .. n, k - 1 \in S PROVE k \in S
    <3>. HIDE DEF C
    <3>1. k \in 0 .. n /\ e[k - 1] \in C
      BY <2>2, <1>0
    <3>2. e[k] \in C
      BY <3>1, <1>1, <1>9
    <3>3. QED
      BY <3>1, <3>2
  <2>. HIDE DEF S, n
  <2>3. \A k \in 0 .. n : k \in S
    BY <2>1, <2>2, <1>0, PrefixInduction
  <2>4. QED
    BY <2>3 DEF S
<1>11. e \in [0 .. n -> C]
  <2>. HIDE DEF C
  <2>1. QED
    BY <1>7, <1>10
<1>12. QED
  BY <1>9, <1>11 DEF e

-----------------------------------------------------------------------------
(* The document's operations keep it in Docs(P). *)

\* Sequences over a smaller set are sequences over a larger one.
LEMMA SeqMono ==
  ASSUME NEW A, NEW B, A \subseteq B
  PROVE  Seq(A) \subseteq Seq(B)
OBVIOUS

\* Documents of pieces of a smaller set are documents of a larger one.
LEMMA DocsMono ==
  ASSUME NEW P, NEW Q, P \subseteq Q
  PROVE  Docs(P) \subseteq Docs(Q)
<1>1. Seq(P) \subseteq Seq(Q)
  BY SeqMono
<1>2. Edits(P) \subseteq Edits(Q)
  BY <1>1 DEF Edits
<1>3. Seq(Seq(Edits(P))) \subseteq Seq(Seq(Edits(Q)))
  BY <1>2, SeqMono
<1>4. QED
  BY <1>1, <1>3 DEF Docs

\* commit keeps the type of the document.
LEMMA CommitClosed ==
  ASSUME NEW P, NEW d \in Docs(P), NEW tx \in Seq(Edits(P))
  PROVE  /\ Commit(d, tx) \in Docs(P)
         /\ Commit(d, tx).size = d.size /\ Commit(d, tx).added = d.added
<1>. DEFINE T == Seq(Edits(P))
<1>1. d.undo \in Seq(T) /\ d.savedDepth \in Nat \cup {Unreachable}
  BY DEF Docs
<1>2. Append(d.undo, tx) \in Seq(T) /\ <<>> \in Seq(T)
  BY <1>1
<1>3. (IF d.savedDepth > Len(d.undo) + 1 THEN Unreachable ELSE d.savedDepth)
         \in Nat \cup {Unreachable}
  BY <1>1
<1>4. QED
  BY <1>2, <1>3 DEF Commit, Docs

\* The documents whose pieces all lie in their stores.
GoodDocs == {d \in Docs(Piece) : d \in Docs(Stored(d.size, d.added))}

\* A document whose pieces lie in its stores is good.
LEMMA GoodDoc ==
  ASSUME NEW size \in Nat, NEW added \in Nat, NEW d \in Docs(Stored(size, added)),
         d.size = size, d.added = added
  PROVE  d \in GoodDocs
<1>1. Stored(size, added) \subseteq Piece
  BY DEF Stored
<1>2. d \in Docs(Piece)
  BY <1>1, DocsMono
<1>3. QED
  BY <1>2 DEF GoodDocs

\* The fields of a good document.
LEMMA GoodDocFields ==
  ASSUME NEW d \in GoodDocs
  PROVE  /\ d.size \in Nat /\ d.added \in Nat /\ Length(d) \in Nat
         /\ d \in Docs(Stored(d.size, d.added))
         /\ Stored(d.size, d.added) \in Clippable
         /\ d.table \in Seq(Stored(d.size, d.added)) /\ d.table \in Seq(Piece)
         /\ d.undo \in Seq(Seq(Edits(Stored(d.size, d.added))))
         /\ d.redo \in Seq(Seq(Edits(Stored(d.size, d.added))))
         /\ d.spilled \in BOOLEAN /\ d.savedDepth \in Nat \cup {Unreachable}
<1>1. d \in Docs(Stored(d.size, d.added)) /\ d \in Docs(Piece)
  BY DEF GoodDocs
<1>2. d.size \in Nat /\ d.added \in Nat /\ d.table \in Seq(Piece)
  BY <1>1 DEF Docs
<1>3. Length(d) \in Nat
  BY <1>2, ContentLength DEF Length
<1>4. QED
  BY <1>1, <1>2, <1>3, StoredIsClippable DEF Docs

\* What is appended lies in the longer add buffer.
LEMMA AppendedGood ==
  ASSUME NEW d \in GoodDocs, NEW n \in Nat
  PROVE  /\ Appended(d, n) \in Docs(Stored(d.size, d.added + n))
         /\ Appended(d, n).size = d.size /\ Appended(d, n).added = d.added + n
         /\ Appended(d, n).table = d.table
         /\ n > 0 => AddedPiece(d, n) \in Stored(d.size, d.added + n)
         /\ Stored(d.size, d.added) \subseteq Stored(d.size, d.added + n)
<1>1. /\ d.size \in Nat /\ d.added \in Nat /\ d.added + n \in Nat
      /\ d \in Docs(Stored(d.size, d.added))
  BY GoodDocFields
<1>2. Stored(d.size, d.added) \subseteq Stored(d.size, d.added + n)
  <2>1. SUFFICES ASSUME NEW p \in Stored(d.size, d.added)
                 PROVE  p \in Stored(d.size, d.added + n)
    OBVIOUS
  <2>2. p \in Piece /\ p.offset \in Nat /\ p.len \in Nat
    BY DEF Stored, Piece
  <2>3. QED
    BY <1>1, <2>2 DEF Stored
<1>3. d \in Docs(Stored(d.size, d.added + n))
  BY <1>1, <1>2, DocsMono
<1>4. Spills(d, n) \in BOOLEAN
  BY <1>1 DEF Spills, Docs
<1>5. Appended(d, n) \in Docs(Stored(d.size, d.added + n))
  BY <1>1, <1>3, <1>4 DEF Appended, Docs
<1>6. /\ Appended(d, n).size = d.size /\ Appended(d, n).added = d.added + n
      /\ Appended(d, n).table = d.table
  BY <1>1 DEF Appended, Docs
<1>7. n > 0 => AddedPiece(d, n) \in Stored(d.size, d.added + n)
  BY <1>1 DEF AddedPiece, Stored, Piece, Store
<1>8. QED
  BY <1>2, <1>5, <1>6, <1>7

\* A refused append keeps the document good.
LEMMA AppendFailuresGood ==
  ASSUME NEW d \in GoodDocs, NEW n \in Nat, NEW f \in AppendFailures(d, n)
  PROVE  f \in GoodDocs
<1>1. PICK s \in {d.spilled, TRUE} : f = [d EXCEPT !.spilled = s]
  BY DEF AppendFailures
<1>2. d.spilled \in BOOLEAN /\ d \in Docs(Stored(d.size, d.added)) /\ d.size \in Nat /\ d.added \in Nat
  BY GoodDocFields
<1>3. f \in Docs(Stored(d.size, d.added)) /\ f.size = d.size /\ f.added = d.added
  BY <1>1, <1>2 DEF Docs
<1>4. QED
  BY <1>2, <1>3, GoodDoc

\* A table may be replaced by any other over the same stores.
LEMMA TableReplaced ==
  ASSUME NEW P, NEW d \in Docs(P), NEW t \in Seq(P)
  PROVE  /\ [d EXCEPT !.table = t] \in Docs(P)
         /\ [d EXCEPT !.table = t].size = d.size
         /\ [d EXCEPT !.table = t].added = d.added
BY DEF Docs

\* The common end of insert and overwrite: append n bytes, put them at the
\* offset, commit what was covered followed by the insertion.
LEMMA AppendedInsertGood ==
  ASSUME NEW d \in GoodDocs, NEW offset \in Nat, NEW n \in Nat \ {0},
         NEW covered \in Seq(Edits(Stored(d.size, d.added)))
  PROVE  LET e == InsertEdit(offset, <<AddedPiece(d, n)>>)
         IN  Commit([Appended(d, n) EXCEPT !.table = Apply(@, e)], Append(covered, e)) \in GoodDocs
<1>. DEFINE e == InsertEdit(offset, <<AddedPiece(d, n)>>)
            P == Stored(d.size, d.added + n)
            g == Appended(d, n)
            h == [g EXCEPT !.table = Apply(@, e)]
<1>1. /\ g \in Docs(P) /\ g.size = d.size /\ g.added = d.added + n /\ g.table = d.table
      /\ AddedPiece(d, n) \in P /\ Stored(d.size, d.added) \subseteq P
  BY AppendedGood, SMTT(20)
<1>2. d.size \in Nat /\ d.added + n \in Nat
  BY GoodDocFields
<1>3. P \in Clippable
  BY <1>2, StoredIsClippable
<1>. HIDE DEF P, g
<1>4. e \in Edits(P)
  BY <1>1 DEF InsertEdit, Edits
<1>5. covered \in Seq(Edits(P))
  <2>1. Seq(Stored(d.size, d.added)) \subseteq Seq(P)
    BY <1>1, SeqMono
  <2>2. Edits(Stored(d.size, d.added)) \subseteq Edits(P)
    BY <2>1 DEF Edits
  <2>3. QED
    BY <2>2, SeqMono
<1>. HIDE DEF e
<1>6. g.table \in Seq(P)
  BY <1>1 DEF Docs
<1>7. Apply(g.table, e) \in Seq(P)
  BY <1>3, <1>4, <1>6, EditClosed
<1>8. h \in Docs(P) /\ h.size = d.size /\ h.added = d.added + n
  BY <1>1, <1>7, TableReplaced
<1>. HIDE DEF h
<1>9. Append(covered, e) \in Seq(Edits(P))
  BY <1>4, <1>5
<1>10. /\ Commit(h, Append(covered, e)) \in Docs(P)
       /\ Commit(h, Append(covered, e)).size = d.size
       /\ Commit(h, Append(covered, e)).added = d.added + n
  BY <1>8, <1>9, CommitClosed
<1>11. Commit(h, Append(covered, e)) \in GoodDocs
  BY <1>10, <1>2, GoodDoc DEF P
<1>12. QED
  BY <1>11 DEF h, g, e

\* insert keeps the document good.
LEMMA InsertGood ==
  ASSUME NEW d \in GoodDocs, NEW offset \in Nat, NEW n \in Nat \ {0}
  PROVE  Insert(d, offset, n) \in GoodDocs
<1>. DEFINE e == InsertEdit(offset, <<AddedPiece(d, n)>>)
<1>1. <<>> \in Seq(Edits(Stored(d.size, d.added))) /\ Append(<<>>, e) = <<e>>
  OBVIOUS
<1>2. Commit([Appended(d, n) EXCEPT !.table = Apply(@, e)], Append(<<>>, e)) \in GoodDocs
  BY <1>1, AppendedInsertGood
<1>3. QED
  BY <1>1, <1>2 DEF Insert

\* Taking a range out of the table keeps it good.
LEMMA RemoveGood ==
  ASSUME NEW d \in GoodDocs, NEW offset \in Nat, NEW n \in Nat
  PROVE  /\ [d EXCEPT !.table = Remove(@, offset, n)] \in GoodDocs
         /\ [d EXCEPT !.table = Remove(@, offset, n)].size = d.size
         /\ [d EXCEPT !.table = Remove(@, offset, n)].added = d.added
         /\ DeleteEdit(offset, Removed(d.table, offset, n)) \in Edits(Stored(d.size, d.added))
<1>. DEFINE P == Stored(d.size, d.added)
            g == [d EXCEPT !.table = Remove(@, offset, n)]
<1>1. /\ d \in Docs(P) /\ d.table \in Seq(P) /\ P \in Clippable
      /\ d.size \in Nat /\ d.added \in Nat
  BY GoodDocFields
<1>2. Remove(d.table, offset, n) \in Seq(P) /\ Removed(d.table, offset, n) \in Seq(P)
  <2>. HIDE DEF P
  <2>1. QED
    BY <1>1, RemoveClosed
<1>3. g \in Docs(P) /\ g.size = d.size /\ g.added = d.added
  BY <1>1, <1>2, TableReplaced
<1>4. g \in GoodDocs
  BY <1>1, <1>3, GoodDoc
<1>5. DeleteEdit(offset, Removed(d.table, offset, n)) \in Edits(P)
  BY <1>2 DEF DeleteEdit, Edits
<1>6. QED
  BY <1>3, <1>4, <1>5

\* delete keeps the document good.
LEMMA DeleteGood ==
  ASSUME NEW d \in GoodDocs, NEW offset \in Nat, NEW n \in Nat
  PROVE  Delete(d, offset, n) \in GoodDocs
<1>. DEFINE P == Stored(d.size, d.added)
            g == [d EXCEPT !.table = Remove(@, offset, n)]
            e == DeleteEdit(offset, Removed(d.table, offset, n))
<1>1. g \in GoodDocs /\ g.size = d.size /\ g.added = d.added /\ e \in Edits(P)
  BY RemoveGood
<1>. HIDE DEF g, e
<1>2. g \in Docs(P) /\ <<e>> \in Seq(Edits(P)) /\ d.size \in Nat /\ d.added \in Nat
  BY <1>1, GoodDocFields
<1>3. /\ Commit(g, <<e>>) \in Docs(P)
      /\ Commit(g, <<e>>).size = d.size /\ Commit(g, <<e>>).added = d.added
  BY <1>1, <1>2, CommitClosed
<1>4. Commit(g, <<e>>) \in GoodDocs
  BY <1>2, <1>3, GoodDoc
<1>5. QED
  BY <1>4 DEF Delete, g, e

\* The first half of an overwrite, which a failing second half leaves behind.
LEMMA UncoveredGood ==
  ASSUME NEW d \in GoodDocs, NEW offset \in Nat, NEW n \in Nat
  PROVE  /\ Uncovered(d, offset, n) \in GoodDocs
         /\ Uncovered(d, offset, n).size = d.size /\ Uncovered(d, offset, n).added = d.added
         /\ Covered(d, offset, n) \in Seq(Edits(Stored(d.size, d.added)))
<1>1. CASE Overlap(d, offset, n) > 0
  <2>. DEFINE m == Overlap(d, offset, n)
  <2>1. m \in Nat
    <3>1. Length(d) \in Nat
      BY GoodDocFields
    <3>2. QED
      BY <3>1, <1>1 DEF Overlap, Smaller
  <2>. HIDE DEF m
  <2>2. /\ [d EXCEPT !.table = Remove(@, offset, m)] \in GoodDocs
        /\ [d EXCEPT !.table = Remove(@, offset, m)].size = d.size
        /\ [d EXCEPT !.table = Remove(@, offset, m)].added = d.added
        /\ DeleteEdit(offset, Removed(d.table, offset, m)) \in Edits(Stored(d.size, d.added))
    BY <2>1, RemoveGood
  <2>3. /\ Uncovered(d, offset, n) = [d EXCEPT !.table = Remove(@, offset, m)]
        /\ Covered(d, offset, n) = <<DeleteEdit(offset, Removed(d.table, offset, m))>>
    BY <1>1 DEF Uncovered, Covered, m
  <2>4. QED
    BY <2>2, <2>3
<1>2. CASE ~ (Overlap(d, offset, n) > 0)
  BY <1>2 DEF Uncovered, Covered
<1>3. QED
  BY <1>1, <1>2

\* overwrite keeps the document good.
LEMMA OverwriteGood ==
  ASSUME NEW d \in GoodDocs, NEW offset \in Nat, NEW n \in Nat \ {0}
  PROVE  Overwrite(d, offset, n) \in GoodDocs
<1>. DEFINE g == Uncovered(d, offset, n)
            c == Covered(d, offset, n)
            e == InsertEdit(offset, <<AddedPiece(g, n)>>)
<1>1. /\ g \in GoodDocs /\ g.size = d.size /\ g.added = d.added
      /\ c \in Seq(Edits(Stored(g.size, g.added)))
  BY UncoveredGood
<1>2. AddedPiece(g, n) = AddedPiece(d, n)
  BY <1>1 DEF AddedPiece
<1>. HIDE DEF g, c
<1>3. Commit([Appended(g, n) EXCEPT !.table = Apply(@, e)], Append(c, e)) \in GoodDocs
  BY <1>1, AppendedInsertGood
<1>4. QED
  BY <1>2, <1>3 DEF Overwrite, g, c

\* An overwrite whose append fails keeps the document good.
LEMMA FailedOverwriteGood ==
  ASSUME NEW d \in GoodDocs, NEW offset \in Nat, NEW n \in Nat,
         NEW f \in FailedOverwrites(d, offset, n)
  PROVE  f \in GoodDocs
<1>1. Uncovered(d, offset, n) \in GoodDocs
  BY UncoveredGood
<1>2. QED
  BY <1>1, AppendFailuresGood DEF FailedOverwrites

\* merge_with_previous keeps the document good.
LEMMA MergeGood ==
  ASSUME NEW d \in GoodDocs
  PROVE  MergeWithPrevious(d) \in GoodDocs
<1>. DEFINE P == Stored(d.size, d.added)
            T == Seq(Edits(P))
            m == Len(d.undo) - 1
            u == Append(SubSeq(d.undo, 1, m - 1), d.undo[m] \o d.undo[m + 1])
            s == CASE d.savedDepth = m     -> Unreachable
                   [] d.savedDepth = m + 1 -> m
                   [] OTHER                -> d.savedDepth
<1>1. /\ d \in Docs(P) /\ d.undo \in Seq(T) /\ d.savedDepth \in Nat \cup {Unreachable}
      /\ d.size \in Nat /\ d.added \in Nat
  BY GoodDocFields
<1>2. CASE Len(d.undo) >= 2
  <2>. HIDE DEF P
  <2>1. /\ m \in Nat /\ m - 1 \in Int /\ m \in 1 .. Len(d.undo) /\ m + 1 \in 1 .. Len(d.undo)
        /\ \A i \in 1 .. m - 1 : i \in 1 .. Len(d.undo)
    BY <1>1, <1>2
  <2>2. d.undo[m] \in T /\ d.undo[m + 1] \in T /\ \A i \in 1 .. m - 1 : d.undo[i] \in T
    <3>. HIDE DEF T, m
    <3>1. QED
      BY <2>1, <1>1
  <2>3. d.undo[m] \o d.undo[m + 1] \in T
    <3>. HIDE DEF m
    <3>1. QED
      BY <2>2
  <2>4. SubSeq(d.undo, 1, m - 1) \in Seq(T)
    <3>. HIDE DEF T, m
    <3>1. QED
      BY <2>1, <2>2, SubSeqProperties, SMTT(30)
  <2>5. u \in Seq(T)
    <3>. HIDE DEF T, m
    <3>1. QED
      BY <2>3, <2>4
  <2>6. s \in Nat \cup {Unreachable}
    <3>. HIDE DEF m
    <3>1. QED
      BY <1>1, <2>1
  <2>7. MergeWithPrevious(d) = [d EXCEPT !.undo = u, !.savedDepth = s]
    BY <1>2 DEF MergeWithPrevious, MayMerge
  <2>. HIDE DEF u, s
  <2>8. /\ MergeWithPrevious(d) \in Docs(P) /\ MergeWithPrevious(d).size = d.size
        /\ MergeWithPrevious(d).added = d.added
    BY <1>1, <2>5, <2>6, <2>7 DEF Docs
  <2>9. QED
    BY <1>1, <2>8, GoodDoc DEF P
<1>3. CASE ~ (Len(d.undo) >= 2)
  BY <1>3 DEF MergeWithPrevious, MayMerge
<1>4. QED
  BY <1>2, <1>3

-----------------------------------------------------------------------------
(* Fill: chunk after chunk, none of them empty. *)

\* What rounding down loses.
LEMMA DivBounds ==
  ASSUME NEW a \in Nat, NEW b \in Nat \ {0}
  PROVE  (a \div b) \in Nat /\ (a \div b) * b <= a
OBVIOUS

\* A chunk that is not past the last one starts before the end.
LEMMA BeforeTheEnd ==
  ASSUME NEW k \in Nat, NEW c \in Nat, NEW b \in Nat \ {0}, k < c,
         NEW n \in Nat, c * b <= n + b - 1
  PROVE  n - k * b > 0 /\ k * b \in Nat
OBVIOUS

\* The chunks of a fill are not empty, and lie in what is filled.
LEMMA ChunkBounds ==
  ASSUME NEW n \in Nat \ {0}
  PROVE  /\ Chunks(n) \in Nat
         /\ \A k \in 0 .. Chunks(n) - 1 :
              k * FillChunk \in Nat /\ ChunkLen(n, k) \in Nat \ {0}
<1>1. FillChunk \in Nat \ {0} /\ n + FillChunk - 1 \in Nat
  BY FillChunkAssumption
<1>2. Chunks(n) \in Nat /\ Chunks(n) * FillChunk <= n + FillChunk - 1
  BY <1>1, DivBounds DEF Chunks
<1>3. ASSUME NEW k \in 0 .. Chunks(n) - 1
      PROVE  k * FillChunk \in Nat /\ ChunkLen(n, k) \in Nat \ {0}
  <2>1. k \in Nat /\ k < Chunks(n)
    BY <1>2
  <2>2. n - k * FillChunk > 0 /\ k * FillChunk \in Nat
    BY <1>1, <1>2, <2>1, BeforeTheEnd
  <2>. DEFINE x == k * FillChunk
  <2>. HIDE DEF x
  <2>3. Smaller(n - x, FillChunk) \in Nat \ {0}
    BY <1>1, <2>2 DEF Smaller, x
  <2>4. QED
    BY <2>2, <2>3 DEF ChunkLen, x
<1>4. QED
  BY <1>2, <1>3

FillStep(d, offset, n, k) ==
  LET o == Overwrite(d, offset + (k - 1) * FillChunk, ChunkLen(n, k - 1))
  IN  IF k > 1 THEN MergeWithPrevious(o) ELSE o

\* One chunk of a fill keeps the document good.
LEMMA FillStepGood ==
  ASSUME NEW d \in GoodDocs, NEW offset \in Nat, NEW n \in Nat \ {0}, NEW k \in 1 .. Chunks(n)
  PROVE  FillStep(d, offset, n, k) \in GoodDocs
<1>. DEFINE o == Overwrite(d, offset + (k - 1) * FillChunk, ChunkLen(n, k - 1))
<1>1. k - 1 \in 0 .. Chunks(n) - 1
  BY ChunkBounds
<1>2. (k - 1) * FillChunk \in Nat /\ ChunkLen(n, k - 1) \in Nat \ {0}
  BY <1>1, ChunkBounds
<1>3. offset + (k - 1) * FillChunk \in Nat
  BY <1>2
<1>4. o \in GoodDocs
  BY <1>2, <1>3, OverwriteGood
<1>5. QED
  BY <1>4, MergeGood DEF FillStep

\* The documents of a fill stay in any set that one chunk cannot leave.
LEMMA FillRecursion ==
  ASSUME NEW C, NEW d \in C, NEW offset, NEW n \in Nat \ {0},
         \A g \in C, k \in 1 .. Chunks(n) : FillStep(g, offset, n, k) \in C
  PROVE  /\ \A k \in 0 .. Chunks(n) : FilledUpTo(d, offset, n)[k] \in C
         /\ FilledUpTo(d, offset, n)[0] = d
         /\ \A k \in 1 .. Chunks(n) : FilledUpTo(d, offset, n)[k] =
              FillStep(FilledUpTo(d, offset, n)[k - 1], offset, n, k)
<1>. DEFINE c == Chunks(n)
            step == [x \in C \X (1 .. c) |-> FillStep(x[1], offset, n, x[2])]
            Body(f) == [k \in 0 .. c |-> IF k = 0 THEN d ELSE FillStep(f[k - 1], offset, n, k)]
            e == FilledUpTo(d, offset, n)
<1>1. c \in Nat /\ \A g \in C, k \in 1 .. c : FillStep(g, offset, n, k) \in C
  BY ChunkBounds
<1>. HIDE DEF c
<1>2. step \in [C \X (1 .. c) -> C]
  <2>1. \A x \in C \X (1 .. c) : x[1] \in C /\ x[2] \in 1 .. c
    OBVIOUS
  <2>2. QED
    BY <1>1, <2>1
<1>3. PICK r \in [0 .. c -> C] :
        r[0] = d /\ \A i \in 1 .. c : r[i] = step[<<r[i - 1], i>>]
  <2>1. Recursions(C, c, d, step) # {}
    <3>. HIDE DEF step
    <3>1. QED
      BY <1>1, <1>2, RecursionExists, Zenon
  <2>2. QED
    BY <2>1 DEF Recursions
<1>4. r[0] = d /\ \A k \in 1 .. c : r[k] = FillStep(r[k - 1], offset, n, k)
  <2>1. \A k \in 1 .. c : k - 1 \in 0 .. c
    BY <1>1
  <2>2. \A k \in 1 .. c : <<r[k - 1], k>> \in C \X (1 .. c)
    BY <2>1
  <2>3. QED
    BY <2>2, <1>3
<1>5. r = Body(r)
  <2>1. \A k \in 0 .. c : k # 0 => k \in 1 .. c
    BY <1>1
  <2>2. \A k \in 0 .. c : r[k] = IF k = 0 THEN d ELSE FillStep(r[k - 1], offset, n, k)
    BY <2>1, <1>4, Zenon
  <2>3. QED
    BY <2>2
<1>6. e = CHOOSE f : f = Body(f)
  BY DEF FilledUpTo, FillStep, c
<1>7. e = Body(e)
  <2>. HIDE DEF Body, e
  <2>1. QED
    BY <1>5, <1>6
<1>. HIDE DEF e
<1>8. \A k \in 0 .. c : e[k] = IF k = 0 THEN d ELSE FillStep(e[k - 1], offset, n, k)
  <2>1. \A k \in 0 .. c : Body(e)[k] = IF k = 0 THEN d ELSE FillStep(e[k - 1], offset, n, k)
    OBVIOUS
  <2>. HIDE DEF Body
  <2>2. QED
    BY <1>7, <2>1
<1>. DEFINE S == {k \in 0 .. c : e[k] \in C}
<1>9. 0 \in S
  BY <1>8, <1>1
<1>10. ASSUME NEW k \in 1 .. c, k - 1 \in S PROVE k \in S
  <2>1. k \in 0 .. c /\ k # 0 /\ e[k - 1] \in C
    BY <1>10, <1>1
  <2>2. e[k] = FillStep(e[k - 1], offset, n, k)
    BY <2>1, <1>8
  <2>3. QED
    BY <2>1, <2>2, <1>1
<1>11. \A k \in 0 .. c : k \in S
  <2>. HIDE DEF S
  <2>1. QED
    BY <1>9, <1>10, <1>1, PrefixInduction
<1>12. e[0] = d /\ \A k \in 1 .. c : e[k] = FillStep(e[k - 1], offset, n, k)
  <2>1. 0 \in 0 .. c /\ \A k \in 1 .. c : k \in 0 .. c /\ k # 0
    BY <1>1
  <2>2. QED
    BY <1>8, <2>1, Zenon
<1>13. QED
  BY <1>11, <1>12 DEF S, c, e

\* fill keeps the document good, also when it stops at a chunk.
LEMMA FilledGood ==
  ASSUME NEW d \in GoodDocs, NEW offset \in Nat, NEW n \in Nat \ {0}
  PROVE  \A k \in 0 .. Chunks(n) : FilledUpTo(d, offset, n)[k] \in GoodDocs
<1>1. \A g \in GoodDocs, k \in 1 .. Chunks(n) : FillStep(g, offset, n, k) \in GoodDocs
  BY FillStepGood
<1>2. QED
  BY <1>1, FillRecursion


-----------------------------------------------------------------------------
(* Undo, redo, the save point and a new document. *)

\* The top of a stack and what is under it.
LEMMA TopAndRest ==
  ASSUME NEW T, NEW s \in Seq(T), s # <<>>
  PROVE  s[Len(s)] \in T /\ SubSeq(s, 1, Len(s) - 1) \in Seq(T)
OBVIOUS

\* undo keeps the document good.
LEMMA UndoGood ==
  ASSUME NEW d \in GoodDocs, d.undo # <<>>
  PROVE  Undo(d) \in GoodDocs
<1>. DEFINE P == Stored(d.size, d.added)
            T == Seq(Edits(P))
            tx == d.undo[Len(d.undo)]
            rest == SubSeq(d.undo, 1, Len(d.undo) - 1)
            t == RevertedUpTo(d.table, tx)[Len(tx)]
            redo == Append(d.redo, tx)
<1>1. /\ d \in Docs(P) /\ d.undo \in Seq(T) /\ d.redo \in Seq(T) /\ d.table \in Seq(P)
      /\ P \in Clippable /\ d.size \in Nat /\ d.added \in Nat
  BY GoodDocFields
<1>. HIDE DEF P
<1>2. tx \in T /\ rest \in Seq(T)
  <2>. HIDE DEF T
  <2>1. QED
    BY <1>1, TopAndRest
<1>. HIDE DEF tx, rest
<1>3. t \in Seq(P)
  <2>1. RevertedUpTo(d.table, tx) \in [0 .. Len(tx) -> Seq(P)] /\ Len(tx) \in 0 .. Len(tx)
    BY <1>1, <1>2, RevertedClosed
  <2>2. QED
    BY <2>1
<1>4. redo \in Seq(T)
  <2>. HIDE DEF T
  <2>1. QED
    BY <1>1, <1>2
<1>5. Undo(d) = [d EXCEPT !.table = t, !.undo = rest, !.redo = redo]
  <2>1. d.table = d.table
    OBVIOUS
  <2>2. QED
    BY DEF Undo, tx, rest
<1>. HIDE DEF t, redo
<1>6. Undo(d) \in Docs(P) /\ Undo(d).size = d.size /\ Undo(d).added = d.added
  BY <1>1, <1>2, <1>3, <1>4, <1>5 DEF Docs
<1>7. QED
  BY <1>1, <1>6, GoodDoc DEF P

\* redo keeps the document good.
LEMMA RedoGood ==
  ASSUME NEW d \in GoodDocs, d.redo # <<>>
  PROVE  Redo(d) \in GoodDocs
<1>. DEFINE P == Stored(d.size, d.added)
            T == Seq(Edits(P))
            tx == d.redo[Len(d.redo)]
            rest == SubSeq(d.redo, 1, Len(d.redo) - 1)
            t == AppliedUpTo(d.table, tx)[Len(tx)]
            undo == Append(d.undo, tx)
<1>1. /\ d \in Docs(P) /\ d.undo \in Seq(T) /\ d.redo \in Seq(T) /\ d.table \in Seq(P)
      /\ P \in Clippable /\ d.size \in Nat /\ d.added \in Nat
  BY GoodDocFields
<1>. HIDE DEF P
<1>2. tx \in T /\ rest \in Seq(T)
  <2>. HIDE DEF T
  <2>1. QED
    BY <1>1, TopAndRest
<1>. HIDE DEF tx, rest
<1>3. t \in Seq(P)
  <2>1. AppliedUpTo(d.table, tx) \in [0 .. Len(tx) -> Seq(P)] /\ Len(tx) \in 0 .. Len(tx)
    BY <1>1, <1>2, AppliedClosed
  <2>2. QED
    BY <2>1
<1>4. undo \in Seq(T)
  <2>. HIDE DEF T
  <2>1. QED
    BY <1>1, <1>2
<1>5. Redo(d) = [d EXCEPT !.table = t, !.redo = rest, !.undo = undo]
  BY DEF Redo, tx, rest
<1>. HIDE DEF t, undo
<1>6. Redo(d) \in Docs(P) /\ Redo(d).size = d.size /\ Redo(d).added = d.added
  BY <1>1, <1>2, <1>3, <1>4, <1>5 DEF Docs
<1>7. QED
  BY <1>1, <1>6, GoodDoc DEF P

\* Saving keeps the document good.
LEMMA MarkSavedGood ==
  ASSUME NEW d \in GoodDocs
  PROVE  MarkSaved(d) \in GoodDocs
<1>1. /\ d \in Docs(Stored(d.size, d.added)) /\ d.size \in Nat /\ d.added \in Nat
      /\ Len(d.undo) \in Nat
  BY GoodDocFields
<1>2. /\ MarkSaved(d) \in Docs(Stored(d.size, d.added))
      /\ MarkSaved(d).size = d.size /\ MarkSaved(d).added = d.added
  BY <1>1 DEF MarkSaved, Docs
<1>3. QED
  BY <1>1, <1>2, GoodDoc

\* A new document is good.
LEMMA NewDocumentGood ==
  ASSUME NEW size \in Nat, NEW resizable \in BOOLEAN
  PROVE  NewDocument(size, resizable) \in GoodDocs
<1>. DEFINE p == [store |-> "Original", offset |-> 0, len |-> size]
            d == NewDocument(size, resizable)
<1>1. size > 0 => p \in Stored(size, 0)
  BY DEF Stored, Piece, Store
<1>. HIDE DEF p
<1>2. NewTable(size) \in Seq(Stored(size, 0))
  BY <1>1 DEF NewTable, p
<1>3. d \in Docs(Stored(size, 0)) /\ d.size = size /\ d.added = 0
  BY <1>2 DEF NewDocument, Docs
<1>4. QED
  BY <1>3, GoodDoc

-----------------------------------------------------------------------------
(* The invariant of the specification. *)

Inv == doc \in GoodDocs /\ panicked \in BOOLEAN /\ edits \in 0 .. MaxEdits

\* The documents at the start are good.
LEMMA InitInv == Init => Inv
<1>1. SUFFICES ASSUME Init PROVE Inv
  OBVIOUS
<1>2. PICK size \in SourceSizes, resizable \in BOOLEAN : doc = NewDocument(size, resizable)
  BY <1>1 DEF Init
<1>3. size \in Nat /\ MaxEdits \in Nat
  BY BoundsAssumption
<1>4. doc \in GoodDocs
  BY <1>2, <1>3, NewDocumentGood
<1>5. panicked = FALSE /\ edits = 0 /\ 0 \in 0 .. MaxEdits
  BY <1>1, <1>3 DEF Init
<1>6. QED
  BY <1>4, <1>5 DEF Inv

\* Every operation keeps the document good.
LEMMA NextInv == Inv /\ [Next]_vars => Inv'
<1>1. SUFFICES ASSUME Inv, [Next]_vars PROVE Inv'
  OBVIOUS
<1>2. doc \in GoodDocs /\ panicked \in BOOLEAN /\ edits \in 0 .. MaxEdits /\ MaxEdits \in Nat
  BY <1>1, BoundsAssumption DEF Inv
<1>3. Offsets \subseteq Nat /\ Sizes \subseteq Nat \ {0}
  <2>1. Length(doc) \in Nat /\ MaxWrite \in Nat
    BY <1>2, GoodDocFields, BoundsAssumption
  <2>2. QED
    BY <2>1 DEF Offsets, Sizes
<1>4. ASSUME NEW offset \in Offsets, NEW n \in Sizes, EditAt(offset, n) PROVE Inv'
  <2>1. offset \in Nat /\ n \in Nat \ {0} /\ Chunks(n) \in 0 .. Chunks(n)
    BY <1>3, ChunkBounds
  <2>2. CASE InsertAt(offset, n)
    BY <1>2, <2>1, <2>2, <1>4, InsertGood DEF InsertAt, EditAt, Inv
  <2>3. CASE DeleteAt(offset, n)
    BY <1>2, <2>1, <2>3, <1>4, DeleteGood DEF DeleteAt, EditAt, Inv
  <2>4. CASE OverwriteAt(offset, n)
    BY <1>2, <2>1, <2>4, <1>4, OverwriteGood DEF OverwriteAt, EditAt, Inv
  <2>5. CASE FillAt(offset, n)
    <3>1. Fill(doc, offset, n) \in GoodDocs
      BY <1>2, <2>1, FilledGood DEF Fill
    <3>2. QED
      BY <1>2, <3>1, <2>5, <1>4 DEF FillAt, EditAt, Inv
  <2>6. QED
    BY <2>2, <2>3, <2>4, <2>5, <1>4 DEF EditAt
<1>5. ASSUME NEW offset \in Offsets, NEW n \in Sizes, RefusedAt(offset, n) PROVE Inv'
  <2>1. n \in Nat /\ doc' \in GoodDocs
    BY <1>2, <1>3, <1>5, AppendFailuresGood DEF RefusedAt
  <2>2. QED
    BY <1>2, <1>5, <2>1 DEF RefusedAt, Inv
<1>6. ASSUME NEW offset \in Offsets, NEW n \in Sizes, TearAt(offset, n) PROVE Inv'
  <2>1. offset \in Nat /\ n \in Nat \ {0}
    BY <1>3
  <2>2. CASE doc' \in FailedOverwrites(doc, offset, n)
    <3>1. doc' \in GoodDocs
      BY <1>2, <2>1, <2>2, FailedOverwriteGood
    <3>2. QED
      BY <1>2, <1>6, <3>1 DEF TearAt, Inv
  <2>3. ASSUME NEW k \in 0 .. Chunks(n) - 1, doc' \in FailedFills(doc, offset, n, k)
        PROVE  Inv'
    <3>1. Chunks(n) \in Nat /\ k * FillChunk \in Nat /\ ChunkLen(n, k) \in Nat
      BY <2>1, ChunkBounds
    <3>2. k \in 0 .. Chunks(n) /\ offset + k * FillChunk \in Nat
      BY <2>1, <3>1
    <3>3. FilledUpTo(doc, offset, n)[k] \in GoodDocs
      BY <1>2, <2>1, <3>2, FilledGood
    <3>4. doc' \in GoodDocs
      BY <2>3, <3>1, <3>2, <3>3, FailedOverwriteGood DEF FailedFills
    <3>5. QED
      BY <1>2, <1>6, <3>4 DEF TearAt, Inv
  <2>4. QED
    BY <1>6, <2>2, <2>3 DEF TearAt
<1>7. CASE Merge
  BY <1>2, <1>7, MergeGood DEF Merge, Inv
<1>8. CASE UndoStep
  BY <1>2, <1>8, UndoGood DEF UndoStep, Inv
<1>9. CASE RedoStep
  BY <1>2, <1>9, RedoGood DEF RedoStep, Inv
<1>10. CASE Save
  BY <1>2, <1>10, MarkSavedGood DEF Save, Inv
<1>11. CASE UNCHANGED vars
  BY <1>2, <1>11 DEF vars, Inv
<1>12. QED
  BY <1>1, <1>4, <1>5, <1>6, <1>7, <1>8, <1>9, <1>10, <1>11 DEF Next

\* Every reachable document is good: its pieces are non-empty and lie in their
\* stores, whatever was edited, refused, torn, undone or merged (document.rs).
THEOREM InvHolds == Spec => []Inv
BY InitInv, NextInv, PTL DEF Spec

\* A good document has its type.
LEMMA GoodIsTyped == Inv => TypeOK
<1>1. Docs(Piece) = DocumentType
  BY DEF Docs, DocumentType, Transaction, Edit, Edits
<1>2. QED
  BY <1>1 DEF Inv, GoodDocs, TypeOK

\* Every field of the document keeps its type.
THEOREM TypeCorrect == Spec => []TypeOK
BY GoodIsTyped, InvHolds, PTL

\* The reads of the table and of both stacks stay inside the source and the
\* add buffer, whatever was edited, refused, torn, undone or merged before.
THEOREM StorageSafe == Spec => []PiecesInStores
<1>1. ASSUME Inv PROVE PiecesInStores
  <2>1. Stored(doc.size, doc.added) = StoredPiece(doc)
    BY DEF Stored, StoredPiece
  <2>2. Seq(Edits(StoredPiece(doc))) = StoredTransaction(doc)
    BY DEF Edits, StoredTransaction
  <2>3. TypeOK
    BY <1>1, GoodIsTyped
  <2>4. QED
    BY <1>1, <2>1, <2>2, <2>3, GoodDocFields DEF Inv, PiecesInStores
<1>2. QED
  BY <1>1, InvHolds, PTL

\* pieces_in reads exactly the bytes of its range, in every reachable document.
THEOREM ReadsAreSlices == Spec => []ReadsTheContent
<1>1. ASSUME Inv PROVE ReadsTheContent
  <2>1. doc.table \in Seq(Piece)
    BY <1>1, GoodDocFields DEF Inv
  <2>2. Len(Content(doc.table)) = TotalLen(doc.table) /\ TotalLen(doc.table) \in Nat
    BY <2>1, ContentLength
  <2>3. ASSUME NEW a \in 0 .. TotalLen(doc.table), NEW b \in a .. TotalLen(doc.table)
        PROVE  Content(PiecesIn(doc.table, a, b)) = SubSeq(Content(doc.table), a + 1, b)
    <3>1. a \in Nat /\ b \in Nat /\ Smaller(b, TotalLen(doc.table)) = b
      BY <2>2 DEF Smaller
    <3>2. QED
      BY <2>1, <3>1, SliceContent
  <2>4. QED
    BY <2>2, <2>3 DEF ReadsTheContent
<1>2. QED
  BY <1>1, InvHolds, PTL

\* modified_in over every range gives exactly the added positions of the range,
\* in ranges that do not touch.
LEMMA ModifiedExactly == Inv => ModifiedIsExact
<1>. DEFINE t == doc.table
            c == Content(t)
<1>1. SUFFICES ASSUME Inv, NEW a \in 0 .. Len(c), NEW b \in a .. Len(c)
               PROVE  LET out == ModifiedIn(t, a, b)
                      IN  /\ UNION {out[k][1] .. out[k][2] - 1 : k \in 1 .. Len(out)}
                               = {i \in a .. b - 1 : c[i + 1][1] = "Added"}
                          /\ \A k \in 1 .. Len(out) - 1 : out[k][2] < out[k + 1][1]
  BY DEF ModifiedIsExact
<1>. DEFINE out == ModifiedIn(t, a, b)
<1>2. t \in Seq(Piece)
  BY <1>1, GoodDocFields DEF Inv
<1>3. Len(c) = TotalLen(t) /\ TotalLen(t) \in Nat
  BY <1>2, ContentLength
<1>4. a \in Nat /\ b \in Nat /\ b <= TotalLen(t) /\ a <= b
  BY <1>3
<1>5. /\ out \in RangeLists /\ LieApart(out)
      /\ \A i \in Nat : InRanges(out, i) <=> a <= i /\ i < b /\ c[i + 1][1] = "Added"
  BY <1>2, <1>4, ModifiedExact
<1>. HIDE DEF out, t, c
<1>6. \A k \in 1 .. Len(out) : out[k][1] \in Nat /\ out[k][2] \in Nat
  BY <1>5 DEF RangeLists
<1>. DEFINE covered == UNION {out[k][1] .. out[k][2] - 1 : k \in 1 .. Len(out)}
            added == {i \in a .. b - 1 : c[i + 1][1] = "Added"}
<1>7. ASSUME NEW i PROVE i \in covered <=> i \in Nat /\ InRanges(out, i)
  <2>1. i \in covered <=> \E k \in 1 .. Len(out) : i \in out[k][1] .. out[k][2] - 1
    OBVIOUS
  <2>2. ASSUME NEW k \in 1 .. Len(out)
        PROVE  i \in out[k][1] .. out[k][2] - 1 <=> i \in Nat /\ out[k][1] <= i /\ i < out[k][2]
    <3>. DEFINE x == out[k][1]
                y == out[k][2]
    <3>1. x \in Nat /\ y \in Nat
      BY <1>6
    <3>. HIDE DEF x, y
    <3>2. i \in x .. y - 1 <=> i \in Nat /\ x <= i /\ i < y
      BY <3>1
    <3>3. QED
      BY <3>2 DEF x, y
  <2>. HIDE DEF covered
  <2>3. QED
    BY <2>1, <2>2 DEF InRanges
<1>8. ASSUME NEW i PROVE i \in added <=> i \in Nat /\ a <= i /\ i < b /\ c[i + 1][1] = "Added"
  BY <1>4
<1>9. covered = added
  <2>. HIDE DEF covered, added
  <2>1. \A i : i \in covered <=> i \in added
    BY <1>5, <1>7, <1>8
  <2>2. QED
    BY <2>1
<1>10. \A k \in 1 .. Len(out) - 1 : out[k][2] < out[k + 1][1]
  BY <1>5 DEF LieApart
<1>11. QED
  BY <1>9, <1>10 DEF out, t, c

\* modified_in answers, for every range of every reachable document, exactly its
\* added positions in maximal runs: what the view highlights and the save in place
\* writes (piece_table.rs, document/io.rs:136-144).
THEOREM ModifiedRanges == Spec => []ModifiedIsExact
<1>1. QED
  BY InvHolds, ModifiedExactly, PTL

\* Where inplace_dirty_ranges answers, writing its ranges over the source gives
\* the content.
LEMMA PatchesTheSource ==
  ASSUME NEW t \in Seq(Piece), NEW size \in Nat, CanSaveInPlace(t, size)
  PROVE  Patched(t, size) = Content(t)
<1>. DEFINE n == Len(t)
            E == Ends(t)
            c == Content(t)
            dirty == DirtyRanges(t)
<1>1. /\ \A k \in 1 .. n : E[k] = E[k - 1] + t[k].len /\ t[k].len \in Nat /\ t[k].store \in Store
      /\ \A k \in 0 .. n : E[k] \in Nat
      /\ \A k \in 1 .. n : k \in 0 .. n /\ k - 1 \in 0 .. n
  <2>1. n \in Nat
    OBVIOUS
  <2>2. \A k \in 1 .. n : k \in 0 .. n /\ k - 1 \in 0 .. n
    BY <2>1
  <2>3. QED
    BY <2>2, EndsFacts
<1>2. /\ c \in Seq(Cell) /\ Len(c) = TotalLen(t) /\ TotalLen(t) = size
  BY ContentType, ContentLength DEF CanSaveInPlace
<1>3. /\ dirty \in RangeLists
      /\ \A i \in Nat : InRanges(dirty, i) <=> 0 <= i /\ i < size /\ c[i + 1][1] = "Added"
  BY <1>2, ModifiedExact DEF DirtyRanges
<1>4. \A k \in 1 .. n : t[k].store = "Original" => t[k].offset = E[k - 1]
  BY DEF CanSaveInPlace
<1>5. \A i \in 1 .. size : \E k \in 1 .. n : E[k - 1] < i /\ i <= E[k]
  BY <1>2, PieceAt
<1>6. ASSUME NEW k \in 1 .. n, NEW i \in 1 .. t[k].len
      PROVE  c[E[k - 1] + i] = <<t[k].store, t[k].offset + i - 1>>
  BY CellAt
<1>. HIDE DEF n, E, c, dirty
<1>7. ASSUME NEW i \in 1 .. size, c[i][1] # "Added" PROVE c[i] = <<"Original", i - 1>>
  <2>1. PICK k \in 1 .. n : E[k - 1] < i /\ i <= E[k]
    BY <1>5
  <2>. DEFINE from == E[k - 1]
              j == i - from
  <2>2. from \in Nat /\ E[k] = from + t[k].len /\ t[k].len \in Nat /\ t[k].store \in Store
    BY <1>1
  <2>3. j \in 1 .. t[k].len /\ from + j = i
    BY <2>1, <2>2
  <2>. HIDE DEF j
  <2>4. c[i] = <<t[k].store, t[k].offset + j - 1>>
    BY <1>6, <2>3
  <2>5. t[k].store = "Original"
    BY <1>7, <2>2, <2>4 DEF Store
  <2>6. t[k].offset = from
    BY <1>4, <2>5
  <2>. HIDE DEF from
  <2>7. t[k].offset + j - 1 = i - 1
    BY <2>2, <2>3, <2>6
  <2>8. QED
    BY <2>4, <2>5, <2>7
<1>8. ASSUME NEW i \in 1 .. size
      PROVE  (\E k \in 1 .. Len(dirty) : dirty[k][1] < i /\ i <= dirty[k][2]) <=> c[i][1] = "Added"
  <2>. DEFINE h == i - 1
  <2>1. h \in Nat /\ h < size /\ 0 <= h /\ h + 1 = i
    OBVIOUS
  <2>2. \A k \in 1 .. Len(dirty) : dirty[k][1] \in Nat /\ dirty[k][2] \in Nat
    BY <1>3 DEF RangeLists
  <2>3. ASSUME NEW x \in Nat, NEW y \in Nat
        PROVE  x < i /\ i <= y <=> x <= h /\ h < y
    OBVIOUS
  <2>. HIDE DEF h
  <2>4. InRanges(dirty, h) <=> c[i][1] = "Added"
    BY <1>3, <2>1
  <2>5. \A k \in 1 .. Len(dirty) :
           dirty[k][1] < i /\ i <= dirty[k][2] <=> dirty[k][1] <= h /\ h < dirty[k][2]
    BY <2>2, <2>3
  <2>6. QED
    BY <2>4, <2>5 DEF InRanges
<1>9. Patched(t, size) = [i \in 1 .. size |-> IF c[i][1] = "Added" THEN c[i] ELSE <<"Original", i - 1>>]
  BY <1>8 DEF Patched, c, dirty
<1>10. Patched(t, size) = [i \in 1 .. size |-> c[i]]
  BY <1>7, <1>9
<1>11. c = [i \in 1 .. size |-> c[i]]
  BY <1>2
<1>12. QED
  BY <1>10, <1>11 DEF c

-----------------------------------------------------------------------------
(* What edits and transactions do to the content.                          *)

\* Edit e takes the content a to the content b: the bytes it inserts or deletes
\* are the only difference, so the edit can be followed in both directions.
EditLeads(a, e, b) ==
  IF e.kind = "Insert" THEN Joined(a, b, e.offset, Content(e.pieces))
                       ELSE Joined(b, a, e.offset, Content(e.pieces))

\* A transaction leads from a to b through the contents r[0], r[1], ...
Passes(tx, r) ==
  /\ r \in [0 .. Len(tx) -> Seq(Cell)]
  /\ \A k \in 1 .. Len(tx) : EditLeads(r[k - 1], tx[k], r[k])

TxLeads(a, tx, b) == \E r : Passes(tx, r) /\ r[0] = a /\ r[Len(tx)] = b

\* The fields of an edit, and the content of its pieces.
LEMMA EditFields ==
  ASSUME NEW e \in Edits(Piece)
  PROVE  /\ e.offset \in Nat /\ e.pieces \in Seq(Piece) /\ e.kind \in {"Insert", "Delete"}
         /\ Content(e.pieces) \in Seq(Cell) /\ Len(Content(e.pieces)) = TotalLen(e.pieces)
         /\ TotalLen(e.pieces) \in Nat
<1>1. e.offset \in Nat /\ e.pieces \in Seq(Piece) /\ e.kind \in {"Insert", "Delete"}
  BY DEF Edits
<1>2. QED
  BY <1>1, ContentType, ContentLength

\* Where the bytes can be put in, splice can; and it leads to the long content.
LEMMA SpliceAt ==
  ASSUME NEW t \in Seq(Piece), NEW ps \in Seq(Piece), NEW o, NEW l \in Seq(Cell),
         Joined(Content(t), l, o, Content(ps))
  PROVE  /\ CanSplice(t, o)
         /\ Splice(t, o, ps) \in Seq(Piece)
         /\ Content(Splice(t, o, ps)) = l
<1>1. /\ Content(t) \in Seq(Cell) /\ Len(Content(t)) = TotalLen(t) /\ TotalLen(t) \in Nat
      /\ Content(ps) \in Seq(Cell)
  BY ContentType, ContentLength
<1>2. o \in Nat /\ o <= TotalLen(t)
  BY <1>1 DEF Joined
<1>3. /\ Splice(t, o, ps) \in Seq(Piece)
      /\ Joined(Content(t), Content(Splice(t, o, ps)), o, Content(ps))
  BY <1>2, SpliceJoins
<1>4. Content(Splice(t, o, ps)) \in Seq(Cell)
  BY <1>3, ContentType
<1>5. Content(Splice(t, o, ps)) = l
  BY <1>1, <1>3, <1>4, JoinedUnique
<1>6. QED
  BY <1>2, <1>3, <1>5 DEF CanSplice

\* Where the bytes are, delete can take them out; it leads to the short content
\* and returns the bytes.
LEMMA RemoveAt ==
  ASSUME NEW t \in Seq(Piece), NEW ps \in Seq(Piece), NEW o, NEW s \in Seq(Cell),
         Joined(s, Content(t), o, Content(ps))
  PROVE  /\ CanDelete(t, o, TotalLen(ps))
         /\ Remove(t, o, TotalLen(ps)) \in Seq(Piece)
         /\ Content(Remove(t, o, TotalLen(ps))) = s
         /\ Removed(t, o, TotalLen(ps)) \in Seq(Piece)
         /\ Content(Removed(t, o, TotalLen(ps))) = Content(ps)
<1>. DEFINE n == TotalLen(ps)
<1>1. /\ Content(t) \in Seq(Cell) /\ Len(Content(t)) = TotalLen(t) /\ TotalLen(t) \in Nat
      /\ Content(ps) \in Seq(Cell) /\ Len(Content(ps)) = n /\ n \in Nat
  BY ContentType, ContentLength
<1>. HIDE DEF n
<1>2. o \in Nat /\ o + n <= TotalLen(t)
  <2>1. o \in 0 .. Len(s) /\ TotalLen(t) = Len(s) + n /\ Len(s) \in Nat
    BY <1>1 DEF Joined
  <2>2. QED
    BY <2>1, <1>1
<1>3. /\ Remove(t, o, n) \in Seq(Piece) /\ Removed(t, o, n) \in Seq(Piece)
      /\ Len(Content(Removed(t, o, n))) = n
      /\ Joined(Content(Remove(t, o, n)), Content(t), o, Content(Removed(t, o, n)))
  BY <1>1, <1>2, RemoveJoins
<1>4. Content(Remove(t, o, n)) \in Seq(Cell) /\ Content(Removed(t, o, n)) \in Seq(Cell)
  BY <1>3, ContentType
<1>5. Content(Remove(t, o, n)) = s /\ Content(Removed(t, o, n)) = Content(ps)
  BY <1>1, <1>3, <1>4, JoinedUnique
<1>6. QED
  BY <1>2, <1>3, <1>5 DEF CanDelete, n

\* An edit that leads from the content of the table applies without an assertion
\* failing, and leads there.
LEMMA ApplyLeads ==
  ASSUME NEW t \in Seq(Piece), NEW e \in Edits(Piece), NEW b \in Seq(Cell),
         EditLeads(Content(t), e, b)
  PROVE  /\ CanApply(t, e) /\ FindsSameRuns(t, e)
         /\ Apply(t, e) \in Seq(Piece) /\ Content(Apply(t, e)) = b
<1>1. e.pieces \in Seq(Piece) /\ e.kind \in {"Insert", "Delete"}
  BY EditFields
<1>2. CASE e.kind = "Insert"
  <2>1. Joined(Content(t), b, e.offset, Content(e.pieces))
    BY <1>2 DEF EditLeads
  <2>2. QED
    BY <1>1, <1>2, <2>1, SpliceAt DEF CanApply, Apply, FindsSameRuns
<1>3. CASE e.kind = "Delete"
  <2>1. Joined(b, Content(t), e.offset, Content(e.pieces))
    BY <1>3 DEF EditLeads
  <2>2. /\ CanDelete(t, e.offset, TotalLen(e.pieces))
        /\ Remove(t, e.offset, TotalLen(e.pieces)) \in Seq(Piece)
        /\ Content(Remove(t, e.offset, TotalLen(e.pieces))) = b
        /\ Removed(t, e.offset, TotalLen(e.pieces)) \in Seq(Piece)
        /\ Content(Removed(t, e.offset, TotalLen(e.pieces))) = Content(e.pieces)
    BY <1>1, <2>1, RemoveAt
  <2>3. SameByteRuns(Removed(t, e.offset, TotalLen(e.pieces)), e.pieces)
    BY <1>1, <2>2, SameContentSameRuns
  <2>4. QED
    BY <1>3, <2>2, <2>3 DEF CanApply, Apply, FindsSameRuns
<1>4. QED
  BY <1>1, <1>2, <1>3

\* And one that leads to the content of the table reverts likewise.
LEMMA RevertLeads ==
  ASSUME NEW t \in Seq(Piece), NEW e \in Edits(Piece), NEW a \in Seq(Cell),
         EditLeads(a, e, Content(t))
  PROVE  CanRevert(t, e) /\ Revert(t, e) \in Seq(Piece) /\ Content(Revert(t, e)) = a
<1>1. e.pieces \in Seq(Piece) /\ e.kind \in {"Insert", "Delete"}
  BY EditFields
<1>2. CASE e.kind = "Insert"
  <2>1. Joined(a, Content(t), e.offset, Content(e.pieces))
    BY <1>2 DEF EditLeads
  <2>2. QED
    BY <1>1, <1>2, <2>1, RemoveAt DEF CanRevert, Revert
<1>3. CASE e.kind = "Delete"
  <2>1. Joined(Content(t), a, e.offset, Content(e.pieces))
    BY <1>3 DEF EditLeads
  <2>2. QED
    BY <1>1, <1>3, <2>1, SpliceAt DEF CanRevert, Revert
<1>4. QED
  BY <1>1, <1>2, <1>3

\* Redo: every edit can be applied, finds the bytes it deleted before, and the
\* transaction leads where it led.
LEMMA RedoLeads ==
  ASSUME NEW t \in Seq(Piece), NEW tx \in Seq(Edits(Piece)), NEW b, TxLeads(Content(t), tx, b)
  PROVE  /\ ~ ApplyPanics(t, tx)
         /\ \A k \in 1 .. Len(tx) : FindsSameRuns(AppliedUpTo(t, tx)[k - 1], tx[k])
         /\ Content(AppliedUpTo(t, tx)[Len(tx)]) = b
<1>. DEFINE n == Len(tx)
            f == AppliedUpTo(t, tx)
<1>1. PICK r : Passes(tx, r) /\ r[0] = Content(t) /\ r[n] = b
  BY DEF TxLeads
<1>2. /\ n \in Nat /\ \A k \in 1 .. n : tx[k] \in Edits(Piece)
      /\ \A k \in 1 .. n : k - 1 \in 0 .. n /\ k \in 0 .. n
  OBVIOUS
<1>3. f[0] = t /\ \A k \in 1 .. n : f[k] = Apply(f[k - 1], tx[k])
  BY PiecesAreClippable, AppliedClosed
<1>. HIDE DEF f
<1>4. /\ \A k \in 0 .. n : r[k] \in Seq(Cell)
      /\ \A k \in 1 .. n : EditLeads(r[k - 1], tx[k], r[k])
  BY <1>1 DEF Passes
<1>. DEFINE S == {k \in 0 .. n : f[k] \in Seq(Piece) /\ Content(f[k]) = r[k]}
<1>. HIDE DEF n
<1>5. 0 \in S
  BY <1>1, <1>2, <1>3
<1>6. ASSUME NEW k \in 1 .. n, k - 1 \in S
      PROVE  k \in S /\ CanApply(f[k - 1], tx[k]) /\ FindsSameRuns(f[k - 1], tx[k])
  <2>1. /\ f[k - 1] \in Seq(Piece) /\ tx[k] \in Edits(Piece) /\ r[k] \in Seq(Cell) /\ k \in 0 .. n
        /\ EditLeads(Content(f[k - 1]), tx[k], r[k])
    BY <1>2, <1>4, <1>6
  <2>2. QED
    BY <2>1, <1>3, ApplyLeads
<1>7. \A k \in 0 .. n : k \in S
  <2>. HIDE DEF S
  <2>1. QED
    BY <1>2, <1>5, <1>6, PrefixInduction
<1>8. \A k \in 1 .. n : CanApply(f[k - 1], tx[k]) /\ FindsSameRuns(f[k - 1], tx[k])
  <2>. HIDE DEF S
  <2>1. QED
    BY <1>2, <1>6, <1>7
<1>9. n \in S
  BY <1>2, <1>7
<1>10. QED
  BY <1>1, <1>8, <1>9 DEF ApplyPanics, n, f

\* Undo: every edit can be reverted, and the transaction leads back.
LEMMA UndoLeads ==
  ASSUME NEW t \in Seq(Piece), NEW tx \in Seq(Edits(Piece)), NEW a, TxLeads(a, tx, Content(t))
  PROVE  /\ ~ RevertPanics(t, tx)
         /\ Content(RevertedUpTo(t, tx)[Len(tx)]) = a
<1>. DEFINE n == Len(tx)
            f == RevertedUpTo(t, tx)
<1>1. PICK r : Passes(tx, r) /\ r[0] = a /\ r[n] = Content(t)
  BY DEF TxLeads
<1>2. /\ n \in Nat /\ \A k \in 1 .. n : tx[k] \in Edits(Piece)
  OBVIOUS
<1>3. f[0] = t /\ \A k \in 1 .. n : f[k] = Revert(f[k - 1], tx[n + 1 - k])
  BY PiecesAreClippable, RevertedClosed
<1>. HIDE DEF f
<1>4. /\ \A k \in 0 .. n : r[k] \in Seq(Cell)
      /\ \A k \in 1 .. n : EditLeads(r[k - 1], tx[k], r[k])
  BY <1>1 DEF Passes
<1>. DEFINE S == {k \in 0 .. n : f[k] \in Seq(Piece) /\ Content(f[k]) = r[n - k]}
<1>. HIDE DEF n
<1>5. 0 \in S
  <2>1. n - 0 = n /\ 0 \in 0 .. n
    BY <1>2
  <2>2. QED
    BY <1>1, <1>3, <2>1
<1>6. ASSUME NEW k \in 1 .. n, k - 1 \in S
      PROVE  k \in S /\ CanRevert(f[k - 1], tx[n + 1 - k])
  <2>1. /\ n + 1 - k \in 1 .. n /\ (n + 1 - k) - 1 = n - k /\ n - (k - 1) = n + 1 - k
        /\ n - k \in 0 .. n /\ k \in 0 .. n
    BY <1>2
  <2>2. /\ f[k - 1] \in Seq(Piece) /\ tx[n + 1 - k] \in Edits(Piece) /\ r[n - k] \in Seq(Cell)
        /\ Content(f[k - 1]) = r[n + 1 - k]
    BY <2>1, <1>2, <1>4, <1>6
  <2>3. EditLeads(r[n - k], tx[n + 1 - k], Content(f[k - 1]))
    BY <2>1, <2>2, <1>4
  <2>4. QED
    BY <2>1, <2>2, <2>3, <1>3, RevertLeads
<1>7. \A k \in 0 .. n : k \in S
  <2>. HIDE DEF S
  <2>1. QED
    BY <1>2, <1>5, <1>6, PrefixInduction
<1>8. \A k \in 1 .. n : CanRevert(f[k - 1], tx[n + 1 - k])
  <2>1. \A k \in 1 .. n : k - 1 \in 0 .. n
    BY <1>2
  <2>. HIDE DEF S
  <2>2. QED
    BY <2>1, <1>6, <1>7
<1>9. n \in S /\ n - n = 0
  BY <1>2, <1>7
<1>10. QED
  BY <1>1, <1>8, <1>9 DEF RevertPanics, n, f

\* The empty transaction leads nowhere else.
LEMMA NothingLeads ==
  ASSUME NEW a \in Seq(Cell)
  PROVE  TxLeads(a, <<>>, a)
<1>. DEFINE r == [k \in 0 .. 0 |-> a]
<1>1. Passes(<<>>, r) /\ r[0] = a /\ Len(<<>>) = 0
  BY DEF Passes
<1>2. QED
  BY <1>1 DEF TxLeads

\* A transaction of one edit leads where the edit leads.
LEMMA OneLeads ==
  ASSUME NEW a \in Seq(Cell), NEW b \in Seq(Cell), NEW e, EditLeads(a, e, b)
  PROVE  TxLeads(a, <<e>>, b)
<1>. DEFINE r == [k \in 0 .. 1 |-> IF k = 0 THEN a ELSE b]
<1>1. /\ Len(<<e>>) = 1 /\ <<e>>[1] = e /\ r \in [0 .. 1 -> Seq(Cell)] /\ r[0] = a /\ r[1] = b
      /\ \A k \in 1 .. 1 : k = 1 /\ k - 1 = 0
  OBVIOUS
<1>. HIDE DEF r
<1>2. Passes(<<e>>, r)
  BY <1>1 DEF Passes
<1>3. QED
  BY <1>1, <1>2 DEF TxLeads

\* Transactions compose, which is what merging relies on.
LEMMA LeadsCompose ==
  ASSUME NEW E, NEW tx \in Seq(E), NEW ty \in Seq(E), NEW a, NEW b, NEW c,
         TxLeads(a, tx, b), TxLeads(b, ty, c)
  PROVE  TxLeads(a, tx \o ty, c)
<1>. DEFINE m == Len(tx)
            n == Len(ty)
            z == tx \o ty
<1>1. PICK p : Passes(tx, p) /\ p[0] = a /\ p[m] = b
  BY DEF TxLeads
<1>2. PICK q : Passes(ty, q) /\ q[0] = b /\ q[n] = c
  BY DEF TxLeads
<1>3. /\ m \in Nat /\ n \in Nat /\ Len(z) = m + n
      /\ \A k \in 1 .. m : z[k] = tx[k]
      /\ \A k \in 1 .. n : z[m + k] = ty[k]
  OBVIOUS
<1>4. /\ \A k \in 0 .. m : p[k] \in Seq(Cell)
      /\ \A k \in 1 .. m : EditLeads(p[k - 1], tx[k], p[k])
      /\ \A k \in 0 .. n : q[k] \in Seq(Cell)
      /\ \A k \in 1 .. n : EditLeads(q[k - 1], ty[k], q[k])
  BY <1>1, <1>2 DEF Passes
<1>. DEFINE r == [k \in 0 .. m + n |-> IF k <= m THEN p[k] ELSE q[k - m]]
<1>. HIDE DEF m, n, z
<1>5. r \in [0 .. m + n -> Seq(Cell)]
  <2>1. ASSUME NEW k \in 0 .. m + n PROVE (IF k <= m THEN p[k] ELSE q[k - m]) \in Seq(Cell)
    <3>1. CASE k <= m
      BY <3>1, <1>3, <1>4
    <3>2. CASE ~ (k <= m)
      <4>1. k - m \in 0 .. n
        BY <3>2, <1>3
      <4>2. QED
        BY <4>1, <3>2, <1>4
    <3>3. QED
      BY <3>1, <3>2
  <2>2. QED
    BY <2>1
<1>6. r[0] = a /\ (\A k \in 0 .. m : r[k] = p[k]) /\ (\A k \in 0 .. n : r[m + k] = q[k])
  <2>1. ASSUME NEW k \in 0 .. m PROVE r[k] = p[k]
    BY <1>3
  <2>2. ASSUME NEW k \in 0 .. n PROVE r[m + k] = q[k]
    <3>1. m + k \in 0 .. m + n /\ (m + k) - m = k /\ (m + k <= m <=> k = 0)
      BY <1>3
    <3>2. CASE k = 0
      <4>1. m + k = m /\ m \in 0 .. m
        BY <3>2, <1>3
      <4>2. QED
        BY <4>1, <2>1, <3>2, <1>1, <1>2 DEF m
    <3>3. CASE k # 0
      BY <3>1, <3>3
    <3>4. QED
      BY <3>2, <3>3
  <2>3. 0 \in 0 .. m
    BY <1>3
  <2>4. QED
    BY <2>1, <2>2, <2>3, <1>1
<1>7. ASSUME NEW k \in 1 .. m + n PROVE EditLeads(r[k - 1], z[k], r[k])
  <2>1. CASE k <= m
    <3>1. k \in 1 .. m /\ k \in 0 .. m /\ k - 1 \in 0 .. m
      BY <2>1, <1>3
    <3>. HIDE DEF r
    <3>2. QED
      BY <3>1, <1>3, <1>4, <1>6
  <2>2. CASE ~ (k <= m)
    <3>1. k - m \in 1 .. n /\ k - m \in 0 .. n /\ (k - m) - 1 \in 0 .. n
          /\ m + (k - m) = k /\ m + ((k - m) - 1) = k - 1
      BY <2>2, <1>3
    <3>. HIDE DEF r
    <3>2. r[k] = q[k - m] /\ r[k - 1] = q[(k - m) - 1] /\ z[k] = ty[k - m]
      BY <3>1, <1>3, <1>6
    <3>3. QED
      BY <3>1, <3>2, <1>4
  <2>3. QED
    BY <2>1, <2>2
<1>8. r[m + n] = c
  <2>1. n \in 0 .. n
    BY <1>3
  <2>. HIDE DEF r
  <2>2. QED
    BY <2>1, <1>2, <1>6 DEF n
<1>9. Passes(z, r)
  <2>. HIDE DEF r
  <2>1. QED
    BY <1>3, <1>5, <1>7 DEF Passes
<1>10. r[0] = a
  BY <1>6
<1>. HIDE DEF r
<1>11. TxLeads(a, z, c)
  BY <1>3, <1>8, <1>9, <1>10 DEF TxLeads
<1>12. QED
  BY <1>11 DEF z

\* The stacks of a good document hold edits of pieces.
LEMMA StoredEditsAreEdits ==
  ASSUME NEW d \in GoodDocs
  PROVE  /\ Edits(Stored(d.size, d.added)) \subseteq Edits(Piece)
         /\ Seq(Edits(Stored(d.size, d.added))) \subseteq Seq(Edits(Piece))
         /\ d.undo \in Seq(Seq(Edits(Piece))) /\ d.redo \in Seq(Seq(Edits(Piece)))
<1>1. Stored(d.size, d.added) \subseteq Piece
  BY DEF Stored
<1>2. Seq(Stored(d.size, d.added)) \subseteq Seq(Piece)
  BY <1>1, SeqMono
<1>3. Edits(Stored(d.size, d.added)) \subseteq Edits(Piece)
  BY <1>2 DEF Edits
<1>4. Seq(Edits(Stored(d.size, d.added))) \subseteq Seq(Edits(Piece))
  BY <1>3, SeqMono
<1>5. Seq(Seq(Edits(Stored(d.size, d.added)))) \subseteq Seq(Seq(Edits(Piece)))
  BY <1>4, SeqMono
<1>6. QED
  BY <1>3, <1>4, <1>5, GoodDocFields

\* What commit does, field by field.
LEMMA CommitFields ==
  ASSUME NEW P, NEW d \in Docs(P), NEW tx
  PROVE  /\ Commit(d, tx).undo = Append(d.undo, tx) /\ Commit(d, tx).redo = <<>>
         /\ Commit(d, tx).table = d.table /\ Commit(d, tx).size = d.size
         /\ Commit(d, tx).resizable = d.resizable
         /\ Commit(d, tx).savedDepth # Unreachable =>
              Commit(d, tx).savedDepth = d.savedDepth /\ d.savedDepth <= Len(d.undo) + 1
<1>1. d.savedDepth \in Nat \cup {Unreachable} /\ d.undo \in Seq(Seq(Edits(P)))
  BY DEF Docs
<1>2. Len(d.undo) \in Nat
  BY <1>1
<1>3. /\ Commit(d, tx).undo = Append(d.undo, tx) /\ Commit(d, tx).redo = <<>>
      /\ Commit(d, tx).table = d.table /\ Commit(d, tx).size = d.size
      /\ Commit(d, tx).resizable = d.resizable
      /\ Commit(d, tx).savedDepth =
           IF d.savedDepth > Len(d.undo) + 1 THEN Unreachable ELSE d.savedDepth
  BY DEF Commit, Docs
<1>. DEFINE s == d.savedDepth
            n == Len(d.undo)
            z == Commit(d, tx).savedDepth
<1>4. s \in Nat \cup {Unreachable} /\ n \in Nat /\ z = IF s > n + 1 THEN Unreachable ELSE s
  BY <1>1, <1>2, <1>3
<1>. HIDE DEF s, n, z
<1>5. z # Unreachable => z = s /\ s <= n + 1
  BY <1>4 DEF Unreachable
<1>6. QED
  BY <1>3, <1>5 DEF s, n, z

\* Every byte that still is the source's stands at its own place, in a content
\* of the source's size.
OwnPlaces(c, size) ==
  /\ Len(c) = size
  /\ \A i \in 1 .. size : c[i][1] = "Original" => c[i][2] = i - 1

\* One edit of the user, however many steps it took inside: one transaction on
\* the undo stack that leads from the old content to the new one, nothing to redo,
\* a saved depth that is kept or forgotten, and a source of fixed size kept in
\* place.
Commits(d, g) ==
  /\ g \in GoodDocs
  /\ \E tx \in Seq(Edits(Piece)) :
        g.undo = Append(d.undo, tx) /\ TxLeads(Content(d.table), tx, Content(g.table))
  /\ g.redo = <<>>
  /\ g.savedDepth # Unreachable => g.savedDepth = d.savedDepth /\ d.savedDepth <= Len(d.undo) + 1
  /\ g.size = d.size /\ g.resizable = d.resizable
  /\ ~ d.resizable /\ OwnPlaces(Content(d.table), d.size) => OwnPlaces(Content(g.table), d.size)

\* What an edit appends is one piece of added bytes.
LEMMA AddedBytes ==
  ASSUME NEW d \in GoodDocs, NEW n \in Nat
  PROVE  /\ AddedPiece(d, n) \in Piece /\ <<AddedPiece(d, n)>> \in Seq(Piece)
         /\ Content(<<AddedPiece(d, n)>>) \in Seq(Cell)
         /\ Len(Content(<<AddedPiece(d, n)>>)) = n
         /\ \A i \in 1 .. n : Content(<<AddedPiece(d, n)>>)[i][1] = "Added"
<1>1. d.added \in Nat
  BY GoodDocFields
<1>2. /\ AddedPiece(d, n) \in Piece /\ AddedPiece(d, n).len = n /\ AddedPiece(d, n).store = "Added"
      /\ AddedPiece(d, n).offset = d.added
  BY <1>1 DEF AddedPiece, Piece, Store
<1>. DEFINE p == AddedPiece(d, n)
<1>. HIDE DEF p
<1>3. p \in Piece /\ p.len = n /\ p.store = "Added"
  BY <1>2 DEF p
<1>4. /\ Content(<<p>>) = Bytes(p) /\ Bytes(p) \in Seq(Cell) /\ Len(Bytes(p)) = n
      /\ \A i \in 1 .. n : Bytes(p)[i] = <<p.store, p.offset + i - 1>>
  BY <1>3, ContentOfOne, BytesType
<1>5. \A i \in 1 .. n : Bytes(p)[i][1] = "Added"
  BY <1>3, <1>4
<1>6. <<p>> \in Seq(Piece)
  BY <1>3
<1>7. QED
  BY <1>3, <1>4, <1>5, <1>6 DEF p

\* The common ends of the edits: the append and its insertion, committed after
\* the deletion `covered` of what an overwrite replaces; and a bare deletion.
Inserting(d, offset, n) == InsertEdit(offset, <<AddedPiece(d, n)>>)
WithInsertion(d, offset, n) == [Appended(d, n) EXCEPT !.table = Apply(@, Inserting(d, offset, n))]
CommitInsertion(d, offset, n, covered) ==
  Commit(WithInsertion(d, offset, n), Append(covered, Inserting(d, offset, n)))
Deleting(d, offset, n) == DeleteEdit(offset, Removed(d.table, offset, n))
WithDeletion(d, offset, n) == [d EXCEPT !.table = Remove(@, offset, n)]

\* Applying the inserting edit leads from the old content to the new one.
LEMMA InsertionLeads ==
  ASSUME NEW d \in GoodDocs, NEW offset \in Nat, NEW n \in Nat \ {0}, offset <= Length(d)
  PROVE  /\ Inserting(d, offset, n) \in Edits(Piece)
         /\ WithInsertion(d, offset, n) \in Docs(Piece)
         /\ EditLeads(Content(d.table), Inserting(d, offset, n),
                      Content(WithInsertion(d, offset, n).table))
         /\ Joined(Content(d.table), Content(WithInsertion(d, offset, n).table), offset,
                   Content(<<AddedPiece(d, n)>>))
         /\ WithInsertion(d, offset, n).undo = d.undo
         /\ WithInsertion(d, offset, n).savedDepth = d.savedDepth
         /\ WithInsertion(d, offset, n).size = d.size
         /\ WithInsertion(d, offset, n).resizable = d.resizable
         /\ Content(d.table) \in Seq(Cell)
         /\ Content(WithInsertion(d, offset, n).table) \in Seq(Cell)
<1>. DEFINE ps == <<AddedPiece(d, n)>>
            e == Inserting(d, offset, n)
            h == WithInsertion(d, offset, n)
            t == Apply(d.table, e)
<1>1. /\ d \in Docs(Piece) /\ d.table \in Seq(Piece) /\ offset <= TotalLen(d.table)
      /\ d.undo \in Seq(Seq(Edits(Piece))) /\ d.redo \in Seq(Seq(Edits(Piece)))
  BY GoodDocFields, StoredEditsAreEdits DEF GoodDocs, Length
<1>2. ps \in Seq(Piece) /\ e = InsertEdit(offset, ps)
  BY AddedBytes DEF Inserting
<1>3. h = [d EXCEPT !.added = d.added + n, !.spilled = Spills(d, n), !.table = t]
  BY <1>1 DEF Appended, Docs, WithInsertion
<1>. HIDE DEF ps, h, e
<1>4. e \in Edits(Piece) /\ e.kind = "Insert" /\ e.offset = offset /\ e.pieces = ps
  BY <1>2 DEF InsertEdit, Edits
<1>5. t = Splice(d.table, offset, ps)
  BY <1>4 DEF Apply
<1>. HIDE DEF t
<1>6. /\ t \in Seq(Piece)
      /\ Joined(Content(d.table), Content(t), offset, Content(ps))
  BY <1>1, <1>2, <1>5, SpliceJoins
<1>7. Content(t) \in Seq(Cell) /\ Content(d.table) \in Seq(Cell)
  BY <1>1, <1>6, ContentType
<1>8. EditLeads(Content(d.table), e, Content(t))
  BY <1>4, <1>6 DEF EditLeads
<1>9. /\ h.table = t /\ h.undo = d.undo /\ h.size = d.size /\ h.resizable = d.resizable
      /\ h.savedDepth = d.savedDepth /\ h \in Docs(Piece)
  <2>1. d.added + n \in Nat /\ Spills(d, n) \in BOOLEAN
    <3>1. d.added \in Nat /\ d.spilled \in BOOLEAN
      BY <1>1 DEF Docs
    <3>2. QED
      BY <3>1 DEF Spills
  <2>2. QED
    BY <1>1, <1>3, <1>6, <2>1 DEF Docs
<1>10. QED
  BY <1>4, <1>6, <1>7, <1>8, <1>9 DEF e, h, ps

\* g is d after one transaction that began at the content a and ended with the
\* insertion of n added bytes.
EndsWithInsertion(a, d, offset, n, g) ==
  /\ \E tx \in Seq(Edits(Piece)) :
       g.undo = Append(d.undo, tx) /\ TxLeads(a, tx, Content(g.table))
  /\ g.redo = <<>> /\ g.size = d.size /\ g.resizable = d.resizable
  /\ Joined(Content(d.table), Content(g.table), offset, Content(<<AddedPiece(d, n)>>))
  /\ Content(g.table) \in Seq(Cell)
  /\ g.savedDepth # Unreachable =>
       g.savedDepth = d.savedDepth /\ d.savedDepth <= Len(d.undo) + 1

\* Whatever led to the content before, committing the insertion too leads on.
LEMMA CommitInsertionLeads ==
  ASSUME NEW d \in GoodDocs, NEW offset \in Nat, NEW n \in Nat \ {0}, offset <= Length(d),
         NEW covered \in Seq(Edits(Piece)), NEW a, TxLeads(a, covered, Content(d.table))
  PROVE  EndsWithInsertion(a, d, offset, n, CommitInsertion(d, offset, n, covered))
<1>. DEFINE e == Inserting(d, offset, n)
            h == WithInsertion(d, offset, n)
            tx == Append(covered, e)
            g == CommitInsertion(d, offset, n, covered)
<1>1. /\ e \in Edits(Piece) /\ h \in Docs(Piece)
      /\ EditLeads(Content(d.table), e, Content(h.table))
      /\ Joined(Content(d.table), Content(h.table), offset, Content(<<AddedPiece(d, n)>>))
      /\ h.undo = d.undo /\ h.savedDepth = d.savedDepth
      /\ h.size = d.size /\ h.resizable = d.resizable
      /\ Content(d.table) \in Seq(Cell) /\ Content(h.table) \in Seq(Cell)
  BY InsertionLeads
<1>2. g = Commit(h, tx)
  BY DEF CommitInsertion
<1>. HIDE DEF e, h, g
<1>3. tx \in Seq(Edits(Piece)) /\ tx = covered \o <<e>> /\ <<e>> \in Seq(Edits(Piece))
  BY <1>1
<1>4. TxLeads(Content(d.table), <<e>>, Content(h.table))
  BY <1>1, OneLeads
<1>5. TxLeads(a, covered \o <<e>>, Content(h.table))
  BY <1>3, <1>4, LeadsCompose
<1>6. TxLeads(a, tx, Content(h.table))
  BY <1>3, <1>5
<1>. HIDE DEF tx
<1>7. /\ g.undo = Append(h.undo, tx) /\ g.redo = <<>>
      /\ g.table = h.table /\ g.size = h.size /\ g.resizable = h.resizable
      /\ g.savedDepth # Unreachable =>
           g.savedDepth = h.savedDepth /\ h.savedDepth <= Len(h.undo) + 1
  BY <1>1, <1>2, CommitFields
<1>8. QED
  BY <1>1, <1>3, <1>6, <1>7 DEF g, EndsWithInsertion

\* insert is one edit of the user.
LEMMA InsertCommits ==
  ASSUME NEW d \in GoodDocs, NEW offset \in Nat, NEW n \in Nat \ {0}, MayInsert(d, offset, n)
  PROVE  Commits(d, Insert(d, offset, n))
<1>. DEFINE g == Insert(d, offset, n)
            c == <<>>
<1>1. offset <= Length(d) /\ d.resizable
  BY DEF MayInsert
<1>2. c \in Seq(Edits(Piece)) /\ TxLeads(Content(d.table), c, Content(d.table))
  BY GoodDocFields, ContentType, NothingLeads
<1>3. g = CommitInsertion(d, offset, n, c)
  <2>1. \A e : Append(<<>>, e) = <<e>>
    OBVIOUS
  <2>2. QED
    BY <2>1 DEF Insert, CommitInsertion, Inserting, WithInsertion
<1>4. g \in GoodDocs
  BY InsertGood
<1>. HIDE DEF g, c
<1>5. EndsWithInsertion(Content(d.table), d, offset, n, g)
  BY <1>1, <1>2, <1>3, CommitInsertionLeads
<1>6. QED
  BY <1>1, <1>4, <1>5 DEF Commits, EndsWithInsertion, g

\* Applying the deleting edit leads from the old content to the new one.
LEMMA DeletionLeads ==
  ASSUME NEW d \in GoodDocs, NEW offset \in Nat, NEW n \in Nat, offset + n <= Length(d)
  PROVE  /\ Deleting(d, offset, n) \in Edits(Piece)
         /\ WithDeletion(d, offset, n) \in GoodDocs
         /\ WithDeletion(d, offset, n) \in Docs(Piece)
         /\ EditLeads(Content(d.table), Deleting(d, offset, n),
                      Content(WithDeletion(d, offset, n).table))
         /\ WithDeletion(d, offset, n).undo = d.undo
         /\ WithDeletion(d, offset, n).redo = d.redo
         /\ WithDeletion(d, offset, n).savedDepth = d.savedDepth
         /\ WithDeletion(d, offset, n).size = d.size
         /\ WithDeletion(d, offset, n).resizable = d.resizable
         /\ WithDeletion(d, offset, n).added = d.added
         /\ Content(d.table) \in Seq(Cell)
         /\ Content(WithDeletion(d, offset, n).table) \in Seq(Cell)
         /\ Length(WithDeletion(d, offset, n)) = Length(d) - n
         /\ \E x \in Seq(Cell) :
              Len(x) = n /\ Joined(Content(WithDeletion(d, offset, n).table), Content(d.table), offset, x)
<1>. DEFINE x == Removed(d.table, offset, n)
            e == Deleting(d, offset, n)
            h == WithDeletion(d, offset, n)
            t == Remove(d.table, offset, n)
<1>1. /\ d \in Docs(Piece) /\ d.table \in Seq(Piece) /\ offset + n <= TotalLen(d.table)
  BY GoodDocFields DEF GoodDocs, Length
<1>2. /\ t \in Seq(Piece) /\ x \in Seq(Piece)
      /\ Len(Content(x)) = n
      /\ Joined(Content(t), Content(d.table), offset, Content(x))
  BY <1>1, RemoveJoins
<1>3. e = DeleteEdit(offset, x) /\ h = [d EXCEPT !.table = t]
  BY DEF Deleting, WithDeletion
<1>4. h \in GoodDocs /\ h \in Docs(Piece)
  BY RemoveGood DEF WithDeletion, GoodDocs
<1>. HIDE DEF x, e, h, t
<1>5. e \in Edits(Piece) /\ e.kind = "Delete" /\ e.offset = offset /\ e.pieces = x
  BY <1>2, <1>3 DEF DeleteEdit, Edits
<1>6. /\ h.table = t /\ h.undo = d.undo /\ h.redo = d.redo
      /\ h.savedDepth = d.savedDepth /\ h.size = d.size /\ h.resizable = d.resizable
      /\ h.added = d.added
  BY <1>1, <1>3 DEF Docs
<1>7. /\ Content(t) \in Seq(Cell) /\ Content(x) \in Seq(Cell) /\ Content(d.table) \in Seq(Cell)
      /\ Len(Content(d.table)) = Length(d) /\ Length(h) = Len(Content(t))
  BY <1>1, <1>2, <1>6, ContentType, ContentLength DEF Length
<1>8. EditLeads(Content(d.table), e, Content(t))
  BY <1>2, <1>5 DEF EditLeads
<1>9. Length(h) = Length(d) - n
  <2>1. Len(Content(d.table)) = Len(Content(t)) + n
    BY <1>2 DEF Joined
  <2>2. Len(Content(t)) \in Nat
    BY <1>7
  <2>3. QED
    BY <2>1, <2>2, <1>7
<1>10. \E y \in Seq(Cell) : Len(y) = n /\ Joined(Content(t), Content(d.table), offset, y)
  BY <1>2, <1>7
<1>11. QED
  BY <1>4, <1>5, <1>6, <1>7, <1>8, <1>9, <1>10 DEF e, h

\* delete is one edit of the user.
LEMMA DeleteCommits ==
  ASSUME NEW d \in GoodDocs, NEW offset \in Nat, NEW n \in Nat, MayDelete(d, offset, n)
  PROVE  Commits(d, Delete(d, offset, n))
<1>. DEFINE h == WithDeletion(d, offset, n)
            e == Deleting(d, offset, n)
            g == Delete(d, offset, n)
<1>1. offset + n <= Length(d) /\ d.resizable
  BY DEF MayDelete
<1>2. /\ e \in Edits(Piece) /\ h \in Docs(Piece)
      /\ EditLeads(Content(d.table), e, Content(h.table))
      /\ h.undo = d.undo /\ h.savedDepth = d.savedDepth
      /\ h.size = d.size /\ h.resizable = d.resizable
      /\ Content(d.table) \in Seq(Cell) /\ Content(h.table) \in Seq(Cell)
  BY <1>1, DeletionLeads
<1>3. g = Commit(h, <<e>>) /\ g \in GoodDocs
  BY DeleteGood DEF Delete, WithDeletion, Deleting
<1>. HIDE DEF h, e, g
<1>4. <<e>> \in Seq(Edits(Piece)) /\ TxLeads(Content(d.table), <<e>>, Content(h.table))
  BY <1>2, OneLeads
<1>5. /\ g.undo = Append(h.undo, <<e>>) /\ g.redo = <<>>
      /\ g.table = h.table /\ g.size = h.size /\ g.resizable = h.resizable
      /\ g.savedDepth # Unreachable =>
           g.savedDepth = h.savedDepth /\ h.savedDepth <= Len(h.undo) + 1
  BY <1>2, <1>3, CommitFields
<1>6. QED
  BY <1>1, <1>2, <1>3, <1>4, <1>5 DEF Commits, g

\* The first half of an overwrite takes out what the second replaces.
LEMMA UncoveredLeads ==
  ASSUME NEW d \in GoodDocs, NEW offset \in Nat, NEW n \in Nat, offset <= Length(d)
  PROVE  /\ Uncovered(d, offset, n) \in GoodDocs
         /\ Uncovered(d, offset, n).undo = d.undo
         /\ Uncovered(d, offset, n).savedDepth = d.savedDepth
         /\ Uncovered(d, offset, n).size = d.size
         /\ Uncovered(d, offset, n).resizable = d.resizable
         /\ Uncovered(d, offset, n).added = d.added
         /\ offset <= Length(Uncovered(d, offset, n))
         /\ Length(Uncovered(d, offset, n)) = Length(d) - Overlap(d, offset, n)
         /\ Overlap(d, offset, n) \in Nat
         /\ Covered(d, offset, n) \in Seq(Edits(Piece))
         /\ TxLeads(Content(d.table), Covered(d, offset, n), Content(Uncovered(d, offset, n).table))
         /\ Content(d.table) \in Seq(Cell)
         /\ Content(Uncovered(d, offset, n).table) \in Seq(Cell)
         /\ \E x \in Seq(Cell) :
              /\ Len(x) = Overlap(d, offset, n)
              /\ Joined(Content(Uncovered(d, offset, n).table), Content(d.table), offset, x)
<1>. DEFINE m == Overlap(d, offset, n)
            u == Uncovered(d, offset, n)
            e == Deleting(d, offset, m)
            h == WithDeletion(d, offset, m)
            v == Covered(d, offset, n)
            len == Length(d)
            c == Content(d.table)
<1>1. len \in Nat /\ d.table \in Seq(Piece) /\ c \in Seq(Cell) /\ Len(c) = len
  BY GoodDocFields, ContentType, ContentLength DEF Length
<1>2. m = IF len - offset < n THEN len - offset ELSE n
  BY <1>1 DEF Overlap, Smaller
<1>3. /\ m > 0 => u = h /\ v = <<e>>
      /\ ~ (m > 0) => u = d /\ v = <<>>
  BY DEF Uncovered, Covered, Deleting, WithDeletion
<1>4. offset <= len
  OBVIOUS
<1>. HIDE DEF m, u, e, h, v, len
<1>5. m \in Nat /\ offset + m <= len
  BY <1>1, <1>2, <1>4
<1>6. CASE m > 0
  <2>1. /\ e \in Edits(Piece) /\ h \in GoodDocs
        /\ EditLeads(c, e, Content(h.table))
        /\ h.undo = d.undo /\ h.savedDepth = d.savedDepth
        /\ h.size = d.size /\ h.resizable = d.resizable /\ h.added = d.added
        /\ Content(h.table) \in Seq(Cell) /\ Length(h) = Length(d) - m
        /\ \E x \in Seq(Cell) : Len(x) = m /\ Joined(Content(h.table), c, offset, x)
    <3>1. offset + m <= Length(d)
      BY <1>5 DEF len
    <3>2. QED
      BY <3>1, <1>5, DeletionLeads DEF e, h
  <2>2. <<e>> \in Seq(Edits(Piece)) /\ TxLeads(c, <<e>>, Content(h.table))
    BY <2>1, <1>1, OneLeads
  <2>3. u = h /\ v = <<e>>
    BY <1>3, <1>6
  <2>4. offset <= Length(h) /\ Length(h) = len - m
    BY <2>1, <1>1, <1>5 DEF len
  <2>. HIDE DEF c
  <2>5. /\ u \in GoodDocs
        /\ u.undo = d.undo /\ u.savedDepth = d.savedDepth
        /\ u.size = d.size /\ u.resizable = d.resizable /\ u.added = d.added
        /\ offset <= Length(u) /\ Length(u) = Length(d) - m /\ m \in Nat
        /\ v \in Seq(Edits(Piece)) /\ TxLeads(c, v, Content(u.table))
        /\ c \in Seq(Cell) /\ Content(u.table) \in Seq(Cell)
        /\ \E x \in Seq(Cell) : Len(x) = m /\ Joined(Content(u.table), c, offset, x)
    BY <2>1, <2>2, <2>3, <2>4, <1>1, <1>5
  <2>6. QED
    BY <2>5 DEF u, v, m, c
<1>7. CASE ~ (m > 0)
  <2>1. u = d /\ v = <<>> /\ m = 0
    BY <1>3, <1>5, <1>7
  <2>. DEFINE z == <<>>
  <2>2. z \in Seq(Cell) /\ Len(z) = 0 /\ <<>> \in Seq(Edits(Piece))
    OBVIOUS
  <2>3. Joined(c, c, offset, z)
    <3>. HIDE DEF z, c
    <3>1. QED
      BY <1>1, <1>4, <2>2 DEF Joined
  <2>4. TxLeads(c, <<>>, c)
    BY <1>1, NothingLeads
  <2>. HIDE DEF z
  <2>5. \E x \in Seq(Cell) : Len(x) = m /\ Joined(c, c, offset, x)
    BY <2>1, <2>2, <2>3
  <2>6. len - m = len /\ m \in Nat
    BY <2>1, <1>1
  <2>7. QED
    BY <2>1, <2>2, <2>4, <2>5, <2>6, <1>1, <1>4 DEF u, v, m, c, len
<1>8. QED
  BY <1>6, <1>7

\* Replacing bytes by as many added ones keeps every other byte in its place.
LEMMA ReplacedInPlace ==
  ASSUME NEW c \in Seq(Cell), NEW v \in Seq(Cell), NEW w \in Seq(Cell),
         NEW x \in Seq(Cell), NEW y \in Seq(Cell), NEW o \in Nat, NEW n \in Nat, NEW size \in Nat,
         Len(x) = n, Len(y) = n, Joined(v, c, o, x), Joined(v, w, o, y),
         \A i \in 1 .. n : y[i][1] = "Added"
  PROVE  /\ Len(w) = Len(c)
         /\ OwnPlaces(c, size) => OwnPlaces(w, size)
<1>1. /\ o \in 0 .. Len(v) /\ Len(c) = Len(v) + n /\ Len(w) = Len(v) + n /\ Len(v) \in Nat
      /\ \A i \in 1 .. o : c[i] = v[i] /\ w[i] = v[i]
      /\ \A i \in 1 .. n : w[o + i] = y[i]
      /\ \A i \in o + 1 .. Len(v) : c[n + i] = v[i] /\ w[n + i] = v[i]
  BY DEF Joined
<1>2. ASSUME OwnPlaces(c, size), NEW i \in 1 .. size, w[i][1] = "Original"
      PROVE  w[i][2] = i - 1
  <2>1. Len(c) = size /\ (c[i][1] = "Original" => c[i][2] = i - 1)
    BY <1>2 DEF OwnPlaces
  <2>2. CASE i <= o
    BY <2>1, <2>2, <1>1, <1>2
  <2>3. CASE o < i /\ i <= o + n
    <3>1. i - o \in 1 .. n /\ o + (i - o) = i
      BY <2>3, <1>1
    <3>2. w[i][1] = "Added"
      <4>. DEFINE j == i - o
      <4>1. j \in 1 .. n /\ o + j = i
        BY <3>1
      <4>. HIDE DEF j
      <4>2. w[o + j] = y[j] /\ y[j][1] = "Added"
        BY <4>1, <1>1
      <4>3. QED
        BY <4>1, <4>2
    <3>3. QED
      BY <3>2, <1>2
  <2>4. CASE o + n < i
    <3>1. i - n \in o + 1 .. Len(v) /\ n + (i - n) = i
      BY <2>1, <2>4, <1>1
    <3>2. c[i] = w[i]
      BY <3>1, <1>1
    <3>3. QED
      BY <3>2, <2>1, <1>2
  <2>5. QED
    BY <2>2, <2>3, <2>4, <1>1
<1>3. QED
  BY <1>1, <1>2 DEF OwnPlaces

\* overwrite is one edit of the user, its deletion and its insertion together.
LEMMA OverwriteCommits ==
  ASSUME NEW d \in GoodDocs, NEW offset \in Nat, NEW n \in Nat \ {0}, MayOverwrite(d, offset, n)
  PROVE  /\ Commits(d, Overwrite(d, offset, n))
         /\ offset + n <= Length(d) => Length(Overwrite(d, offset, n)) = Length(d)
<1>. DEFINE u == Uncovered(d, offset, n)
            v == Covered(d, offset, n)
            m == Overlap(d, offset, n)
            g == Overwrite(d, offset, n)
            c == Content(d.table)
            y == Content(<<AddedPiece(u, n)>>)
<1>1. offset <= Length(d) /\ (d.resizable \/ offset + n <= Length(d))
  BY DEF MayOverwrite
<1>2. /\ u \in GoodDocs /\ u.undo = d.undo /\ u.savedDepth = d.savedDepth
      /\ u.size = d.size /\ u.resizable = d.resizable /\ u.added = d.added
      /\ offset <= Length(u)
      /\ v \in Seq(Edits(Piece)) /\ TxLeads(c, v, Content(u.table))
      /\ c \in Seq(Cell) /\ Content(u.table) \in Seq(Cell)
      /\ \E x \in Seq(Cell) : Len(x) = m /\ Joined(Content(u.table), c, offset, x)
  BY <1>1, UncoveredLeads
<1>3. g \in GoodDocs
  BY OverwriteGood
<1>4. g = CommitInsertion(u, offset, n, v)
  <2>1. AddedPiece(d, n) = AddedPiece(u, n)
    BY <1>2 DEF AddedPiece
  <2>2. QED
    BY <2>1 DEF Overwrite, CommitInsertion, Inserting, WithInsertion
<1>5. /\ y \in Seq(Cell) /\ Len(y) = n /\ \A i \in 1 .. n : y[i][1] = "Added"
  BY <1>2, AddedBytes
<1>. HIDE DEF g, u, v, c
<1>6. /\ \E tx \in Seq(Edits(Piece)) :
           g.undo = Append(u.undo, tx) /\ TxLeads(c, tx, Content(g.table))
      /\ g.redo = <<>> /\ g.size = u.size /\ g.resizable = u.resizable
      /\ Joined(Content(u.table), Content(g.table), offset, y)
      /\ Content(g.table) \in Seq(Cell)
      /\ g.savedDepth # Unreachable =>
           g.savedDepth = u.savedDepth /\ u.savedDepth <= Len(u.undo) + 1
  <2>1. EndsWithInsertion(c, u, offset, n, g)
    BY <1>2, <1>4, CommitInsertionLeads
  <2>2. QED
    BY <2>1 DEF EndsWithInsertion
<1>. HIDE DEF y
<1>7. ASSUME offset + n <= Length(d)
      PROVE  /\ Len(Content(g.table)) = Len(c)
             /\ OwnPlaces(c, d.size) => OwnPlaces(Content(g.table), d.size)
  <2>1. m = n
    <3>1. Length(d) \in Nat
      BY GoodDocFields
    <3>2. QED
      BY <3>1, <1>7 DEF Overlap, Smaller
  <2>. HIDE DEF m
  <2>2. d.size \in Nat
    BY GoodDocFields
  <2>3. PICK x \in Seq(Cell) : Len(x) = n /\ Joined(Content(u.table), c, offset, x)
    BY <1>2, <2>1
  <2>. DEFINE a == Content(u.table)
              w == Content(g.table)
  <2>. HIDE DEF a, w
  <2>4. /\ a \in Seq(Cell) /\ w \in Seq(Cell) /\ c \in Seq(Cell)
        /\ Joined(a, c, offset, x) /\ Joined(a, w, offset, y)
    BY <1>2, <1>6, <2>3 DEF a, w
  <2>5. Len(w) = Len(c) /\ (OwnPlaces(c, d.size) => OwnPlaces(w, d.size))
    BY <2>2, <2>3, <2>4, <1>5, ReplacedInPlace
  <2>6. QED
    BY <2>5 DEF w
<1>8. Commits(d, g)
  BY <1>1, <1>2, <1>3, <1>6, <1>7 DEF Commits, c
<1>9. offset + n <= Length(d) => Length(g) = Length(d)
  <2>1. Length(g) = Len(Content(g.table)) /\ Length(d) = Len(c)
    BY <1>3, GoodDocFields, ContentLength DEF Length, c
  <2>2. QED
    BY <2>1, <1>7
<1>10. QED
  BY <1>8, <1>9 DEF g

\* What merging does, field by field.
LEMMA MergeFields ==
  ASSUME NEW d \in GoodDocs, NEW m \in Nat \ {0}, Len(d.undo) = m + 1
  PROVE  /\ MergeWithPrevious(d).undo = Append(SubSeq(d.undo, 1, m - 1), d.undo[m] \o d.undo[m + 1])
         /\ MergeWithPrevious(d).table = d.table /\ MergeWithPrevious(d).redo = d.redo
         /\ MergeWithPrevious(d).size = d.size /\ MergeWithPrevious(d).resizable = d.resizable
         /\ MergeWithPrevious(d).savedDepth = IF d.savedDepth = m     THEN Unreachable ELSE
                                              IF d.savedDepth = m + 1 THEN m
                                                                      ELSE d.savedDepth
<1>. DEFINE u == Append(SubSeq(d.undo, 1, m - 1), d.undo[m] \o d.undo[m + 1])
            s == IF d.savedDepth = m     THEN Unreachable ELSE
                 IF d.savedDepth = m + 1 THEN m ELSE d.savedDepth
<1>1. d \in Docs(Piece) /\ d.undo \in Seq(Seq(Edits(Piece)))
  BY StoredEditsAreEdits DEF GoodDocs
<1>2. Len(d.undo) >= 2 /\ Len(d.undo) - 1 = m
  OBVIOUS
<1>3. MergeWithPrevious(d) = [d EXCEPT !.undo = u, !.savedDepth = s]
  <2>1. s = CASE d.savedDepth = m     -> Unreachable
              [] d.savedDepth = m + 1 -> m
              [] OTHER                -> d.savedDepth
    <3>1. m # m + 1
      OBVIOUS
    <3>2. QED
      BY <3>1
  <2>. HIDE DEF s
  <2>2. QED
    BY <1>2, <2>1 DEF MergeWithPrevious, MayMerge
<1>. HIDE DEF u, s
<1>4. /\ MergeWithPrevious(d).undo = u /\ MergeWithPrevious(d).savedDepth = s
      /\ MergeWithPrevious(d).table = d.table /\ MergeWithPrevious(d).redo = d.redo
      /\ MergeWithPrevious(d).size = d.size /\ MergeWithPrevious(d).resizable = d.resizable
  BY <1>1, <1>3 DEF Docs
<1>5. QED
  BY <1>4 DEF u, s

\* The last two of a sequence, the rest kept.
LEMMA TopTwo ==
  ASSUME NEW T, NEW u \in Seq(T), NEW x \in T, NEW y \in T, NEW w, w = Append(Append(u, x), y)
  PROVE  /\ Len(w) = Len(u) + 2 /\ Len(u) \in Nat
         /\ w[Len(u) + 1] = x /\ w[Len(u) + 2] = y
         /\ SubSeq(w, 1, Len(u)) = u
OBVIOUS

\* A second edit merged into the first makes one transaction.
LEMMA MergeCommits ==
  ASSUME NEW d \in GoodDocs, NEW g, Commits(d, g), NEW o, Commits(g, o)
  PROVE  Commits(d, MergeWithPrevious(o))
<1>. DEFINE T == Seq(Edits(Piece))
            n == Len(d.undo)
            h == MergeWithPrevious(o)
<1>1. PICK x \in T : g.undo = Append(d.undo, x) /\ TxLeads(Content(d.table), x, Content(g.table))
  BY DEF Commits
<1>2. PICK y \in T : o.undo = Append(g.undo, y) /\ TxLeads(Content(g.table), y, Content(o.table))
  BY DEF Commits
<1>3. /\ g \in GoodDocs /\ o \in GoodDocs /\ o.redo = <<>>
      /\ g.savedDepth # Unreachable => g.savedDepth = d.savedDepth /\ d.savedDepth <= Len(d.undo) + 1
      /\ o.savedDepth # Unreachable => o.savedDepth = g.savedDepth /\ g.savedDepth <= Len(g.undo) + 1
      /\ o.size = d.size /\ o.resizable = d.resizable
      /\ ~ d.resizable /\ OwnPlaces(Content(d.table), d.size) => OwnPlaces(Content(o.table), d.size)
  BY DEF Commits
<1>4. d.undo \in Seq(T) /\ d.savedDepth \in Nat \cup {Unreachable} /\ h \in GoodDocs
  BY <1>3, StoredEditsAreEdits, GoodDocFields, MergeGood
<1>5. /\ Len(o.undo) = n + 2 /\ n \in Nat
      /\ o.undo[n + 1] = x /\ o.undo[n + 2] = y /\ SubSeq(o.undo, 1, n) = d.undo
  <2>1. o.undo = Append(Append(d.undo, x), y)
    BY <1>1, <1>2
  <2>. HIDE DEF T
  <2>2. QED
    BY <1>4, <2>1, TopTwo
<1>. HIDE DEF T, n, h
<1>6. /\ n + 1 \in Nat \ {0} /\ (n + 1) + 1 = n + 2 /\ (n + 1) - 1 = n
  BY <1>5
<1>7. /\ h.undo = Append(SubSeq(o.undo, 1, n), o.undo[n + 1] \o o.undo[n + 2])
      /\ h.table = o.table /\ h.redo = o.redo
      /\ h.size = o.size /\ h.resizable = o.resizable
      /\ h.savedDepth = IF o.savedDepth = n + 1 THEN Unreachable ELSE
                        IF o.savedDepth = n + 2 THEN n + 1 ELSE o.savedDepth
  <2>. DEFINE m == n + 1
  <2>1. m \in Nat \ {0} /\ Len(o.undo) = m + 1
    BY <1>5, <1>6
  <2>. HIDE DEF m
  <2>2. /\ h.undo = Append(SubSeq(o.undo, 1, m - 1), o.undo[m] \o o.undo[m + 1])
        /\ h.table = o.table /\ h.redo = o.redo
        /\ h.size = o.size /\ h.resizable = o.resizable
        /\ h.savedDepth = IF o.savedDepth = m THEN Unreachable ELSE
                          IF o.savedDepth = m + 1 THEN m ELSE o.savedDepth
    BY <1>3, <2>1, MergeFields DEF h
  <2>3. m + 1 = n + 2 /\ m - 1 = n
    BY <1>6 DEF m
  <2>4. QED
    BY <2>2, <2>3 DEF m
<1>8. h.undo = Append(d.undo, x \o y)
  BY <1>5, <1>7
<1>9. x \o y \in T /\ TxLeads(Content(d.table), x \o y, Content(h.table))
  <2>1. TxLeads(Content(d.table), x \o y, Content(o.table))
    BY <1>1, <1>2, LeadsCompose DEF T
  <2>2. x \o y \in T
    BY DEF T
  <2>3. QED
    BY <2>1, <2>2, <1>7
<1>10. h.savedDepth # Unreachable => h.savedDepth = d.savedDepth /\ d.savedDepth <= n + 1
  <2>. DEFINE s == d.savedDepth
              r == h.savedDepth
              q == o.savedDepth
  <2>1. /\ q # Unreachable => q = s /\ s <= n + 1
        /\ r = IF q = n + 1 THEN Unreachable ELSE IF q = n + 2 THEN n + 1 ELSE q
        /\ s \in Nat \cup {Unreachable} /\ n \in Nat
    BY <1>3, <1>4, <1>5, <1>7 DEF n
  <2>. HIDE DEF s, r, q
  <2>2. r # Unreachable => r = s /\ s <= n + 1
    BY <2>1 DEF Unreachable
  <2>3. QED
    BY <2>2 DEF s, r
<1>11. /\ h.redo = <<>> /\ h.size = d.size /\ h.resizable = d.resizable
       /\ ~ d.resizable /\ OwnPlaces(Content(d.table), d.size) => OwnPlaces(Content(h.table), d.size)
  BY <1>3, <1>7
<1>12. h.savedDepth # Unreachable => h.savedDepth = d.savedDepth /\ d.savedDepth <= Len(d.undo) + 1
  BY <1>10 DEF n
<1>13. QED
  BY <1>4, <1>8, <1>9, <1>11, <1>12 DEF Commits, h, T

\* The chunks of a fill end inside it.
LEMMA ChunkEnds ==
  ASSUME NEW n \in Nat \ {0}, NEW k \in 1 .. Chunks(n)
  PROVE  /\ (k - 1) * FillChunk \in Nat /\ ChunkLen(n, k - 1) \in Nat \ {0}
         /\ (k - 1) * FillChunk + ChunkLen(n, k - 1) <= n
<1>1. Chunks(n) \in Nat /\ FillChunk \in Nat \ {0}
  BY ChunkBounds, FillChunkAssumption
<1>2. k - 1 \in 0 .. Chunks(n) - 1
  BY <1>1
<1>3. (k - 1) * FillChunk \in Nat /\ ChunkLen(n, k - 1) \in Nat \ {0}
  BY <1>2, ChunkBounds
<1>. DEFINE x == (k - 1) * FillChunk
<1>4. ChunkLen(n, k - 1) = Smaller(n - x, FillChunk) /\ x \in Nat
  BY <1>3 DEF ChunkLen
<1>. HIDE DEF x
<1>5. x + Smaller(n - x, FillChunk) <= n
  BY <1>1, <1>4 DEF Smaller
<1>6. QED
  BY <1>3, <1>4, <1>5 DEF x

\* However many chunks it takes, a fill is one transaction.
LEMMA FillCommits ==
  ASSUME NEW d \in GoodDocs, NEW offset \in Nat, NEW n \in Nat \ {0}, MayFill(d, offset, n)
  PROVE  \A k \in 1 .. Chunks(n) : Commits(d, FilledUpTo(d, offset, n)[k])
<1>. DEFINE f == FilledUpTo(d, offset, n)
            c == Chunks(n)
            len == Length(d)
            S == {k \in 0 .. c : k > 0 => Commits(d, f[k]) /\ Length(f[k]) = len}
<1>1. /\ f[0] = d /\ \A k \in 1 .. c : f[k] = FillStep(f[k - 1], offset, n, k)
  BY FillStepGood, FillRecursion
<1>2. c \in Nat /\ len \in Nat /\ offset + n <= len
  BY ChunkBounds, GoodDocFields DEF MayFill
<1>3. \A k \in 1 .. c : /\ (k - 1) * FillChunk \in Nat /\ ChunkLen(n, k - 1) \in Nat \ {0}
                        /\ (k - 1) * FillChunk + ChunkLen(n, k - 1) <= n
  BY ChunkEnds
<1>. HIDE DEF f, c
<1>4. 0 \in S
  BY <1>2
<1>5. ASSUME NEW k \in 1 .. c, k - 1 \in S PROVE k \in S
  <2>. DEFINE at == offset + (k - 1) * FillChunk
              m == ChunkLen(n, k - 1)
              g == f[k - 1]
              o == Overwrite(g, at, m)
              x == (k - 1) * FillChunk
  <2>1. k \in 0 .. c /\ k - 1 \in Nat /\ k \in Nat /\ (k > 1 <=> k - 1 > 0) /\ (k = 1 <=> k - 1 = 0)
    BY <1>2
  <2>2. at \in Nat /\ m \in Nat \ {0} /\ at + m <= len
    <3>1. x \in Nat /\ m \in Nat \ {0} /\ x + m <= n
      BY <1>3
    <3>. HIDE DEF x, m, len
    <3>2. offset + x \in Nat /\ (offset + x) + m <= len
      BY <3>1, <1>2
    <3>3. QED
      BY <3>1, <3>2 DEF x
  <2>3. f[k] = IF k > 1 THEN MergeWithPrevious(o) ELSE o
    BY <1>1 DEF FillStep
  <2>4. g \in GoodDocs /\ Length(g) = len /\ (k > 1 => Commits(d, g)) /\ (k = 1 => g = d)
    <3>1. CASE k = 1
      BY <3>1, <1>1, <2>1
    <3>2. CASE k # 1
      <4>1. Commits(d, g) /\ Length(g) = len
        BY <3>2, <1>5, <2>1
      <4>2. QED
        BY <4>1, <3>2 DEF Commits
    <3>3. QED
      BY <3>1, <3>2
  <2>. HIDE DEF at, m, g
  <2>5. Commits(g, o) /\ Length(o) = len
    <3>1. MayOverwrite(g, at, m)
      <4>1. at <= len
        BY <2>2, <1>2
      <4>2. QED
        BY <4>1, <2>2, <2>4 DEF MayOverwrite
    <3>2. QED
      BY <3>1, <2>2, <2>4, OverwriteCommits
  <2>. HIDE DEF o, len
  <2>6. CASE k = 1
    <3>1. f[k] = o /\ g = d
      BY <2>1, <2>3, <2>4, <2>6
    <3>2. QED
      BY <3>1, <2>1, <2>5
  <2>7. CASE k # 1
    <3>1. f[k] = MergeWithPrevious(o) /\ Commits(d, g)
      BY <2>1, <2>3, <2>4, <2>7
    <3>2. Commits(d, MergeWithPrevious(o))
      BY <3>1, <2>5, MergeCommits
    <3>3. Length(MergeWithPrevious(o)) = len
      <4>1. o \in GoodDocs /\ o \in Docs(Piece)
        BY <2>5 DEF Commits, GoodDocs
      <4>2. MergeWithPrevious(o).table = o.table
        BY <4>1 DEF MergeWithPrevious, Docs
      <4>3. QED
        BY <4>2, <2>5 DEF Length
    <3>4. QED
      BY <3>1, <3>2, <3>3, <2>1
  <2>8. QED
    BY <2>6, <2>7
<1>6. \A k \in 0 .. c : k \in S
  <2>. HIDE DEF S
  <2>1. QED
    BY <1>2, <1>4, <1>5, PrefixInduction
<1>7. \A k \in 1 .. c : k \in 0 .. c /\ k > 0
  BY <1>2
<1>8. \A k \in 1 .. c : Commits(d, f[k])
  BY <1>6, <1>7
<1>9. QED
  BY <1>8 DEF f, c

\* A fill of at least one byte has at least one chunk.
LEMMA SomeChunks ==
  ASSUME NEW n \in Nat \ {0}
  PROVE  Chunks(n) \in 1 .. Chunks(n)
<1>1. FillChunk \in Nat \ {0} /\ n + FillChunk - 1 \in Nat /\ n + FillChunk - 1 >= FillChunk
  BY FillChunkAssumption
<1>2. Chunks(n) \in Nat
  BY ChunkBounds
<1>. DEFINE x == n + FillChunk - 1
<1>. HIDE DEF x
<1>3. Chunks(n) = x \div FillChunk /\ x \in Nat /\ x >= FillChunk
  BY <1>1 DEF Chunks, x
<1>4. x \div FillChunk >= 1
  BY <1>1, <1>3
<1>5. QED
  BY <1>2, <1>3, <1>4

\* Every edit is one commit.
LEMMA EditCommits ==
  ASSUME Inv, NEW offset \in Offsets, NEW n \in Sizes, EditAt(offset, n)
  PROVE  Commits(doc, doc') /\ panicked' = panicked
<1>1. doc \in GoodDocs /\ panicked' = panicked
  BY DEF Inv, EditAt
<1>2. offset \in Nat /\ n \in Nat \ {0}
  <2>1. Length(doc) \in Nat /\ MaxWrite \in Nat
    BY <1>1, GoodDocFields, BoundsAssumption
  <2>2. QED
    BY <2>1 DEF Offsets, Sizes
<1>3. CASE InsertAt(offset, n)
  BY <1>1, <1>2, <1>3, InsertCommits DEF InsertAt
<1>4. CASE DeleteAt(offset, n)
  BY <1>1, <1>2, <1>4, DeleteCommits DEF DeleteAt
<1>5. CASE OverwriteAt(offset, n)
  BY <1>1, <1>2, <1>5, OverwriteCommits DEF OverwriteAt
<1>6. CASE FillAt(offset, n)
  <2>1. MayFill(doc, offset, n) /\ doc' = FilledUpTo(doc, offset, n)[Chunks(n)]
    BY <1>6 DEF FillAt, Fill
  <2>2. Chunks(n) \in 1 .. Chunks(n)
    BY <1>2, SomeChunks
  <2>3. QED
    BY <1>1, <1>2, <2>1, <2>2, FillCommits
<1>7. QED
  BY <1>3, <1>4, <1>5, <1>6 DEF EditAt

\* A content whose source bytes stand at their own places comes from a table
\* whose source pieces do.
LEMMA InPlaceTable ==
  ASSUME NEW t \in Seq(Piece), NEW size \in Nat, OwnPlaces(Content(t), size),
         \A k \in 1 .. Len(t) : t[k].len > 0
  PROVE  CanSaveInPlace(t, size)
<1>. DEFINE n == Len(t)
            E == Ends(t)
            c == Content(t)
<1>1. ASSUME NEW k \in 1 .. n, t[k].store = "Original" PROVE t[k].offset = E[k - 1]
  <2>1. t[k].len \in Nat /\ t[k].len > 0 /\ t[k].offset \in Nat
    BY EndsFacts
  <2>2. 1 \in 1 .. t[k].len
    BY <2>1
  <2>3. E[k - 1] + 1 \in 1 .. Len(c) /\ c[E[k - 1] + 1] = <<t[k].store, t[k].offset + 1 - 1>>
    BY <2>2, CellAt
  <2>4. k - 1 \in 0 .. n
    OBVIOUS
  <2>5. E[k - 1] \in Nat
    BY <2>4, EndsFacts
  <2>. DEFINE e == E[k - 1]
  <2>6. Len(c) = size /\ \A i \in 1 .. size : c[i][1] = "Original" => c[i][2] = i - 1
    BY DEF OwnPlaces
  <2>. HIDE DEF c, E, e
  <2>7. e \in Nat /\ e + 1 \in 1 .. size /\ c[e + 1] = <<"Original", t[k].offset + 1 - 1>>
    BY <1>1, <2>3, <2>5, <2>6 DEF e
  <2>8. c[e + 1][1] = "Original" /\ c[e + 1][2] = t[k].offset + 1 - 1
    BY <2>7
  <2>9. c[e + 1][2] = e + 1 - 1
    BY <2>6, <2>7, <2>8
  <2>10. t[k].offset = e
    BY <2>1, <2>7, <2>8, <2>9
  <2>11. QED
    BY <2>10 DEF e
<1>2. TotalLen(t) = size
  BY ContentLength DEF OwnPlaces
<1>3. QED
  BY <1>1, <1>2 DEF CanSaveInPlace
=============================================================================
