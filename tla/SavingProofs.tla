---------------------------- MODULE SavingProofs ----------------------------
(***************************************************************************)
(* Theorems about saving: what SavingHistory states of the files, the      *)
(* backups and the block cache, for every document, every block size and   *)
(* capacity, every set of unreadable blocks and every number of saves.     *)
(*                                                                         *)
(* The inductive invariant SInv says of a running editor that the files    *)
(* and the history are well typed, that the cache remembers only true      *)
(* answers (CacheOk), how far the save in progress has come (Saving: what  *)
(* has been streamed and what is left make the document; what a save in    *)
(* place has not written yet is in the ranges left), that a file which is  *)
(* not being patched is on the disk as it was saved (Whole), and that the  *)
(* backup is there before anything else may write the file (BackedUp).     *)
(***************************************************************************)
EXTENDS SavingHistory, DocumentProofs, FiniteSetTheorems

-----------------------------------------------------------------------------
(* Sequences, and the order of the cache. *)

\* No element twice.
Distinct(s) == \A j \in 1 .. Len(s) : \A k \in 1 .. Len(s) : s[j] = s[k] => j = k

\* The cache's two structures name the same blocks, each once, within the capacity.
Coherent(c) ==
  /\ c = [blocks |-> c.blocks, order |-> c.order]
  /\ c.order \in Seq(Nat) /\ Distinct(c.order) /\ Len(c.order) <= Capacity
  /\ DOMAIN c.blocks = Cells(c.order)

\* A concatenation, element by element.
LEMMA ConcatAt ==
  ASSUME NEW V, NEW s \in Seq(V), NEW u \in Seq(V)
  PROVE  /\ s \o u \in Seq(V) /\ Len(s \o u) = Len(s) + Len(u)
         /\ Len(s) \in Nat /\ Len(u) \in Nat
         /\ \A j \in 1 .. Len(s) : (s \o u)[j] = s[j]
         /\ \A j \in 1 .. Len(u) : (s \o u)[Len(s) + j] = u[j]
OBVIOUS

\* An element moved to the end, as a touched block is.
LEMMA CutOut ==
  ASSUME NEW s \in Seq(Nat), Distinct(s), NEW k \in 1 .. Len(s)
  PROVE  LET q == SubSeq(s, 1, k - 1) \o SubSeq(s, k + 1, Len(s)) \o <<s[k]>>
         IN  /\ q \in Seq(Nat) /\ Len(q) = Len(s) /\ Distinct(q) /\ Cells(q) = Cells(s)
<1>. DEFINE n == Len(s)
            a == SubSeq(s, 1, k - 1)
            b == SubSeq(s, k + 1, n)
            q == a \o b \o <<s[k]>>
            place(j) == IF j < k THEN j ELSE IF j < n THEN j + 1 ELSE k
<1>1. n \in Nat /\ k \in Nat /\ 1 <= k /\ k <= n /\ \A j \in 1 .. n : s[j] \in Nat
  OBVIOUS
<1>2. /\ a \in Seq(Nat) /\ Len(a) = k - 1 /\ \A j \in 1 .. k - 1 : a[j] = s[j]
  OBVIOUS
<1>3. /\ b \in Seq(Nat) /\ Len(b) = n - k /\ \A j \in 1 .. n - k : b[j] = s[k + j]
  OBVIOUS
<1>. HIDE DEF a, b
<1>4. /\ a \o b \in Seq(Nat) /\ Len(a \o b) = n - 1
      /\ \A j \in 1 .. k - 1 : (a \o b)[j] = a[j]
      /\ \A j \in 1 .. n - k : (a \o b)[k - 1 + j] = b[j]
  <2>1. /\ a \o b \in Seq(Nat) /\ Len(a \o b) = Len(a) + Len(b)
        /\ \A j \in 1 .. Len(a) : (a \o b)[j] = a[j]
        /\ \A j \in 1 .. Len(b) : (a \o b)[Len(a) + j] = b[j]
    <3>1. a \in Seq(Nat) /\ b \in Seq(Nat)
      BY <1>2, <1>3
    <3>. HIDE DEF n
    <3>2. QED
      BY <3>1, ConcatAt
  <2>2. Len(a) + Len(b) = n - 1
    BY <1>1, <1>2, <1>3
  <2>3. QED
    BY <2>1, <2>2, <1>2, <1>3, Zenon
<1>. DEFINE c == a \o b
<1>5. \A j \in 1 .. n - 1 : c[j] = s[place(j)]
  <2>1. SUFFICES ASSUME NEW j \in 1 .. n - 1 PROVE c[j] = s[place(j)]
    OBVIOUS
  <2>2. CASE j < k
    BY <1>1, <1>2, <1>4, <2>2
  <2>3. CASE ~ (j < k)
    <3>. DEFINE i == j - (k - 1)
    <3>1. i \in 1 .. n - k /\ k - 1 + i = j /\ k + i = j + 1 /\ j < n
      BY <1>1, <2>3
    <3>. HIDE DEF i
    <3>2. c[k - 1 + i] = s[k + i]
      BY <1>3, <1>4, <3>1
    <3>3. QED
      BY <2>3, <3>1, <3>2
  <2>4. QED
    BY <2>2, <2>3
<1>. HIDE DEF c
<1>6. /\ q \in Seq(Nat) /\ Len(q) = n
      /\ \A j \in 1 .. n - 1 : q[j] = c[j]
      /\ q[n] = s[k]
  <2>1. q = c \o <<s[k]>> /\ c \in Seq(Nat) /\ Len(c) = n - 1 /\ s[k] \in Nat
    BY <1>1, <1>4 DEF c
  <2>. DEFINE x == s[k]
  <2>. HIDE DEF q, x, n
  <2>2. QED
    BY <1>1, <2>1, SMTT(30) DEF x
<1>. HIDE DEF q
<1>7. ASSUME NEW j \in 1 .. n PROVE place(j) \in 1 .. n /\ q[j] = s[place(j)]
  <2>1. CASE j = n
    BY <1>1, <1>6, <2>1
  <2>2. CASE j # n
    BY <1>1, <1>5, <1>6, <2>2
  <2>3. QED
    BY <2>1, <2>2
<1>8. ASSUME NEW j \in 1 .. n, NEW i \in 1 .. n, place(j) = place(i) PROVE j = i
  BY <1>1, <1>8
<1>9. ASSUME NEW j \in 1 .. n PROVE \E i \in 1 .. n : place(i) = j
  <2>1. CASE j < k
    BY <1>1, <2>1
  <2>2. CASE j = k
    BY <1>1, <2>2
  <2>3. CASE j > k
    <3>1. j - 1 \in 1 .. n /\ place(j - 1) = j
      BY <1>1, <2>3
    <3>2. QED
      BY <3>1
  <2>4. QED
    BY <1>1, <2>1, <2>2, <2>3
<1>. HIDE DEF place, n
<1>10. Distinct(q)
  <2>1. ASSUME NEW j \in 1 .. n, NEW i \in 1 .. n, q[j] = q[i] PROVE j = i
    <3>1. s[place(j)] = s[place(i)] /\ place(j) \in 1 .. n /\ place(i) \in 1 .. n
      BY <1>7, <2>1
    <3>2. place(j) = place(i)
      BY <3>1 DEF Distinct, n
    <3>3. QED
      BY <1>8, <3>2
  <2>2. QED
    BY <1>6, <2>1 DEF Distinct
<1>11. Cells(q) = Cells(s)
  <2>1. ASSUME NEW j \in 1 .. n PROVE \E i \in 1 .. n : q[j] = s[i]
    BY <1>7
  <2>2. ASSUME NEW j \in 1 .. n PROVE \E i \in 1 .. n : q[i] = s[j]
    BY <1>7, <1>9
  <2>3. Cells(q) = {q[j] : j \in 1 .. n} /\ Cells(s) = {s[j] : j \in 1 .. n}
    BY <1>6 DEF Cells, n
  <2>4. ASSUME NEW x \in Cells(q) PROVE x \in Cells(s)
    <3>1. PICK j \in 1 .. n : x = q[j]
      BY <2>3
    <3>2. QED
      BY <2>1, <2>3, <3>1
  <2>5. ASSUME NEW x \in Cells(s) PROVE x \in Cells(q)
    <3>1. PICK j \in 1 .. n : x = s[j]
      BY <2>3
    <3>2. QED
      BY <2>2, <2>3, <3>1
  <2>6. QED
    BY <2>4, <2>5
<1>12. QED
  BY <1>6, <1>10, <1>11 DEF q, a, b, n

\* Asking for a cached block moves it to the end of the order.
LEMMA TouchCoherent ==
  ASSUME NEW c, Coherent(c), NEW i \in DOMAIN c.blocks
  PROVE  Coherent(Touch(c, i)) /\ Touch(c, i).blocks = c.blocks
<1>. DEFINE s == c.order
            k == Position(s, i)
            q == SubSeq(s, 1, k - 1) \o SubSeq(s, k + 1, Len(s)) \o <<i>>
<1>1. s \in Seq(Nat) /\ Distinct(s) /\ c = [blocks |-> c.blocks, order |-> s]
      /\ DOMAIN c.blocks = Cells(s) /\ Len(s) <= Capacity
  BY DEF Coherent
<1>2. k \in 1 .. Len(s) /\ s[k] = i
  <2>1. \E j \in 1 .. Len(s) : s[j] = i
    BY <1>1 DEF Cells
  <2>2. QED
    BY <2>1 DEF Position
<1>3. Touch(c, i) = [blocks |-> c.blocks, order |-> q]
  <2>1. Touch(c, i) = [c EXCEPT !.order = q]
    BY DEF Touch
  <2>. HIDE DEF q
  <2>2. [[blocks |-> c.blocks, order |-> s] EXCEPT !.order = q] = [blocks |-> c.blocks, order |-> q]
    OBVIOUS
  <2>3. QED
    BY <1>1, <2>1, <2>2, Zenon
<1>4. q \in Seq(Nat) /\ Len(q) = Len(s) /\ Distinct(q) /\ Cells(q) = Cells(s)
  <2>. HIDE DEF s, k
  <2>1. QED
    BY <1>1, <1>2, CutOut
<1>. HIDE DEF q, s
<1>5. QED
  BY <1>1, <1>3, <1>4 DEF Coherent

\* What is left of a sequence without repetitions once its first e elements went.
LEMMA DropOldest ==
  ASSUME NEW s \in Seq(Nat), Distinct(s), NEW e \in 0 .. Len(s)
  PROVE  LET q == SubSeq(s, e + 1, Len(s))
         IN  /\ q \in Seq(Nat) /\ Len(q) = Len(s) - e /\ Distinct(q)
             /\ Cells(q) = Cells(s) \ {s[k] : k \in 1 .. e}
<1>. DEFINE n == Len(s)
            q == SubSeq(s, e + 1, n)
            gone == {s[k] : k \in 1 .. e}
<1>1. n \in Nat /\ e \in Nat /\ e <= n
  OBVIOUS
<1>2. q \in Seq(Nat) /\ Len(q) = n - e /\ \A j \in 1 .. n - e : q[j] = s[e + j]
  OBVIOUS
<1>3. \A j \in 1 .. n : \A k \in 1 .. n : s[j] = s[k] => j = k
  BY DEF Distinct
<1>4. Cells(s) = {s[j] : j \in 1 .. n}
  BY DEF Cells
<1>. HIDE DEF q, n
<1>5. Cells(q) = {q[j] : j \in 1 .. n - e}
  BY <1>2 DEF Cells
<1>6. Distinct(q)
  <2>1. SUFFICES ASSUME NEW j \in 1 .. n - e, NEW k \in 1 .. n - e, q[j] = q[k] PROVE j = k
    BY <1>2 DEF Distinct
  <2>2. s[e + j] = s[e + k] /\ e + j \in 1 .. n /\ e + k \in 1 .. n
    BY <1>1, <1>2, <2>1
  <2>3. e + j = e + k
    BY <1>3, <2>2
  <2>4. QED
    BY <1>1, <2>3
<1>7. ASSUME NEW j \in 1 .. n - e PROVE q[j] \in Cells(s) /\ q[j] \notin gone
  <2>1. e + j \in 1 .. n /\ q[j] = s[e + j]
    BY <1>1, <1>2
  <2>2. ASSUME NEW k \in 1 .. e PROVE s[k] # s[e + j]
    BY <1>1, <1>3, <2>1
  <2>3. QED
    BY <1>4, <2>1, <2>2
<1>8. ASSUME NEW j \in 1 .. n, s[j] \notin gone PROVE s[j] \in Cells(q)
  <2>1. ~ (j \in 1 .. e)
    BY <1>8
  <2>. DEFINE i == j - e
  <2>2. i \in 1 .. n - e /\ e + i = j
    BY <1>1, <2>1
  <2>. HIDE DEF i
  <2>3. QED
    BY <1>2, <1>5, <2>2
<1>. HIDE DEF gone
<1>9. Cells(q) = Cells(s) \ gone
  <2>1. ASSUME NEW x \in Cells(q) PROVE x \in Cells(s) \ gone
    BY <1>5, <1>7
  <2>2. ASSUME NEW x \in Cells(s) \ gone PROVE x \in Cells(q)
    BY <1>4, <1>8
  <2>3. QED
    BY <2>1, <2>2
<1>10. QED
  BY <1>2, <1>6, <1>9 DEF q, n, gone

\* An element that was not there goes behind the others.
LEMMA PushNew ==
  ASSUME NEW q \in Seq(Nat), Distinct(q), NEW i \in Nat, i \notin Cells(q)
  PROVE  /\ Append(q, i) \in Seq(Nat) /\ Len(Append(q, i)) = Len(q) + 1
         /\ Distinct(Append(q, i)) /\ Cells(Append(q, i)) = Cells(q) \cup {i}
<1>. DEFINE m == Len(q)
            r == Append(q, i)
<1>1. /\ m \in Nat /\ r \in Seq(Nat) /\ Len(r) = m + 1 /\ r[m + 1] = i
      /\ \A j \in 1 .. m : r[j] = q[j]
  OBVIOUS
<1>2. /\ \A j \in 1 .. m : \A k \in 1 .. m : q[j] = q[k] => j = k
      /\ \A j \in 1 .. m : q[j] # i
      /\ Cells(q) = {q[j] : j \in 1 .. m}
  BY DEF Distinct, Cells
<1>. HIDE DEF m, r
<1>3. ASSUME NEW j \in 1 .. m + 1 PROVE j = m + 1 \/ j \in 1 .. m
  BY <1>1
<1>4. Distinct(r)
  <2>1. SUFFICES ASSUME NEW j \in 1 .. m + 1, NEW k \in 1 .. m + 1, r[j] = r[k] PROVE j = k
    BY <1>1 DEF Distinct
  <2>2. QED
    BY <1>1, <1>2, <1>3, <2>1
<1>5. Cells(r) = {r[j] : j \in 1 .. m + 1}
  BY <1>1 DEF Cells
<1>6. Cells(r) = Cells(q) \cup {i}
  <2>1. ASSUME NEW j \in 1 .. m + 1 PROVE r[j] \in Cells(q) \cup {i}
    BY <1>1, <1>2, <1>3
  <2>2. ASSUME NEW j \in 1 .. m PROVE q[j] = r[j] /\ j \in 1 .. m + 1
    BY <1>1
  <2>3. i = r[m + 1] /\ m + 1 \in 1 .. m + 1
    BY <1>1
  <2>4. QED
    BY <1>2, <1>5, <2>1, <2>2, <2>3
<1>7. QED
  BY <1>1, <1>4, <1>6 DEF m, r

\* A block that was not cached takes the place of the oldest ones.
LEMMA InsertionCoherent ==
  ASSUME NEW c, Coherent(c), NEW i \in Nat, i \notin DOMAIN c.blocks, NEW answer
  PROVE  /\ Coherent(Insertion(c, i, answer))
         /\ \A j \in DOMAIN Insertion(c, i, answer).blocks :
              \/ j \in DOMAIN c.blocks /\ Insertion(c, i, answer).blocks[j] = c.blocks[j]
              \/ j = i /\ Insertion(c, i, answer).blocks[j] = answer
<1>. DEFINE s == c.order
            n == Len(s)
            e == Evicted(c)
            gone == {s[k] : k \in 1 .. e}
            q == SubSeq(s, e + 1, n)
            D == (DOMAIN c.blocks \ gone) \cup {i}
            bs == [j \in D |-> IF j = i THEN answer ELSE c.blocks[j]]
            g == Insertion(c, i, answer)
<1>1. /\ s \in Seq(Nat) /\ Distinct(s) /\ n <= Capacity /\ n \in Nat /\ Capacity \in Nat \ {0}
      /\ DOMAIN c.blocks = Cells(s)
  BY CacheAssumption DEF Coherent
<1>2. e \in 0 .. n /\ (n - e) + 1 <= Capacity
  <2>1. e = IF n >= Capacity THEN n - Capacity + 1 ELSE 0
    BY DEF Evicted
  <2>. HIDE DEF e, n
  <2>2. QED
    BY <1>1, <2>1
<1>3. g = [blocks |-> bs, order |-> Append(q, i)]
  BY DEF Insertion
<1>. HIDE DEF e, s
<1>4. q \in Seq(Nat) /\ Len(q) = n - e /\ Distinct(q) /\ Cells(q) = Cells(s) \ gone
  BY <1>1, <1>2, DropOldest
<1>. HIDE DEF q, n, gone
<1>5. /\ Append(q, i) \in Seq(Nat) /\ Len(Append(q, i)) = (n - e) + 1
      /\ Distinct(Append(q, i)) /\ Cells(Append(q, i)) = Cells(q) \cup {i}
  BY <1>1, <1>4, PushNew
<1>6. Coherent(g)
  <2>1. DOMAIN bs = Cells(q) \cup {i}
    BY <1>1, <1>4
  <2>. HIDE DEF bs, g
  <2>2. g.blocks = bs /\ g.order = Append(q, i)
    BY <1>3
  <2>3. QED
    BY <1>2, <1>3, <1>5, <2>1, <2>2 DEF Coherent
<1>7. g.blocks = bs
  BY <1>3
<1>8. \A j \in DOMAIN bs : \/ j \in DOMAIN c.blocks /\ bs[j] = c.blocks[j]
                           \/ j = i /\ bs[j] = answer
  OBVIOUS
<1>. HIDE DEF g, bs
<1>9. QED
  BY <1>6, <1>7, <1>8 DEF g

\* A block asked for is answered from the cache, or remembered if it may be.
LEMMA AskedCoherent ==
  ASSUME NEW c, Coherent(c), NEW i \in Nat, NEW answer
  PROVE  /\ Coherent(Asked(c, i, answer))
         /\ \A j \in DOMAIN Asked(c, i, answer).blocks :
              \/ j \in DOMAIN c.blocks /\ Asked(c, i, answer).blocks[j] = c.blocks[j]
              \/ j = i /\ Cacheable(answer) /\ Asked(c, i, answer).blocks[j] = answer
<1>1. CASE i \in DOMAIN c.blocks
  <2>1. Asked(c, i, answer) = Touch(c, i)
    BY <1>1 DEF Asked
  <2>2. QED
    BY <1>1, <2>1, TouchCoherent
<1>2. CASE i \notin DOMAIN c.blocks /\ Cacheable(answer)
  <2>1. Asked(c, i, answer) = Insertion(c, i, answer)
    BY <1>2 DEF Asked
  <2>2. QED
    BY <1>2, <2>1, InsertionCoherent
<1>3. CASE i \notin DOMAIN c.blocks /\ ~ Cacheable(answer)
  BY <1>3 DEF Asked
<1>4. QED
  BY <1>1, <1>2, <1>3

\* A coherent cache holds as many blocks as its order is long.
LEMMA CountsBlocks ==
  ASSUME NEW c, Coherent(c)
  PROVE  Len(c.order) = Cardinality(DOMAIN c.blocks)
<1>. DEFINE s == c.order
            n == Len(s)
            D == DOMAIN c.blocks
<1>1. s \in Seq(Nat) /\ n \in Nat /\ D = {s[j] : j \in 1 .. n} /\ s \in [1 .. n -> Nat]
      /\ \A j \in 1 .. n : \A k \in 1 .. n : s[j] = s[k] => j = k
  BY DEF Coherent, Cells, Distinct
<1>. HIDE DEF s, n, D
<1>2. s \in Bijection(1 .. n, D)
  BY <1>1 DEF Bijection, Injection, Surjection, IsInjective
<1>3. ExistsBijection(1 .. n, D)
  BY <1>2 DEF ExistsBijection
<1>4. Cardinality(D) = n
  BY <1>1, <1>3, FS_CountingElements
<1>5. QED
  BY <1>4 DEF D, n, s

-----------------------------------------------------------------------------
(* Blocks, and the parts a document is streamed in. *)

\* What a file may hold.
FCell == {"Original", "Added", "Foreign", "Hole"} \X Nat
\* A file: what is read from it and what the disk holds of it.
File == [now : Seq(FCell), durable : Seq(FCell)]

\* The parts a save streams: an original one lies in the source and in one block.
OneBlock(size) ==
  {p \in Piece : p.store = "Original" =>
     /\ p.offset + p.len <= size
     /\ p.offset + p.len <= BlockStart(BlockOf(p.offset)) + BlockSize}

\* The ranges a save in place writes: added bytes of the document.
Added(t) ==
  {r \in Nat \X Nat : /\ r[1] < r[2] /\ r[2] <= TotalLen(t)
                      /\ \A i \in r[1] .. r[2] - 1 : Content(t)[i + 1][1] = "Added"}

\* Where blocks begin.
LEMMA Blocks ==
  /\ \A a \in Nat : /\ BlockOf(a) \in Nat /\ BlockStart(BlockOf(a)) <= a
                    /\ a < BlockStart(BlockOf(a)) + BlockSize
  /\ \A i \in Nat : BlockStart(i) \in Nat /\ BlockStart(i + 1) = BlockStart(i) + BlockSize
  /\ \A i, j \in Nat : i <= j => BlockStart(i) <= BlockStart(j)
  /\ BlockSize \in Nat \ {0}
<1>1. BlockSize \in Nat \ {0}
  BY CacheAssumption
<1>2. ASSUME NEW a \in Nat
      PROVE  /\ BlockOf(a) \in Nat /\ BlockStart(BlockOf(a)) <= a
             /\ a < BlockStart(BlockOf(a)) + BlockSize
  BY <1>1 DEF BlockOf, BlockStart
<1>3. ASSUME NEW i \in Nat
      PROVE  BlockStart(i) \in Nat /\ BlockStart(i + 1) = BlockStart(i) + BlockSize
  BY <1>1 DEF BlockStart
<1>4. ASSUME NEW i \in Nat, NEW j \in Nat, i <= j PROVE BlockStart(i) <= BlockStart(j)
  <2>1. \A m \in Nat : \A b \in Nat : m * b >= 0
    OBVIOUS
  <2>2. (j - i) * BlockSize >= 0 /\ j * BlockSize = i * BlockSize + (j - i) * BlockSize
    BY <1>1, <1>4, <2>1
  <2>3. i * BlockSize \in Int /\ j * BlockSize \in Int /\ (j - i) * BlockSize \in Int
    BY <1>1
  <2>4. QED
    BY <2>2, <2>3 DEF BlockStart
<1>5. QED
  BY <1>1, <1>2, <1>3, <1>4

\* The block of an offset is at least a block that begins before it.
LEMMA BlockAfter ==
  ASSUME NEW i \in Nat, NEW a \in Nat, BlockStart(i) <= a
  PROVE  i <= BlockOf(a)
<1>1. SUFFICES ASSUME BlockOf(a) + 1 <= i PROVE FALSE
  BY Blocks
<1>2. BlockOf(a) \in Nat /\ a < BlockStart(BlockOf(a)) + BlockSize
  BY Blocks
<1>3. BlockStart(BlockOf(a) + 1) <= BlockStart(i)
  BY <1>1, <1>2, Blocks
<1>4. BlockStart(BlockOf(a) + 1) = BlockStart(BlockOf(a)) + BlockSize
      /\ BlockStart(BlockOf(a)) \in Nat /\ BlockStart(i) \in Nat /\ BlockSize \in Nat
  BY <1>2, Blocks
<1>5. QED
  BY <1>2, <1>3, <1>4

\* FlattenSeq concatenates from the left.
LEMMA FlattenRecursion ==
  ASSUME NEW V, NEW ss \in Seq(Seq(V)), ss # <<>>
  PROVE  \E r \in [0 .. Len(ss) -> Seq(V)] :
           /\ r[0] = <<>> /\ r[Len(ss)] = SE!FlattenSeq(ss)
           /\ \A k \in 1 .. Len(ss) : r[k] = r[k - 1] \o ss[k]
<1>. DEFINE e == CHOOSE f : f = RunningSums(ss, f)
<1>1. Len(ss) # 0
  OBVIOUS
<1>2. SE!FlattenSeq(ss) = e[Len(ss)]
  BY <1>1 DEF SE!FlattenSeq, RunningSums
<1>3. Chosen(ss, e)
  BY DEF Chosen
<1>. HIDE DEF e
<1>4. AddsUpTo(V, ss, e[Len(ss)])
  BY <1>3, Concatenations
<1>5. QED
  BY <1>2, <1>4 DEF AddsUpTo

\* Where the k-th part of an original piece begins and ends, and how many there are.
Lo(p, k) == Larger(BlockStart(BlockOf(p.offset) + k - 1), p.offset)
Hi(p, k) == Smaller(BlockStart(BlockOf(p.offset) + k), p.offset + p.len)
Parted(p) == BlockOf(p.offset + p.len - 1) - BlockOf(p.offset) + 1

\* A part is not empty, lies in the piece and in one block, and touches the next.
PartFits(p, k) ==
  /\ Lo(p, k) \in Nat /\ Hi(p, k) \in Nat
  /\ p.offset <= Lo(p, k) /\ Lo(p, k) < Hi(p, k) /\ Hi(p, k) <= p.offset + p.len
  /\ Hi(p, k) <= BlockStart(BlockOf(Lo(p, k))) + BlockSize
  /\ k < Parted(p) => Hi(p, k) = Lo(p, k + 1)

\* The parts follow each other from the piece's start to its end.
LEMMA PartBounds ==
  ASSUME NEW p \in Piece, p.len > 0
  PROVE  /\ Parted(p) \in Nat \ {0}
         /\ \A k \in 1 .. Parted(p) : PartFits(p, k)
         /\ Lo(p, 1) = p.offset /\ Hi(p, Parted(p)) = p.offset + p.len
<1>. DEFINE o == p.offset
            n == p.len
            first == BlockOf(o)
            last == BlockOf(o + n - 1)
            m == last - first + 1
            b(k) == BlockStart(first + k)
<1>1. o \in Nat /\ n \in Nat /\ n > 0 /\ o + n - 1 \in Nat
  BY DEF Piece
<1>2. first \in Nat /\ BlockStart(first) <= o /\ o < BlockStart(first) + BlockSize
  BY <1>1, Blocks
<1>3. last \in Nat /\ BlockStart(last) <= o + n - 1 /\ o + n - 1 < BlockStart(last) + BlockSize
  BY <1>1, Blocks
<1>. HIDE DEF o, n, last
<1>4. first <= last
  <2>1. BlockStart(first) <= o + n - 1
    <3>1. BlockStart(first) \in Nat
      BY <1>2, Blocks
    <3>. HIDE DEF first
    <3>2. QED
      BY <1>1, <1>2, <3>1
  <2>. HIDE DEF first
  <2>2. QED
    BY <1>1, <1>2, <2>1, BlockAfter DEF last, n
<1>. HIDE DEF first
<1>5. m \in Nat \ {0} /\ first + (m - 1) = last /\ first + m = last + 1
  BY <1>2, <1>3, <1>4
<1>. HIDE DEF m
<1>6. ASSUME NEW k \in 0 .. m PROVE b(k) \in Nat
  <2>1. first + k \in Nat
    BY <1>2, <1>5
  <2>2. QED
    BY <2>1, Blocks
<1>7. ASSUME NEW k \in 1 .. m PROVE b(k) = b(k - 1) + BlockSize /\ b(k - 1) \in Nat /\ b(k) \in Nat
  <2>1. first + (k - 1) \in Nat /\ (first + (k - 1)) + 1 = first + k
    BY <1>2, <1>5
  <2>2. QED
    BY <2>1, Blocks
<1>8. ASSUME NEW k \in 1 .. m PROVE b(k - 1) <= o + n - 1 /\ o < b(k)
  <2>1. /\ first + (k - 1) \in Nat /\ first + (k - 1) <= last
        /\ first + 1 \in Nat /\ first + 1 <= first + k /\ first + k \in Nat
    BY <1>2, <1>3, <1>5
  <2>2. b(k - 1) <= BlockStart(last) /\ BlockStart(first + 1) <= b(k)
    BY <1>3, <2>1, Blocks
  <2>3. BlockStart(first + 1) = BlockStart(first) + BlockSize /\ BlockStart(last) \in Nat
        /\ BlockStart(first) \in Nat
    BY <1>2, <1>3, Blocks
  <2>4. b(k) \in Nat /\ b(k - 1) \in Nat /\ BlockSize \in Nat
    BY <1>7, Blocks
  <2>. HIDE DEF b
  <2>5. QED
    BY <1>1, <1>2, <1>3, <2>2, <2>3, <2>4
<1>9. o + n <= b(m)
  <2>1. b(m) = BlockStart(last) + BlockSize
    BY <1>3, <1>5, Blocks
  <2>2. BlockStart(last) \in Nat /\ BlockSize \in Nat
    BY <1>3, Blocks
  <2>. HIDE DEF b
  <2>3. QED
    BY <1>1, <1>3, <2>1, <2>2
<1>10. b(0) <= o /\ b(0) \in Nat
  BY <1>2, <1>5, <1>6
<1>11. \A k \in 1 .. m : Lo(p, k) = Larger(b(k - 1), o) /\ Hi(p, k) = Smaller(b(k), o + n)
  <2>1. \A k \in 1 .. m : BlockOf(p.offset) + k - 1 = first + (k - 1)
    BY <1>2, <1>5 DEF first, o
  <2>2. QED
    BY <2>1, <1>5 DEF Lo, Hi, o, n, first
<1>12. BlockSize \in Nat \ {0}
  BY Blocks
<1>13. ASSUME NEW k \in 1 .. m PROVE Lo(p, k) \in Nat /\ Lo(p, k) < b(k) => b(k) <= BlockStart(BlockOf(Lo(p, k))) + BlockSize
  <2>1. SUFFICES ASSUME Lo(p, k) \in Nat, Lo(p, k) < b(k)
                 PROVE  b(k) <= BlockStart(BlockOf(Lo(p, k))) + BlockSize
    OBVIOUS
  <2>. DEFINE l == Lo(p, k)
              i == first + (k - 1)
              j == BlockOf(l)
  <2>2. i \in Nat /\ BlockStart(i) <= l
    <3>1. b(k - 1) <= l
      <4>1. b(k - 1) \in Nat /\ l = Larger(b(k - 1), o)
        BY <1>7, <1>11
      <4>. HIDE DEF b, l
      <4>2. QED
        BY <1>1, <4>1 DEF Larger
    <3>2. QED
      BY <1>2, <1>5, <3>1
  <2>. HIDE DEF l, i
  <2>3. i <= j /\ j \in Nat
    BY <2>1, <2>2, BlockAfter, Blocks DEF l
  <2>. HIDE DEF j
  <2>4. BlockStart(i) <= BlockStart(j) /\ BlockStart(i) \in Nat /\ BlockStart(j) \in Nat
    BY <2>2, <2>3, Blocks
  <2>5. b(k) = BlockStart(i) + BlockSize
    BY <1>7 DEF i
  <2>. HIDE DEF b
  <2>6. QED
    BY <2>4, <2>5, <1>12 DEF l, j
<1>16. Parted(p) = m
  BY DEF Parted, m, last, first, o, n
<1>14. ASSUME NEW k \in 1 .. m PROVE PartFits(p, k)
  <2>. DEFINE l == Lo(p, k)
              h == Hi(p, k)
              x == b(k - 1)
              y == b(k)
              z == BlockStart(BlockOf(l)) + BlockSize
  <2>1. l = Larger(x, o) /\ h = Smaller(y, o + n)
    BY <1>11
  <2>2. x \in Nat /\ y \in Nat /\ x < y /\ x <= o + n - 1 /\ o < y
    <3>1. y = x + BlockSize /\ x \in Nat /\ y \in Nat
      BY <1>7
    <3>2. x <= o + n - 1 /\ o < y
      BY <1>8
    <3>. HIDE DEF x, y
    <3>3. QED
      BY <1>12, <3>1, <3>2
  <2>3. l \in Nat /\ l < y => y <= z
    BY <1>13
  <2>4. l \in Nat => z \in Nat
    BY Blocks
  <2>5. k < m => Lo(p, k + 1) = y
    <3>1. SUFFICES ASSUME k < m PROVE Lo(p, k + 1) = y
      OBVIOUS
    <3>2. k + 1 \in 1 .. m /\ (k + 1) - 1 = k
      BY <1>5, <3>1
    <3>3. Lo(p, k + 1) = Larger(y, o)
      BY <1>11, <3>2
    <3>. HIDE DEF x, y
    <3>4. QED
      BY <1>1, <2>2, <3>3 DEF Larger
  <2>6. k < m => y <= o + n - 1
    <3>1. SUFFICES ASSUME k < m PROVE y <= o + n - 1
      OBVIOUS
    <3>2. k + 1 \in 1 .. m /\ (k + 1) - 1 = k
      BY <1>5, <3>1
    <3>3. QED
      BY <1>8, <3>2
  <2>. HIDE DEF l, h, x, y, z
  <2>7. /\ l \in Nat /\ h \in Nat /\ o <= l /\ l < h /\ h <= o + n /\ l < y /\ h <= y
    BY <1>1, <2>1, <2>2 DEF Larger, Smaller
  <2>8. h <= z
    BY <2>2, <2>3, <2>4, <2>7
  <2>9. k < m => h = y
    BY <1>1, <2>1, <2>2, <2>6 DEF Smaller
  <2>10. QED
    BY <1>16, <2>5, <2>7, <2>8, <2>9 DEF l, h, z, o, n, PartFits
<1>15. Lo(p, 1) = o /\ Hi(p, m) = o + n
  <2>1. 1 \in 1 .. m /\ m \in 1 .. m /\ 1 - 1 = 0
    BY <1>5
  <2>2. Lo(p, 1) = Larger(b(0), o) /\ Hi(p, m) = Smaller(b(m), o + n)
    BY <1>11, <2>1
  <2>3. b(m) \in Nat
    BY <1>5, <1>6
  <2>. HIDE DEF b
  <2>4. QED
    BY <1>1, <1>9, <1>10, <2>2, <2>3 DEF Larger, Smaller
<1>17. QED
  BY <1>5, <1>14, <1>15, <1>16 DEF o, n

\* The k-th part of an original piece.
PartOf(p, k) == [store |-> p.store, offset |-> Lo(p, k), len |-> Hi(p, k) - Lo(p, k)]

\* An original piece is cut into the parts, one per block.
LEMMA CutIntoParts ==
  ASSUME NEW p \in Piece, p.len > 0, p.store # "Added"
  PROVE  CutAtBlocks(p) = [k \in 1 .. Parted(p) |-> PartOf(p, k)]
<1>1. ASSUME NEW k \in 1 .. Parted(p)
      PROVE  Clip(p, p.offset, BlockStart(BlockOf(p.offset) + k - 1),
                  BlockStart(BlockOf(p.offset) + k))[1] = PartOf(p, k)
  <2>. DEFINE a == BlockStart(BlockOf(p.offset) + k - 1)
              b == BlockStart(BlockOf(p.offset) + k)
              l == Lo(p, k)
              h == Hi(p, k)
  <2>1. l = Larger(a, p.offset) /\ h = Smaller(b, p.offset + p.len)
    BY DEF Lo, Hi
  <2>2. l < h /\ l \in Nat /\ h \in Nat
    BY PartBounds DEF PartFits
  <2>3. Clip(p, p.offset, a, b) =
          <<[store |-> p.store, offset |-> p.offset + (l - p.offset), len |-> h - l]>>
    <3>. HIDE DEF a, b, l, h
    <3>1. QED
      BY <2>1, <2>2 DEF Clip
  <2>4. p.offset + (l - p.offset) = l
    <3>1. p.offset \in Nat
      BY DEF Piece
    <3>. HIDE DEF l
    <3>2. QED
      BY <2>2, <3>1
  <2>5. QED
    BY <2>3, <2>4 DEF PartOf
<1>2. BlockOf(p.offset + p.len - 1) - BlockOf(p.offset) + 1 = Parted(p)
  BY DEF Parted
<1>3. CutAtBlocks(p) = [k \in 1 .. Parted(p) |->
              Clip(p, p.offset, BlockStart(BlockOf(p.offset) + k - 1),
                   BlockStart(BlockOf(p.offset) + k))[1]]
  BY <1>2, Zenon DEF CutAtBlocks
<1>4. QED
  BY <1>1, <1>3

\* Cutting a piece at the block boundaries keeps its bytes.
LEMMA CutContent ==
  ASSUME NEW p \in Piece, p.len > 0, NEW size,
         p.store = "Original" => p.offset + p.len <= size /\ size \in Nat
  PROVE  /\ CutAtBlocks(p) \in Seq(Piece) /\ CutAtBlocks(p) \in Seq(OneBlock(size))
         /\ Content(CutAtBlocks(p)) = Bytes(p)
<1>1. CASE p.store = "Added"
  <2>1. CutAtBlocks(p) = <<p>>
    BY <1>1 DEF CutAtBlocks
  <2>2. p \in OneBlock(size)
    BY <1>1 DEF OneBlock
  <2>3. <<p>> \in Seq(Piece) /\ <<p>> \in Seq(OneBlock(size))
    BY <2>2
  <2>4. QED
    BY <2>1, <2>3, ContentOfOne
<1>2. CASE p.store # "Added"
  <2>. DEFINE t == CutAtBlocks(p)
              m == Parted(p)
              o == p.offset
              n == p.len
              E == Ends(t)
  <2>1. /\ p.store = "Original" /\ p.store \in Store /\ o \in Nat /\ n \in Nat
        /\ o + n <= size /\ size \in Nat
    BY <1>2 DEF Piece, Store
  <2>2. m \in Nat \ {0} /\ \A k \in 1 .. m : PartFits(p, k)
    BY PartBounds
  <2>3. t = [k \in 1 .. m |-> PartOf(p, k)]
    BY <1>2, CutIntoParts
  <2>4. ASSUME NEW k \in 1 .. m PROVE PartOf(p, k) \in Piece /\ PartOf(p, k) \in OneBlock(size)
    <3>. DEFINE l == Lo(p, k)
                h == Hi(p, k)
                z == BlockStart(BlockOf(l)) + BlockSize
                q == [store |-> "Original", offset |-> l, len |-> h - l]
    <3>1. l \in Nat /\ h \in Nat /\ l < h /\ h <= o + n /\ h <= z
      BY <2>2 DEF PartFits
    <3>2. PartOf(p, k) = q
      BY <2>1 DEF PartOf
    <3>. HIDE DEF l, h, o, n, z
    <3>3. h - l \in Nat /\ l + (h - l) = h /\ h <= size
      BY <2>1, <3>1
    <3>4. q \in Piece
      BY <3>1, <3>3 DEF Piece, Store
    <3>5. q \in OneBlock(size)
      BY <3>1, <3>3, <3>4 DEF OneBlock, z
    <3>6. QED
      BY <3>2, <3>4, <3>5
  <2>5. t \in Seq(Piece) /\ t \in Seq(OneBlock(size)) /\ Len(t) = m
    <3>. HIDE DEF m, t
    <3>1. QED
      BY <2>2, <2>3, <2>4
  <2>6. ASSUME NEW k \in 1 .. m
        PROVE  t[k].store = "Original" /\ t[k].offset = Lo(p, k) /\ t[k].len = Hi(p, k) - Lo(p, k)
    <3>1. t[k] = PartOf(p, k)
      BY <2>3
    <3>2. QED
      BY <2>1, <3>1 DEF PartOf
  <2>7. /\ E[0] = 0 /\ TotalLen(t) = E[m]
        /\ \A k \in 0 .. m : E[k] \in Nat
        /\ \A k \in 1 .. m : E[k] = E[k - 1] + t[k].len
    BY <2>5, EndsFacts
  <2>. HIDE DEF t, m, E
  <2>. DEFINE Q == {k \in 0 .. m : k = 0 \/ E[k] = Hi(p, k) - o}
  <2>8. \A k \in 1 .. m : E[k - 1] = Lo(p, k) - o /\ E[k] = Hi(p, k) - o
    <3>1. ASSUME NEW k \in 1 .. m, k - 1 \in Q PROVE E[k - 1] = Lo(p, k) - o /\ E[k] = Hi(p, k) - o
      <4>. DEFINE l == Lo(p, k)
                  h == Hi(p, k)
                  e == E[k - 1]
      <4>1. l \in Nat /\ h \in Nat
        BY <2>2 DEF PartFits
      <4>2. e = l - o
        <5>1. CASE k = 1
          BY <2>1, <2>7, <5>1, PartBounds DEF o
        <5>2. CASE k # 1
          <6>1. k - 1 \in 1 .. m /\ k - 1 < m /\ (k - 1) + 1 = k /\ k - 1 # 0
            BY <2>2, <5>2
          <6>2. Hi(p, k - 1) = Lo(p, (k - 1) + 1)
            BY <2>2, <6>1 DEF PartFits, m
          <6>3. QED
            BY <3>1, <6>1, <6>2
        <5>3. QED
          BY <5>1, <5>2
      <4>3. E[k] = e + (h - l)
        BY <2>6, <2>7
      <4>. HIDE DEF e, l, h
      <4>4. E[k] = h - o
        BY <2>1, <4>1, <4>2, <4>3
      <4>5. QED
        BY <4>2, <4>4 DEF e, l, h
    <3>2. 0 \in Q
      BY <2>2
    <3>3. \A k \in 1 .. m : k - 1 \in Q => k \in Q
      <4>1. SUFFICES ASSUME NEW k \in 1 .. m, k - 1 \in Q PROVE k \in Q
        OBVIOUS
      <4>2. k \in 0 .. m
        BY <2>2
      <4>3. QED
        BY <3>1, <4>1, <4>2
    <3>4. \A k \in 0 .. m : k \in Q
      <4>. HIDE DEF Q
      <4>1. QED
        BY <2>2, <3>2, <3>3, PrefixInduction
    <3>5. ASSUME NEW k \in 1 .. m PROVE E[k - 1] = Lo(p, k) - o /\ E[k] = Hi(p, k) - o
      <4>1. k - 1 \in 0 .. m
        BY <2>2
      <4>2. k - 1 \in Q
        BY <3>4, <4>1
      <4>3. QED
        BY <3>1, <4>2
    <3>6. QED
      BY <3>5
  <2>9. TotalLen(t) = n
    <3>1. E[m] = Hi(p, m) - o /\ Hi(p, m) = o + n
      BY <2>2, <2>8, PartBounds DEF m, o, n
    <3>2. QED
      BY <2>1, <2>7, <3>1
  <2>. DEFINE c == Content(t)
              d == Bytes(p)
  <2>10. c \in Seq(Cell) /\ Len(c) = n /\ d \in Seq(Cell) /\ Len(d) = n
         /\ \A i \in 1 .. n : d[i] = <<"Original", o + i - 1>>
    BY <2>1, <2>5, <2>9, ContentType, ContentLength, BytesType
  <2>11. ASSUME NEW i \in 1 .. n PROVE c[i] = <<"Original", o + i - 1>>
    <3>1. PICK k \in 1 .. m : E[k - 1] < i /\ i <= E[k]
      BY <2>5, <2>9, PieceAt DEF E
    <3>. DEFINE j == i - E[k - 1]
                l == Lo(p, k)
                h == Hi(p, k)
    <3>2. k - 1 \in 0 .. m
      BY <2>2
    <3>3. E[k - 1] \in Nat /\ E[k] \in Nat /\ E[k - 1] = l - o /\ E[k] = h - o /\ l \in Nat /\ h \in Nat
      BY <2>2, <2>7, <2>8, <3>2 DEF PartFits
    <3>4. t[k].len = h - l /\ t[k].store = "Original" /\ t[k].offset = l
      BY <2>6
    <3>. HIDE DEF l, h
    <3>5. j \in 1 .. t[k].len /\ E[k - 1] + j = i /\ l + j - 1 = o + i - 1
      BY <2>1, <3>1, <3>3, <3>4
    <3>. HIDE DEF j, c
    <3>6. c[E[k - 1] + j] = <<t[k].store, t[k].offset + j - 1>>
      BY <2>5, <3>5, CellAt DEF c, E
    <3>7. QED
      BY <3>4, <3>5, <3>6
  <2>. HIDE DEF c, d, n, o
  <2>12. c = d
    <3>1. c \in [1 .. n -> Cell] /\ d \in [1 .. n -> Cell]
      BY <2>10
    <3>2. \A i \in 1 .. n : c[i] = d[i]
      BY <2>10, <2>11
    <3>3. c = [i \in 1 .. n |-> c[i]] /\ d = [i \in 1 .. n |-> d[i]]
      BY <3>1
    <3>4. [i \in 1 .. n |-> c[i]] = [i \in 1 .. n |-> d[i]]
      BY <3>2
    <3>5. QED
      BY <3>3, <3>4, Zenon
  <2>13. QED
    BY <2>5, <2>12 DEF t, c, d
<1>3. QED
  BY <1>1, <1>2

\* The parts a save streams are the document.
LEMMA PartsContent ==
  ASSUME NEW size \in Nat, NEW added \in Nat, NEW t \in Seq(Stored(size, added))
  PROVE  Parts(t) \in Seq(OneBlock(size)) /\ Content(Parts(t)) = Content(t)
<1>. DEFINE n == Len(t)
            V == OneBlock(size)
            ss == [k \in 1 .. n |-> CutAtBlocks(t[k])]
<1>1. n \in Nat /\ \A k \in 1 .. n : t[k] \in Stored(size, added)
  OBVIOUS
<1>2. t \in Seq(Piece)
  BY SeqMono DEF Stored
<1>3. ASSUME NEW k \in 1 .. n
      PROVE  ss[k] \in Seq(Piece) /\ ss[k] \in Seq(V) /\ Content(ss[k]) = Bytes(t[k])
  <2>. DEFINE p == t[k]
  <2>1. p \in Piece /\ p.len > 0 /\ (p.store = "Original" => p.offset + p.len <= size /\ size \in Nat)
    BY <1>1 DEF Stored
  <2>. HIDE DEF p
  <2>2. CutAtBlocks(p) \in Seq(Piece) /\ CutAtBlocks(p) \in Seq(V)
        /\ Content(CutAtBlocks(p)) = Bytes(p)
    BY <2>1, CutContent
  <2>3. QED
    BY <2>2 DEF p
<1>4. V \subseteq Piece
  BY DEF OneBlock
<1>5. CASE n = 0
  <2>1. ss = <<>> /\ t = <<>>
    BY <1>5
  <2>2. Parts(t) = SE!FlattenSeq(ss)
    BY DEF Parts
  <2>3. SE!FlattenSeq(<<>>) = <<>>
    BY DEF SE!FlattenSeq
  <2>4. <<>> \in Seq(V)
    OBVIOUS
  <2>5. QED
    BY <2>1, <2>2, <2>3, <2>4
<1>6. CASE n # 0
  <2>1. ss \in Seq(Seq(V)) /\ Len(ss) = n /\ ss # <<>>
    <3>1. \A k \in 1 .. n : ss[k] \in Seq(V)
      BY <1>3
    <3>. DEFINE W == Seq(V)
    <3>2. ss \in [1 .. n -> W]
      BY <3>1
    <3>3. Len(ss) = n
      BY <1>1
    <3>. HIDE DEF ss, W, n
    <3>4. ss \in Seq(W)
      BY <1>1, <3>2
    <3>5. ss # <<>>
      BY <1>6, <3>3
    <3>6. QED
      BY <3>3, <3>4, <3>5 DEF W
  <2>. HIDE DEF ss, V
  <2>2. PICK r \in [0 .. Len(ss) -> Seq(V)] :
          /\ r[0] = <<>> /\ r[Len(ss)] = SE!FlattenSeq(ss)
          /\ \A k \in 1 .. Len(ss) : r[k] = r[k - 1] \o ss[k]
    BY <2>1, FlattenRecursion
  <2>3. /\ ContentUpTo(t)[0] = <<>>
        /\ \A k \in 1 .. n : ContentUpTo(t)[k] = ContentUpTo(t)[k - 1] \o Bytes(t[k])
    BY <1>2, ContentRecursion
  <2>. DEFINE Q == {k \in 0 .. n : Content(r[k]) = ContentUpTo(t)[k]}
  <2>4. 0 \in Q
    BY <1>1, <2>2, <2>3, ContentOfNone
  <2>. HIDE DEF n
  <2>5. ASSUME NEW k \in 1 .. n, k - 1 \in Q PROVE k \in Q
    <3>1. r[k] = r[k - 1] \o ss[k]
      BY <2>1, <2>2
    <3>2. k - 1 \in 0 .. n /\ k \in 0 .. n
      BY <1>1
    <3>3. r[k - 1] \in Seq(V)
      BY <2>1, <2>2, <3>2
    <3>4. r[k - 1] \in Seq(Piece)
      BY <1>4, <3>3, SeqMono
    <3>. DEFINE u == r[k - 1]
                v == ss[k]
    <3>5. u \in Seq(Piece) /\ v \in Seq(Piece) /\ Content(v) = Bytes(t[k])
      BY <1>3, <3>4 DEF ss
    <3>. HIDE DEF u, v
    <3>6. Content(u \o v) = Content(u) \o Bytes(t[k])
      BY <3>5, ContentConcat
    <3>7. Content(u) = ContentUpTo(t)[k - 1]
      BY <2>5 DEF u
    <3>8. r[k] = u \o v
      BY <3>1 DEF u, v
    <3>9. ContentUpTo(t)[k] = ContentUpTo(t)[k - 1] \o Bytes(t[k])
      BY <2>3
    <3>10. QED
      BY <3>2, <3>6, <3>7, <3>8, <3>9
  <2>6. \A k \in 0 .. n : k \in Q
    <3>. HIDE DEF Q
    <3>1. QED
      BY <1>1, <2>4, <2>5, PrefixInduction
  <2>7. n \in Q /\ n \in 0 .. n
    BY <1>1, <2>6
  <2>8. Content(r[n]) = Content(t)
    BY <2>7 DEF Content, n
  <2>9. r[n] \in Seq(V)
    BY <2>1, <2>2, <2>7
  <2>10. Parts(t) = SE!FlattenSeq(ss)
    BY DEF Parts, ss, n
  <2>11. QED
    BY <2>1, <2>2, <2>8, <2>9, <2>10 DEF V
<1>7. QED
  BY <1>5, <1>6

-----------------------------------------------------------------------------
(* What one step reads or writes. *)

\* The first part of what is left to stream, and the rest.
LEMMA FirstPart ==
  ASSUME NEW V \in SUBSET Piece, NEW left \in Seq(V), left # <<>>
  PROVE  /\ left[1] \in V /\ Tail(left) \in Seq(V)
         /\ Content(left) = Bytes(left[1]) \o Content(Tail(left))
<1>1. left[1] \in V /\ Tail(left) \in Seq(V) /\ left = <<left[1]>> \o Tail(left)
  OBVIOUS
<1>. DEFINE p == left[1]
            u == Tail(left)
<1>2. p \in Piece /\ u \in Seq(Piece)
  BY <1>1, SeqMono
<1>3. <<p>> \in Seq(Piece)
  BY <1>2
<1>4. Content(left) = Content(<<p>> \o u)
  BY <1>1
<1>. HIDE DEF p, u
<1>5. Content(<<p>> \o u) = Bytes(p) \o Content(u)
  BY <1>2, <1>3, ContentConcat, ContentOfOne
<1>6. QED
  BY <1>1, <1>4, <1>5 DEF p, u

\* What a part takes out of the block it lies in.
Takes(V, answer, piece) ==
  LET i == BlockOf(piece.offset)
      s == piece.offset - BlockStart(i)
      x == FromBlock(answer, piece)
  IN  /\ i \in Nat /\ s \in Nat /\ BlockStart(i) \in Nat
      /\ x \in Seq(V) /\ Len(x) = piece.len
      /\ \A k \in 1 .. piece.len : x[k] = answer.data[s + k] /\ s + k \in 1 .. Len(answer.data)

\* A part lies within the block that is read for it.
LEMMA TakenFromBlock ==
  ASSUME NEW V, NEW answer, answer.kind = "Ok", answer.data \in Seq(V),
         NEW size \in Nat, NEW piece \in OneBlock(size), piece.store = "Original",
         Len(answer.data) = Smaller(BlockSize, size - BlockStart(BlockOf(piece.offset)))
  PROVE  Takes(V, answer, piece)
<1>. DEFINE i == BlockOf(piece.offset)
            a == BlockStart(i)
            s == piece.offset - a
            n == piece.len
            d == answer.data
<1>1. piece.offset \in Nat /\ n \in Nat /\ piece.offset + n <= size /\ piece.offset + n <= a + BlockSize
  BY DEF OneBlock, Piece
<1>2. i \in Nat /\ a \in Nat /\ a <= piece.offset /\ BlockSize \in Nat
  BY <1>1, Blocks
<1>3. s \in Nat /\ s + n <= Len(d)
  <2>. HIDE DEF a, n
  <2>1. QED
    BY <1>1, <1>2 DEF Smaller, a
<1>4. FromBlock(answer, piece) = SubSeq(d, s + 1, s + n)
  BY DEF FromBlock
<1>. HIDE DEF s, n, d
<1>5. d \in Seq(V) /\ Len(d) \in Nat /\ n \in Nat
  BY <1>1 DEF d
<1>6. /\ SubSeq(d, s + 1, s + n) \in Seq(V) /\ Len(SubSeq(d, s + 1, s + n)) = n
      /\ \A k \in 1 .. n : SubSeq(d, s + 1, s + n)[k] = d[s + k]
  BY <1>3, <1>5
<1>7. \A k \in 1 .. n : s + k \in 1 .. Len(d)
  BY <1>3, <1>5
<1>8. QED
  BY <1>2, <1>3, <1>4, <1>6, <1>7 DEF s, n, d, Takes

\* Zeros stand in for what could not be read.
LEMMA ZerosInstead ==
  ASSUME NEW answer, answer.kind # "Ok", NEW piece \in Piece
  PROVE  /\ FromBlock(answer, piece) \in Seq({Zero})
         /\ Len(FromBlock(answer, piece)) = piece.len
<1>. DEFINE n == piece.len
            z == [k \in 1 .. n |-> Zero]
<1>1. n \in Nat
  BY DEF Piece
<1>2. FromBlock(answer, piece) = z
  BY DEF FromBlock, Zeros
<1>. HIDE DEF n
<1>3. z \in Seq({Zero}) /\ Len(z) = n
  BY <1>1
<1>4. QED
  BY <1>2, <1>3 DEF n

\* The dirty ranges are the added bytes of the document.
LEMMA DirtyRangesAdded ==
  ASSUME NEW t \in Seq(Piece)
  PROVE  /\ DirtyRanges(t) \in Seq(Added(t))
         /\ \A i \in 1 .. TotalLen(t) :
              Content(t)[i][1] = "Added" => InRanges(DirtyRanges(t), i - 1)
<1>. DEFINE out == DirtyRanges(t)
            n == TotalLen(t)
            c == Content(t)
            m == Len(out)
<1>1. n \in Nat /\ n <= n
  BY ContentLength
<1>2. /\ out \in RangeLists /\ LieApart(out)
      /\ \A i \in Nat : InRanges(out, i) <=> 0 <= i /\ i < n /\ c[i + 1][1] = "Added"
  BY <1>1, ModifiedExact DEF DirtyRanges
<1>. HIDE DEF out, n, c
<1>3. m \in Nat /\ \A j \in 1 .. m : out[j] \in Nat \X Nat
  BY <1>2 DEF RangeLists
<1>4. ASSUME NEW j \in 1 .. m PROVE out[j] \in Added(t)
  <2>. DEFINE r == out[j]
  <2>1. r \in Nat \X Nat /\ r[1] \in Nat /\ r[2] \in Nat /\ r[1] < r[2]
    BY <1>2, <1>3 DEF LieApart
  <2>2. ASSUME NEW i \in r[1] .. r[2] - 1 PROVE i < n /\ c[i + 1][1] = "Added"
    <3>1. i \in Nat /\ r[1] <= i /\ i < r[2]
      <4>. HIDE DEF r
      <4>1. QED
        BY <2>1, <2>2
    <3>2. InRanges(out, i)
      BY <3>1 DEF InRanges
    <3>3. QED
      BY <1>2, <3>1, <3>2
  <2>. HIDE DEF r
  <2>3. r[2] - 1 \in r[1] .. r[2] - 1
    BY <2>1
  <2>4. r[2] <= n
    BY <1>1, <2>1, <2>2, <2>3
  <2>5. r \in Added(t)
    BY <2>1, <2>2, <2>4 DEF Added, n, c
  <2>6. QED
    BY <2>5 DEF r
<1>5. out \in Seq(Added(t))
  <2>1. out = [j \in 1 .. m |-> out[j]]
    BY <1>2 DEF RangeLists
  <2>. DEFINE W == Added(t)
  <2>2. \A j \in 1 .. m : out[j] \in W
    BY <1>4
  <2>. HIDE DEF W, m
  <2>3. [j \in 1 .. m |-> out[j]] \in Seq(W)
    BY <1>3, <2>2
  <2>4. QED
    BY <2>1, <2>3 DEF W
<1>6. ASSUME NEW i \in 1 .. n, c[i][1] = "Added" PROVE InRanges(out, i - 1)
  <2>1. i - 1 \in Nat /\ 0 <= i - 1 /\ i - 1 < n /\ (i - 1) + 1 = i
    BY <1>1
  <2>2. QED
    BY <1>2, <1>6, <2>1
<1>7. QED
  BY <1>5, <1>6 DEF out, n, c

\* What a save in place writes: added bytes only, each at its own place.
LEMMA WrittenBytes ==
  ASSUME NEW t \in Seq(Piece), NEW r \in Added(t)
  PROVE  LET b == Content(PiecesIn(t, r[1], r[2]))
         IN  /\ b \in Seq(Cell) /\ Len(b) = r[2] - r[1]
             /\ r[1] \in Nat /\ r[2] \in Nat /\ r[1] < r[2] /\ r[2] <= TotalLen(t)
             /\ \A k \in 1 .. Len(b) : b[k] = Content(t)[r[1] + k] /\ b[k][1] = "Added"
<1>. DEFINE x == r[1]
            y == r[2]
            c == Content(t)
            b == Content(PiecesIn(t, x, y))
<1>1. x \in Nat /\ y \in Nat /\ x < y /\ y <= TotalLen(t) /\ \A i \in x .. y - 1 : c[i + 1][1] = "Added"
  BY DEF Added
<1>. HIDE DEF x, y
<1>2. c \in Seq(Cell) /\ Len(c) = TotalLen(t) /\ TotalLen(t) \in Nat
  BY ContentType, ContentLength
<1>3. b = SubSeq(c, x + 1, y)
  <2>1. Smaller(y, TotalLen(t)) = y
    BY <1>1, <1>2 DEF Smaller
  <2>2. QED
    BY <1>1, <2>1, SliceContent
<1>. HIDE DEF c, b
<1>4. b \in Seq(Cell) /\ Len(b) = y - x /\ \A k \in 1 .. y - x : b[k] = c[x + k]
  <2>1. x <= y /\ y <= Len(c)
    BY <1>1, <1>2
  <2>2. QED
    BY <1>1, <1>2, <1>3, <2>1, SubWindow
<1>5. ASSUME NEW k \in 1 .. y - x PROVE c[x + k][1] = "Added"
  <2>. DEFINE i == x + k - 1
  <2>1. i \in x .. y - 1 /\ i + 1 = x + k
    BY <1>1
  <2>. HIDE DEF i
  <2>2. QED
    BY <1>1, <2>1
<1>6. QED
  BY <1>1, <1>4, <1>5 DEF x, y, b, c

\* pwrite: the cells at their place, what was there around them.
LEMMA OverlaidCells ==
  ASSUME NEW f \in Seq(FCell), NEW at \in Nat, NEW cells \in Seq(FCell)
  PROVE  LET g == Overlaid(f, at, cells)
         IN  /\ g \in Seq(FCell)
             /\ Len(g) = Larger(Len(f), at + Len(cells))
             /\ Len(f) \in Nat /\ Len(cells) \in Nat
             /\ \A i \in 1 .. Len(g) : at < i /\ i <= at + Len(cells) => g[i] = cells[i - at]
             /\ \A i \in 1 .. Len(f) : i \in 1 .. Len(g) /\ (~ (at < i /\ i <= at + Len(cells)) => g[i] = f[i])
<1>. DEFINE g == Overlaid(f, at, cells)
            n == Larger(Len(f), at + Len(cells))
            val(i) == IF at < i /\ i <= at + Len(cells) THEN cells[i - at]
                      ELSE IF i <= Len(f) THEN f[i] ELSE Hole
<1>1. Len(f) \in Nat /\ Len(cells) \in Nat /\ n \in Nat /\ Len(f) <= n
  BY DEF Larger
<1>2. g = [i \in 1 .. n |-> val(i)]
  BY DEF Overlaid
<1>3. ASSUME NEW i \in 1 .. n PROVE val(i) \in FCell
  <2>1. i \in Nat /\ i >= 1
    OBVIOUS
  <2>2. CASE at < i /\ i <= at + Len(cells)
    <3>1. i - at \in 1 .. Len(cells)
      BY <1>1, <2>1, <2>2
    <3>2. QED
      BY <2>2, <3>1
  <2>3. CASE ~ (at < i /\ i <= at + Len(cells)) /\ i <= Len(f)
    <3>1. i \in 1 .. Len(f)
      BY <1>1, <2>1, <2>3
    <3>2. f[i] \in FCell
      BY <3>1
    <3>3. QED
      BY <2>3, <3>2
  <2>4. CASE ~ (at < i /\ i <= at + Len(cells)) /\ ~ (i <= Len(f))
    BY <2>4 DEF Hole, FCell
  <2>5. QED
    BY <2>2, <2>3, <2>4
<1>. HIDE DEF n
<1>4. g \in Seq(FCell) /\ Len(g) = n
  <2>. HIDE DEF val
  <2>1. QED
    BY <1>1, <1>2, <1>3
<1>5. \A i \in 1 .. n : g[i] = val(i)
  BY <1>2
<1>6. \A i \in 1 .. Len(f) : i \in 1 .. n
  BY <1>1
<1>. HIDE DEF g
<1>7. QED
  BY <1>1, <1>4, <1>5, <1>6 DEF g, n

-----------------------------------------------------------------------------
(* What holds between the steps of a save. *)

\* Both paths exist; backups may.
FilesTyped == Paths \subseteq DOMAIN file /\ file \in [DOMAIN file -> File]

\* The types of the other variables; the source keeps its size.
Typed ==
  /\ Inv
  /\ tabPath \in Paths \cup {NoPath} /\ linked \in BOOLEAN /\ backup \in BOOLEAN
  /\ orphan \in Seq(FCell)
  /\ displaced \in [Paths -> SUBSET File]
  /\ held \in [Paths -> Seq(FCell)]
  /\ versions \in [Paths -> SUBSET Seq(FCell)]
  /\ tries \in [Paths -> Nat]
  /\ patching \in [Paths -> BOOLEAN] /\ buried \in [Paths -> BOOLEAN]
  /\ Len(SourceBytes) = doc.size

\* What a read of block i may answer.
TrueAnswer(i, answer) ==
  /\ answer.kind = "BadBlock" => i \in bad
  /\ answer.kind = "Ok" =>
       /\ i \notin bad
       /\ answer.data \in Seq(FCell) /\ Len(answer.data) = BlockLen(i)
       /\ \A k \in 1 .. BlockLen(i) :
            \/ BlockStart(i) + k - 1 \in Overwritten
            \/ answer.data[k] = SourceBytes[BlockStart(i) + k]

\* The cache is well formed and remembers only true answers.
CacheOk ==
  /\ Coherent(cache)
  /\ \A i \in DOMAIN cache.blocks :
       cache.blocks[i].kind \in {"Ok", "BadBlock"} /\ TrueAnswer(i, cache.blocks[i])

\* No byte the document takes from its source has been overwritten there.
Untouched == Sourced(doc.table) \cap Overwritten = {}

\* A save that has not chosen how to write.
PreparingOk ==
  /\ save \in [phase : {"Backup", "Copy", "Choose"}, path : Paths, saveAs : BOOLEAN]
  /\ save.phase = "Copy" => BakOf(save.path) \in DOMAIN file

\* A save in place has still to write the added bytes that are not there yet.
PatchOk ==
  /\ save \in [phase : {"Patch"}, path : Paths, left : Seq(Added(doc.table))]
  /\ CanSaveInPlace(doc.table, doc.size)
  /\ patching[save.path]
  /\ \A i \in 1 .. doc.size :
       Content(doc.table)[i][1] = "Added" =>
         \/ InRanges(save.left, i - 1)
         \/ /\ i \in 1 .. Len(file[save.path].now)
            /\ file[save.path].now[i] = Content(doc.table)[i]

\* What has been streamed and what is left make the document.
StreamOk ==
  /\ save \in [phase : {"Stream"}, path : Paths, left : Seq(OneBlock(doc.size)),
               tmp : [now : Seq(FCell \cup {Zero}), durable : Seq(FCell)], unreadable : BOOLEAN]
  /\ ~ save.unreadable => save.tmp.now \in Seq(FCell)
  /\ Untouched /\ ~ save.unreadable =>
       save.tmp.now \o Content(save.left) = Content(doc.table)

\* What will get the name is on the disk, and is the document.
RenameOk ==
  /\ save \in [phase : {"Rename"}, path : Paths, tmp : File]
  /\ save.tmp.durable = save.tmp.now
  /\ Untouched => save.tmp.now = Content(doc.table)

\* The save in progress, if there is one.
Saving == save = Idle \/ PreparingOk \/ PatchOk \/ StreamOk \/ RenameOk

\* A file that is not being patched is what it was saved as, on the disk too.
Whole ==
  \A p \in Paths :
    /\ ~ patching[p] => file[p] = NewFile(held[p])
    /\ ~ buried[p] => \A x \in displaced[p] : x.now \in {held[p]} \cup versions[p]

\* A save to p is in progress; p holds its last saved version; p's backup does.
At(p) == save # Idle /\ save.path = p
Same(p) == file[p].now = held[p]
Kept(p) == BakOf(p) \in DOMAIN file /\ file[BakOf(p)].now = held[p]

\* The backup is there before anything else may write the file.
BackedUp ==
  backup => \A p \in Paths : tries[p] <= 1 =>
    /\ Same(p) \/ Kept(p)
    /\ tries[p] = 0 => Same(p) /\ ~ At(p)
    /\ At(p) /\ save.phase # "Patch" => Same(p)
    /\ At(p) /\ save.phase \in {"Choose", "Patch"} => Kept(p)

\* What holds while the editor runs.
Running == FilesTyped /\ Typed /\ CacheOk /\ Saving /\ Whole /\ BackedUp

\* The strings that name the phases and the paths differ.
LEMMA Names ==
  /\ Paths = {"file", "other"} /\ Opened \in Paths /\ Other \in Paths
  /\ \A p \in Paths : BakOf(p) \notin Paths
  /\ \A p \in Paths : \A q \in Paths : BakOf(p) = BakOf(q) => p = q
BY DEF Paths, Opened, Other, BakOf

\* A file's cells.
LEMMA FileFields ==
  ASSUME FilesTyped
  PROVE  /\ \A p \in DOMAIN file :
              /\ file[p] = [now |-> file[p].now, durable |-> file[p].durable]
              /\ file[p].now \in Seq(FCell) /\ file[p].durable \in Seq(FCell)
              /\ file[p] \in File
         /\ \A p \in Paths : p \in DOMAIN file
BY DEF FilesTyped, File

\* The source is a sequence of cells, as long as it was when it was opened.
LEMMA SourceTyped ==
  ASSUME FilesTyped, Typed
  PROVE  SourceBytes \in Seq(FCell) /\ Len(SourceBytes) = doc.size /\ doc.size \in Nat
<1>1. Opened \in DOMAIN file
  BY Names, FileFields
<1>2. doc \in GoodDocs
  BY DEF Typed, Inv
<1>3. QED
  BY <1>1, <1>2, FileFields, GoodDocFields DEF Typed, SourceBytes

\* The phase says what shape the save has.
LEMMA Shapes ==
  ASSUME Saving
  PROVE  /\ save # Idle => save.path \in Paths
         /\ save # Idle /\ save.phase \in {"Backup", "Copy", "Choose"} => PreparingOk
         /\ save.phase \in {"Backup", "Copy", "Choose"} => save # Idle
         /\ save.phase = "Patch" => PatchOk /\ save # Idle
         /\ save.phase = "Stream" => StreamOk /\ save # Idle
         /\ save.phase = "Rename" => RenameOk /\ save # Idle
<1>1. CASE save = Idle
  BY <1>1 DEF Idle
<1>2. CASE PreparingOk
  BY <1>2 DEF PreparingOk, Idle
<1>3. CASE PatchOk
  BY <1>3 DEF PatchOk, Idle
<1>4. CASE StreamOk
  BY <1>4 DEF StreamOk, Idle
<1>5. CASE RenameOk
  BY <1>5 DEF RenameOk, Idle
<1>6. QED
  BY <1>1, <1>2, <1>3, <1>4, <1>5 DEF Saving

\* The cache's half of the invariant is what the runs check.
LEMMA CacheTruth == ASSUME CacheOk PROVE CacheIsTruthful
<1>1. Coherent(cache)
  BY DEF CacheOk
<1>2. /\ Len(cache.order) <= Capacity
      /\ Len(cache.order) = Cardinality(DOMAIN cache.blocks)
      /\ DOMAIN cache.blocks = Cells(cache.order)
  BY <1>1, CountsBlocks DEF Coherent
<1>3. ASSUME NEW i \in DOMAIN cache.blocks
      PROVE  LET answer == cache.blocks[i]
             IN  /\ answer.kind = "BadBlock" <=> i \in bad
                 /\ answer.kind # "Io"
                 /\ answer.kind = "Ok" => \A k \in 1 .. Len(answer.data) :
                      \/ BlockStart(i) + k - 1 \in Overwritten
                      \/ answer.data[k] = SourceBytes[BlockStart(i) + k]
  <2>. DEFINE a == cache.blocks[i]
  <2>1. a.kind \in {"Ok", "BadBlock"} /\ TrueAnswer(i, a)
    BY DEF CacheOk
  <2>. HIDE DEF a
  <2>2. QED
    BY <2>1 DEF TrueAnswer, a
<1>4. QED
  BY <1>2, <1>3 DEF CacheIsTruthful

\* A cell that is not the source's own is an overwritten one.
LEMMA OverwrittenAt ==
  ASSUME NEW x \in Nat, x < doc.size, doc.size \in Nat
  PROVE  x \in Overwritten <=> SourceBytes[x + 1] # <<"Original", x>>
BY DEF Overwritten

\* What a read of a block under an original part answers.
LEMMA AnswersTrue ==
  ASSUME FilesTyped, Typed, CacheOk, NEW part \in OneBlock(doc.size), part.store = "Original",
         NEW answer \in Answers(BlockOf(part.offset))
  PROVE  /\ BlockOf(part.offset) \in Nat
         /\ answer.kind \in {"Ok", "BadBlock", "Io"}
         /\ TrueAnswer(BlockOf(part.offset), answer)
<1>. DEFINE i == BlockOf(part.offset)
            s == BlockStart(i)
            m == BlockLen(i)
<1>1. part.offset \in Nat /\ part.len \in Nat /\ part.offset + part.len <= doc.size
  BY DEF OneBlock, Piece
<1>2. i \in Nat /\ s \in Nat /\ s <= part.offset /\ BlockSize \in Nat
  BY <1>1, Blocks
<1>3. SourceBytes \in Seq(FCell) /\ Len(SourceBytes) = doc.size /\ doc.size \in Nat
  BY SourceTyped
<1>4. m \in Nat /\ s + m <= doc.size
  <2>1. m = Smaller(BlockSize, doc.size - s)
    BY DEF BlockLen
  <2>. HIDE DEF i, s, m
  <2>2. QED
    BY <1>1, <1>2, <1>3, <2>1 DEF Smaller
<1>5. CASE i \in DOMAIN cache.blocks
  <2>1. answer = cache.blocks[i]
    BY <1>5 DEF Answers
  <2>2. QED
    BY <1>2, <1>5, <2>1 DEF CacheOk
<1>6. CASE i \notin DOMAIN cache.blocks
  <2>1. answer \in SourceAnswers(i)
    BY <1>6 DEF Answers
  <2>2. CASE answer = [kind |-> "Io", data |-> <<>>]
    BY <1>2, <2>2 DEF TrueAnswer
  <2>3. CASE i \in bad /\ answer = [kind |-> "BadBlock", data |-> <<>>]
    BY <1>2, <2>3 DEF TrueAnswer
  <2>4. CASE i \notin bad /\ answer = [kind |-> "Ok", data |-> SubSeq(SourceBytes, s + 1, s + m)]
    <3>. DEFINE c == SourceBytes
                d == SubSeq(c, s + 1, s + m)
    <3>. HIDE DEF c, s, m
    <3>1. d \in Seq(FCell) /\ Len(d) = m /\ \A k \in 1 .. m : d[k] = c[s + k]
      BY <1>2, <1>3, <1>4 DEF c
    <3>2. answer.kind = "Ok" /\ answer.data = d
      BY <2>4 DEF c
    <3>. HIDE DEF d
    <3>3. QED
      BY <1>2, <2>4, <3>1, <3>2 DEF TrueAnswer, s, m, c
  <2>5. QED
    BY <2>1, <2>2, <2>3, <2>4 DEF SourceAnswers
<1>7. QED
  BY <1>5, <1>6

\* Reading through the cache leaves the cache true.
LEMMA AskedTrue ==
  ASSUME FilesTyped, Typed, CacheOk, NEW part \in OneBlock(doc.size), part.store = "Original",
         NEW answer \in Answers(BlockOf(part.offset)),
         cache' = Asked(cache, BlockOf(part.offset), answer),
         UNCHANGED <<doc, file, linked, orphan, bad>>
  PROVE  CacheOk'
<1>. DEFINE i == BlockOf(part.offset)
            g == Asked(cache, i, answer)
<1>1. i \in Nat /\ answer.kind \in {"Ok", "BadBlock", "Io"} /\ TrueAnswer(i, answer)
  BY AnswersTrue
<1>2. Coherent(cache)
  BY DEF CacheOk
<1>. HIDE DEF i
<1>3. /\ Coherent(g)
      /\ \A j \in DOMAIN g.blocks :
           \/ j \in DOMAIN cache.blocks /\ g.blocks[j] = cache.blocks[j]
           \/ j = i /\ Cacheable(answer) /\ g.blocks[j] = answer
  BY <1>1, <1>2, AskedCoherent
<1>. HIDE DEF g
<1>4. ASSUME NEW j \in DOMAIN g.blocks
      PROVE  g.blocks[j].kind \in {"Ok", "BadBlock"} /\ TrueAnswer(j, g.blocks[j])
  <2>1. CASE j \in DOMAIN cache.blocks /\ g.blocks[j] = cache.blocks[j]
    BY <2>1 DEF CacheOk
  <2>2. CASE j = i /\ Cacheable(answer) /\ g.blocks[j] = answer
    BY <1>1, <2>2 DEF Cacheable
  <2>3. QED
    BY <1>3, <2>1, <2>2
<1>5. SourceBytes' = SourceBytes /\ Overwritten' = Overwritten
  BY DEF SourceBytes, Overwritten
<1>6. \A j, a : TrueAnswer(j, a) => TrueAnswer(j, a)'
  BY <1>5 DEF TrueAnswer, BlockLen, BlockStart
<1>7. cache' = g
  BY DEF g, i
<1>8. Coherent(cache') /\ Coherent(cache)' = Coherent(cache')
  BY <1>3, <1>7 DEF Coherent
<1>9. \A j \in DOMAIN cache'.blocks :
        cache'.blocks[j].kind \in {"Ok", "BadBlock"} /\ TrueAnswer(j, cache'.blocks[j])
  BY <1>4, <1>7
<1>10. QED
  BY <1>6, <1>8, <1>9 DEF CacheOk

\* A source of which nothing changes but bytes that become added ones.
LEMMA CachePatched ==
  ASSUME FilesTyped, Typed, CacheOk, cache' = cache, bad' = bad, doc'.size = doc.size,
         \A x \in 1 .. doc.size : \/ SourceBytes'[x] = SourceBytes[x]
                                  \/ SourceBytes'[x][1] = "Added"
  PROVE  CacheOk'
<1>1. doc.size \in Nat
  BY SourceTyped
<1>2. ASSUME NEW y \in Nat, y < doc.size,
             y \in Overwritten \/ SourceBytes'[y + 1][1] = "Added"
      PROVE  y \in Overwritten'
  <2>1. y + 1 \in 1 .. doc.size /\ y \in 0 .. doc.size - 1
    BY <1>1, <1>2
  <2>2. SourceBytes'[y + 1] # <<"Original", y>>
    <3>1. CASE SourceBytes'[y + 1][1] = "Added"
      BY <3>1
    <3>2. CASE y \in Overwritten /\ SourceBytes'[y + 1] = SourceBytes[y + 1]
      BY <3>2 DEF Overwritten
    <3>3. QED
      BY <1>2, <2>1, <3>1, <3>2
  <2>3. QED
    BY <2>1, <2>2 DEF Overwritten
<1>3. ASSUME NEW i \in Nat, NEW a, TrueAnswer(i, a) PROVE TrueAnswer(i, a)'
  <2>. DEFINE s == BlockStart(i)
              m == BlockLen(i)
  <2>1. BlockLen(i)' = m /\ BlockStart(i)' = s
    BY DEF BlockLen, BlockStart
  <2>2. s \in Nat /\ BlockSize \in Nat
    BY Blocks
  <2>3. m <= doc.size - s /\ m \in Int
    <3>1. m = Smaller(BlockSize, doc.size - s)
      BY DEF BlockLen
    <3>. HIDE DEF m, s
    <3>2. QED
      BY <1>1, <2>2, <3>1 DEF Smaller
  <2>4. ASSUME a.kind = "Ok", NEW k \in 1 .. m
        PROVE  s + k - 1 \in Overwritten' \/ a.data[k] = SourceBytes'[s + k]
    <3>. DEFINE y == s + k - 1
    <3>1. y \in Nat /\ y < doc.size /\ y + 1 = s + k /\ y + 1 \in 1 .. doc.size
      <4>. HIDE DEF m, s
      <4>1. QED
        BY <1>1, <2>2, <2>3
    <3>2. y \in Overwritten \/ a.data[k] = SourceBytes[s + k]
      BY <1>3, <2>4 DEF TrueAnswer
    <3>. HIDE DEF y, s, m
    <3>3. CASE y \in Overwritten
      BY <1>2, <3>1, <3>3 DEF y
    <3>4. CASE a.data[k] = SourceBytes[s + k]
      <4>1. CASE SourceBytes'[y + 1] = SourceBytes[y + 1]
        BY <3>1, <3>4, <4>1
      <4>2. CASE SourceBytes'[y + 1][1] = "Added"
        BY <1>2, <3>1, <4>2 DEF y
      <4>3. QED
        BY <3>1, <4>1, <4>2
    <3>5. QED
      BY <3>2, <3>3, <3>4
  <2>. HIDE DEF s, m
  <2>5. QED
    BY <1>3, <2>1, <2>4 DEF TrueAnswer, s, m
<1>4. Coherent(cache)'
  BY DEF CacheOk, Coherent
<1>5. \A i \in DOMAIN cache.blocks : i \in Nat
  BY DEF CacheOk, Coherent, Cells
<1>6. QED
  BY <1>3, <1>4, <1>5 DEF CacheOk

\* A step that changes neither the document nor the files.
LEMMA Quiet ==
  ASSUME Running,
         UNCHANGED <<doc, panicked, edits, file, displaced, orphan, linked, bad, tabPath, backup,
                     held, versions, buried>>,
         tries' \in [Paths -> Nat], patching' \in [Paths -> BOOLEAN]
  PROVE  /\ FilesTyped' /\ Typed' /\ (Untouched <=> Untouched') /\ (cache' = cache => CacheOk')
<1>1. FilesTyped /\ Typed /\ CacheOk
  BY DEF Running
<1>2. Inv'
  BY <1>1 DEF Typed, Inv
<1>3. SourceBytes' = SourceBytes
  BY DEF SourceBytes
<1>4. Overwritten' = Overwritten
  BY <1>3 DEF Overwritten
<1>5. FilesTyped'
  BY <1>1 DEF FilesTyped
<1>6. Typed'
  BY <1>1, <1>2, <1>3 DEF Typed
<1>7. cache' = cache => CacheOk'
  BY <1>1, <1>3, CachePatched
<1>8. QED
  BY <1>4, <1>5, <1>6, <1>7 DEF Untouched

-----------------------------------------------------------------------------
(* The steps, up to the choice of how to save. *)

\* A save begins, with the backup if there is one to make.
LEMMA BeginStep == ASSUME Running, SBegin PROVE Running'
<1>1. FilesTyped /\ Typed /\ Whole /\ BackedUp
  BY DEF Running
<1>2. PICK path \in Paths, saveAs \in BOOLEAN : BeginSave(path, saveAs)
  <2>1. tabPath # NoPath => tabPath \in Paths
    BY <1>1 DEF Typed
  <2>2. QED
    BY <2>1, FilesAssumption DEF SBegin, Begin, Save1, SaveAs
<1>. DEFINE phase == IF backup /\ path \in DOMAIN file THEN "Backup" ELSE "Choose"
<1>3. /\ save = Idle /\ save' = [phase |-> phase, path |-> path, saveAs |-> saveAs]
      /\ tries' = [tries EXCEPT ![path] = @ + 1]
      /\ UNCHANGED <<doc, panicked, edits, cache, file, displaced, orphan, linked, bad, tabPath,
                     backup, held, versions, patching, buried>>
  BY <1>2 DEF SBegin, BeginSave
<1>4. /\ tries \in [Paths -> Nat] /\ tries' \in [Paths -> Nat] /\ patching' \in [Paths -> BOOLEAN]
      /\ tries'[path] = tries[path] + 1 /\ \A p \in Paths : p # path => tries'[p] = tries[p]
  BY <1>1, <1>3 DEF Typed
<1>5. FilesTyped' /\ Typed' /\ CacheOk'
  BY <1>3, <1>4, Quiet
<1>6. Saving'
  BY <1>3 DEF Saving, PreparingOk
<1>7. Whole'
  BY <1>1, <1>3 DEF Whole
<1>8. BackedUp'
  <2>1. SUFFICES ASSUME backup, NEW p \in Paths, tries'[p] <= 1
                 PROVE  /\ Same(p)' \/ Kept(p)'
                        /\ tries'[p] = 0 => Same(p)' /\ ~ At(p)'
                        /\ At(p)' /\ save'.phase # "Patch" => Same(p)'
                        /\ At(p)' /\ save'.phase \in {"Choose", "Patch"} => Kept(p)'
    BY <1>3 DEF BackedUp
  <2>2. phase = "Backup"
    BY <1>1, <2>1 DEF FilesTyped
  <2>3. (Same(p)' <=> Same(p)) /\ (Kept(p)' <=> Kept(p))
    BY <1>3 DEF Same, Kept
  <2>4. tries[p] \in Nat /\ tries'[p] \in Nat
    BY <1>4
  <2>5. CASE p = path
    <3>1. tries[p] = 0 /\ tries'[p] # 0
      BY <1>4, <2>1, <2>4, <2>5
    <3>2. Same(p)
      BY <1>1, <2>1, <3>1 DEF BackedUp
    <3>3. save'.phase = "Backup"
      BY <1>3, <2>2
    <3>4. QED
      BY <2>3, <3>1, <3>2, <3>3
  <2>6. CASE p # path
    <3>1. ~ At(p)'
      BY <1>3, <2>6 DEF At
    <3>2. tries'[p] = tries[p]
      BY <1>4, <2>6
    <3>3. (Same(p) \/ Kept(p)) /\ (tries[p] = 0 => Same(p))
      BY <1>1, <2>1, <3>2 DEF BackedUp
    <3>4. QED
      BY <2>3, <3>1, <3>2, <3>3
  <2>7. QED
    BY <2>5, <2>6
<1>9. QED
  BY <1>5, <1>6, <1>7, <1>8 DEF Running

\* The document of a save.
LEMMA SavedDocument ==
  ASSUME Running
  PROVE  /\ doc \in GoodDocs /\ doc.size \in Nat /\ doc.added \in Nat
         /\ doc.table \in Seq(Stored(doc.size, doc.added)) /\ doc.table \in Seq(Piece)
         /\ Content(doc.table) \in Seq(Cell) /\ Len(Content(doc.table)) = TotalLen(doc.table)
         /\ TotalLen(doc.table) \in Nat
<1>1. doc \in GoodDocs
  BY DEF Running, Typed, Inv
<1>2. QED
  BY <1>1, GoodDocFields, ContentType, ContentLength

\* The tries and what they leave behind do not depend on the phase alone.
LEMMA BackedUpFrame ==
  ASSUME Running, UNCHANGED <<file, backup, held, tries>>,
         save' = Idle \/ /\ save # Idle /\ save'.path = save.path
                         /\ save'.phase # "Patch" => save.phase # "Patch"
                         /\ save'.phase \in {"Choose", "Patch"} => save.phase \in {"Choose", "Patch"}
  PROVE  BackedUp'
<1>1. SUFFICES ASSUME backup, NEW p \in Paths, tries[p] <= 1
               PROVE  /\ Same(p)' \/ Kept(p)'
                      /\ tries[p] = 0 => Same(p)' /\ ~ At(p)'
                      /\ At(p)' /\ save'.phase # "Patch" => Same(p)'
                      /\ At(p)' /\ save'.phase \in {"Choose", "Patch"} => Kept(p)'
  BY DEF BackedUp
<1>2. (Same(p)' <=> Same(p)) /\ (Kept(p)' <=> Kept(p))
  BY DEF Same, Kept
<1>3. /\ Same(p) \/ Kept(p)
      /\ tries[p] = 0 => Same(p) /\ ~ At(p)
      /\ At(p) /\ save.phase # "Patch" => Same(p)
      /\ At(p) /\ save.phase \in {"Choose", "Patch"} => Kept(p)
  BY <1>1 DEF Running, BackedUp
<1>4. At(p)' => At(p)
  BY DEF At
<1>5. CASE save' = Idle
  BY <1>2, <1>3, <1>5 DEF At
<1>6. CASE save' # Idle
  BY <1>2, <1>3, <1>4, <1>6 DEF At
<1>7. QED
  BY <1>5, <1>6

\* save_active chooses how to save.
LEMMA ChooseStep == ASSUME Running, SChoose PROVE Running'
<1>. DEFINE t == doc.table
            p == save.path
<1>1. FilesTyped /\ Typed /\ Saving /\ Whole /\ BackedUp
  BY DEF Running
<1>2. /\ save # Idle /\ save.phase = "Choose"
      /\ UNCHANGED <<cache, file, doc, panicked, edits, displaced, orphan, linked, bad, tabPath,
                     backup, saves, alive, held, versions, tries, buried>>
      /\ patching' = [patching EXCEPT ![p] = @ \/ save'.phase = "Patch"]
      /\ save' = IF Patches
                   THEN [phase |-> "Patch", path |-> p, left |-> DirtyRanges(t)]
                   ELSE [phase |-> "Stream", path |-> p, left |-> Parts(t),
                         tmp |-> [now |-> <<>>, durable |-> <<>>], unreadable |-> FALSE]
  BY DEF SChoose, Choose, Rest
<1>3. PreparingOk /\ p \in Paths
  BY <1>1, <1>2, Shapes
<1>4. /\ tries' \in [Paths -> Nat]
      /\ patching' \in [Paths -> BOOLEAN]
      /\ save'.phase = "Patch" => patching'[p] = TRUE
      /\ \A q \in Paths : ~ patching'[q] => ~ patching[q]
  BY <1>1, <1>2, <1>3 DEF Typed
<1>5. FilesTyped' /\ Typed' /\ CacheOk'
  BY <1>2, <1>4, Quiet
<1>6. /\ t \in Seq(Piece) /\ t \in Seq(Stored(doc.size, doc.added))
      /\ doc.size \in Nat /\ doc.added \in Nat /\ Content(t) \in Seq(Cell)
  BY SavedDocument
<1>7. ASSUME Patches PROVE Saving'
  <2>. DEFINE left == DirtyRanges(t)
  <2>1. save' = [phase |-> "Patch", path |-> p, left |-> left] /\ CanSaveInPlace(t, doc.size)
    BY <1>2, <1>7 DEF Patches
  <2>2. /\ left \in Seq(Added(t))
        /\ \A i \in 1 .. TotalLen(t) : Content(t)[i][1] = "Added" => InRanges(left, i - 1)
    BY <1>6, DirtyRangesAdded
  <2>3. TotalLen(t) = doc.size
    BY <2>1 DEF CanSaveInPlace
  <2>. HIDE DEF left, t, p
  <2>4. save' \in [phase : {"Patch"}, path : Paths, left : Seq(Added(t))]
    BY <1>3, <2>1, <2>2
  <2>5. save'.left = left /\ save'.phase = "Patch" /\ save'.path = p
    BY <2>1
  <2>6. doc' = doc
    BY <1>2
  <2>7. doc'.table = t
    BY <2>6 DEF t
  <2>8. \A i \in 1 .. doc'.size : Content(doc'.table)[i][1] = "Added" => InRanges(save'.left, i - 1)
    BY <2>2, <2>3, <2>5, <2>6, <2>7
  <2>9. PatchOk'
    BY <1>4, <2>1, <2>4, <2>5, <2>6, <2>7, <2>8 DEF PatchOk
  <2>10. QED
    BY <2>9 DEF Saving
<1>8. ASSUME ~ Patches PROVE Saving'
  <2>. DEFINE left == Parts(t)
              r == [now |-> <<>>, durable |-> <<>>]
  <2>1. save' = [phase |-> "Stream", path |-> p, left |-> left, tmp |-> r, unreadable |-> FALSE]
    BY <1>2, <1>8
  <2>2. left \in Seq(OneBlock(doc.size)) /\ Content(left) = Content(t)
    BY <1>6, PartsContent
  <2>3. <<>> \o Content(t) = Content(t)
    <3>. DEFINE c == Content(t)
    <3>1. c \in Seq(Cell)
      BY <1>6
    <3>. HIDE DEF c
    <3>2. <<>> \o c = c
      BY <3>1
    <3>3. QED
      BY <3>2 DEF c
  <2>. HIDE DEF left, t, p
  <2>4. r \in [now : Seq(FCell \cup {Zero}), durable : Seq(FCell)] /\ r.now = <<>> /\ r.now \in Seq(FCell)
    OBVIOUS
  <2>. HIDE DEF r
  <2>5. save' \in [phase : {"Stream"}, path : Paths, left : Seq(OneBlock(doc.size)),
                   tmp : [now : Seq(FCell \cup {Zero}), durable : Seq(FCell)],
                   unreadable : BOOLEAN]
    BY <1>3, <2>1, <2>2, <2>4 DEF p
  <2>6. save'.left = left /\ save'.tmp = r /\ save'.unreadable = FALSE
    BY <2>1
  <2>7. doc' = doc /\ doc'.table = t
    BY <1>2 DEF t
  <2>8. OneBlock(doc.size)' = OneBlock(doc.size)
    BY <2>7 DEF OneBlock, BlockStart
  <2>9. save'.tmp.now \o Content(save'.left) = Content(doc'.table)
    BY <2>2, <2>3, <2>4, <2>6, <2>7
  <2>10. StreamOk'
    BY <2>4, <2>5, <2>6, <2>7, <2>8, <2>9 DEF StreamOk
  <2>11. QED
    BY <2>10 DEF Saving
<1>9. Saving'
  <2>. HIDE DEF t, p
  <2>1. QED
    BY <1>7, <1>8
<1>10. Whole'
  <2>1. \A q \in Paths : (~ patching'[q] => ~ patching[q]) /\ file'[q] = file[q] /\ held'[q] = held[q]
          /\ buried'[q] = buried[q] /\ displaced'[q] = displaced[q] /\ versions'[q] = versions[q]
    BY <1>2, <1>4
  <2>2. QED
    BY <1>1, <2>1 DEF Whole
<1>11. BackedUp'
  <2>1. save'.path = save.path /\ save'.phase \in {"Patch", "Stream"}
    BY <1>2
  <2>2. QED
    BY <1>2, <2>1, BackedUpFrame
<1>12. QED
  BY <1>5, <1>9, <1>10, <1>11 DEF Running

\* Writing a backup disturbs no other file.
LEMMA BackupWrites ==
  ASSUME Running, save # Idle, save.phase \in {"Backup", "Copy"},
         file' \in [DOMAIN file' -> File], DOMAIN file \subseteq DOMAIN file',
         \A q \in DOMAIN file : q # BakOf(save.path) => file'[q] = file[q],
         UNCHANGED cache, UNCHANGED Rest, UNCHANGED savehistory,
         \/ save' = Idle
         \/ save'.path = save.path /\ save'.phase = "Copy"
         \/ /\ save'.path = save.path /\ save'.phase = "Choose"
            /\ BakOf(save.path) \in DOMAIN file'
            /\ file'[BakOf(save.path)].now = file[save.path].now
  PROVE  FilesTyped' /\ Typed' /\ CacheOk' /\ Whole' /\ BackedUp'
<1>1. FilesTyped /\ Typed /\ CacheOk /\ Saving /\ Whole /\ BackedUp
  BY DEF Running
<1>2. UNCHANGED <<cache, doc, panicked, edits, displaced, orphan, linked, bad, tabPath,
                  backup, saves, alive, held, versions, tries, patching, buried>>
  BY DEF Rest, savehistory
<1>3. save.path \in Paths /\ Paths \subseteq DOMAIN file
  BY <1>1, Shapes DEF FilesTyped
<1>4. \A p \in Paths : file'[p] = file[p] /\ p \in DOMAIN file'
  BY <1>3, Names
<1>5. FilesTyped'
  BY <1>4 DEF FilesTyped, Paths, Opened, Other
<1>6. SourceBytes' = SourceBytes
  BY <1>2, <1>4, Names DEF SourceBytes
<1>7. Typed'
  BY <1>1, <1>2, <1>6 DEF Typed, Inv
<1>8. CacheOk'
  BY <1>1, <1>2, <1>6, CachePatched
<1>9. Whole'
  BY <1>1, <1>2, <1>4 DEF Whole
<1>10. BackedUp'
  <2>1. SUFFICES ASSUME backup, NEW p \in Paths, tries[p] <= 1
                 PROVE  /\ Same(p)' \/ Kept(p)'
                        /\ tries[p] = 0 => Same(p)' /\ ~ At(p)'
                        /\ At(p)' /\ save'.phase # "Patch" => Same(p)'
                        /\ At(p)' /\ save'.phase \in {"Choose", "Patch"} => Kept(p)'
    BY <1>2 DEF BackedUp
  <2>2. /\ Same(p) \/ Kept(p)
        /\ tries[p] = 0 => Same(p) /\ ~ At(p)
        /\ At(p) /\ save.phase # "Patch" => Same(p)
        /\ At(p) /\ save.phase \in {"Choose", "Patch"} => Kept(p)
    BY <1>1, <2>1 DEF BackedUp
  <2>3. Same(p)' <=> Same(p)
    BY <1>2, <1>4 DEF Same
  <2>4. CASE p = save.path
    <3>1. At(p)
      BY <2>4 DEF At
    <3>2. Same(p)
      BY <2>2, <3>1
    <3>3. save'.phase \in {"Choose", "Patch"} /\ At(p)' => Kept(p)'
      BY <1>2, <2>4, <3>2 DEF At, Kept, Same
    <3>4. QED
      BY <2>2, <2>3, <3>1, <3>2, <3>3
  <2>5. CASE p # save.path
    <3>1. ~ At(p)'
      BY <2>5 DEF At
    <3>2. BakOf(p) # BakOf(save.path)
      BY <1>3, <2>5, Names
    <3>3. Kept(p) => Kept(p)'
      BY <1>2, <3>2 DEF Kept
    <3>4. QED
      BY <2>2, <2>3, <3>1, <3>3
  <2>6. QED
    BY <2>4, <2>5
<1>11. QED
  BY <1>5, <1>7, <1>8, <1>9, <1>10

\* A file's record with another content.
LEMMA FileRecord ==
  ASSUME NEW f \in File, NEW c \in Seq(FCell)
  PROVE  /\ [f EXCEPT !.now = c] \in File
         /\ [f EXCEPT !.now = c].now = c /\ [f EXCEPT !.now = c].durable = f.durable
         /\ [now |-> c, durable |-> f.durable] \in File
         /\ NewFile(c) \in File /\ NewFile(c).now = c /\ NewFile(c).durable = c
BY DEF File, NewFile

\* The backup is created, empty.
LEMMA CreateBackupStep == ASSUME Running, CreateBackup, UNCHANGED savehistory, save # Idle PROVE Running'
<1>. DEFINE bak == BakOf(save.path)
            was == IF bak \in DOMAIN file THEN file[bak].durable ELSE <<>>
            f == [now |-> <<>>, durable |-> was]
<1>1. FilesTyped /\ Saving
  BY DEF Running
<1>2. /\ save.phase = "Backup" /\ file' = With(file, bak, f)
      /\ save' = [save EXCEPT !.phase = "Copy"]
      /\ UNCHANGED cache /\ UNCHANGED Rest
  BY DEF CreateBackup
<1>3. PreparingOk
  BY <1>1, <1>2, Shapes
<1>4. f \in File
  <2>1. was \in Seq(FCell)
    BY <1>1, FileFields
  <2>. HIDE DEF was
  <2>2. QED
    BY <2>1 DEF File
<1>. HIDE DEF f, was
<1>5. /\ DOMAIN file' = DOMAIN file \cup {bak}
      /\ \A q \in DOMAIN file' : file'[q] = IF q = bak THEN f ELSE file[q]
      /\ file' = [q \in DOMAIN file' |-> file'[q]]
  BY <1>2 DEF With
<1>6. file' \in [DOMAIN file' -> File]
  <2>1. \A q \in DOMAIN file' : file'[q] \in File
    BY <1>1, <1>4, <1>5, FileFields
  <2>2. QED
    BY <1>5, <2>1
<1>7. \A q \in DOMAIN file : q # bak => file'[q] = file[q]
  BY <1>5
<1>8. /\ save' \in [phase : {"Backup", "Copy", "Choose"}, path : Paths, saveAs : BOOLEAN]
      /\ save'.phase = "Copy" /\ save'.path = save.path
  BY <1>2, <1>3 DEF PreparingOk
<1>9. PreparingOk'
  BY <1>5, <1>8 DEF PreparingOk
<1>10. FilesTyped' /\ Typed' /\ CacheOk' /\ Whole' /\ BackedUp'
  BY <1>2, <1>5, <1>6, <1>7, <1>8, BackupWrites
<1>11. QED
  BY <1>9, <1>10 DEF Running, Saving

\* What the backup may hold after its copy.
LEMMA BackupFilled ==
  ASSUME FilesTyped, save # Idle, save.path \in Paths, BakOf(save.path) \in DOMAIN file,
         NEW c \in Seq(FCell), file' = [file EXCEPT ![BakOf(save.path)].now = c]
  PROVE  /\ file' \in [DOMAIN file' -> File] /\ DOMAIN file' = DOMAIN file
         /\ \A q \in DOMAIN file : q # BakOf(save.path) => file'[q] = file[q]
         /\ file'[BakOf(save.path)].now = c
<1>. DEFINE bak == BakOf(save.path)
            f == [file[bak] EXCEPT !.now = c]
<1>1. f \in File /\ f.now = c
  BY FileFields, FileRecord
<1>2. file' = [file EXCEPT ![bak] = f]
  OBVIOUS
<1>. HIDE DEF f, bak
<1>3. /\ DOMAIN file' = DOMAIN file
      /\ file' = [q \in DOMAIN file |-> IF q = bak THEN f ELSE file[q]]
  BY <1>2 DEF FilesTyped
<1>4. \A q \in DOMAIN file : file'[q] = IF q = bak THEN f ELSE file[q]
  BY <1>3
<1>5. \A q \in DOMAIN file : file'[q] \in File
  BY <1>1, <1>4, FileFields
<1>6. QED
  BY <1>1, <1>3, <1>4, <1>5 DEF bak

\* The backup is filled.
LEMMA CopyBackupStep == ASSUME Running, CopyBackup, UNCHANGED savehistory, save # Idle PROVE Running'
<1>1. FilesTyped /\ Saving
  BY DEF Running
<1>2. /\ save.phase = "Copy"
      /\ file' = [file EXCEPT ![BakOf(save.path)].now = file[save.path].now]
      /\ save' = [save EXCEPT !.phase = "Choose"]
      /\ UNCHANGED cache /\ UNCHANGED Rest
  BY DEF CopyBackup
<1>3. PreparingOk
  BY <1>1, <1>2, Shapes
<1>4. save.path \in Paths /\ BakOf(save.path) \in DOMAIN file /\ file[save.path].now \in Seq(FCell)
  BY <1>1, <1>2, <1>3, FileFields DEF PreparingOk
<1>5. /\ file' \in [DOMAIN file' -> File] /\ DOMAIN file' = DOMAIN file
      /\ \A q \in DOMAIN file : q # BakOf(save.path) => file'[q] = file[q]
      /\ file'[BakOf(save.path)].now = file[save.path].now
  BY <1>1, <1>2, <1>4, BackupFilled
<1>6. /\ save' \in [phase : {"Backup", "Copy", "Choose"}, path : Paths, saveAs : BOOLEAN]
      /\ save'.phase = "Choose" /\ save'.path = save.path
  BY <1>2, <1>3 DEF PreparingOk
<1>7. PreparingOk'
  BY <1>6 DEF PreparingOk
<1>8. FilesTyped' /\ Typed' /\ CacheOk' /\ Whole' /\ BackedUp'
  BY <1>2, <1>4, <1>5, <1>6, BackupWrites
<1>9. QED
  BY <1>7, <1>8 DEF Running, Saving

-----------------------------------------------------------------------------
(* The steps of a save that streams. *)

\* Concatenation is associative.
LEMMA ConcatAssociates ==
  ASSUME NEW V, NEW a \in Seq(V), NEW b \in Seq(V), NEW c \in Seq(V)
  PROVE  (a \o b) \o c = a \o (b \o c)
<1>. DEFINE l == (a \o b) \o c
            r == a \o (b \o c)
<1>1. /\ a \o b \in Seq(V) /\ b \o c \in Seq(V)
      /\ Len(a) \in Nat /\ Len(b) \in Nat /\ Len(c) \in Nat
      /\ Len(a \o b) = Len(a) + Len(b) /\ Len(b \o c) = Len(b) + Len(c)
  OBVIOUS
<1>2. /\ l \in Seq(V) /\ r \in Seq(V)
      /\ Len(l) = Len(a) + Len(b) + Len(c) /\ Len(r) = Len(a) + Len(b) + Len(c)
  BY <1>1
<1>3. ASSUME NEW i \in 1 .. Len(a) + Len(b) + Len(c) PROVE l[i] = r[i]
  BY <1>1
<1>. HIDE DEF l, r
<1>4. QED
  BY <1>1, <1>2, <1>3

\* A cell of the document that comes from the source.
LEMMA SourcedAt ==
  ASSUME NEW t \in Seq(Piece), NEW j \in 1 .. Len(Content(t)), NEW y,
         Content(t)[j] = <<"Original", y>>
  PROVE  y \in Sourced(t)
<1>. DEFINE x == Content(t)[j]
<1>1. x \in Cells(Content(t))
  BY DEF Cells
<1>2. x[1] = "Original" /\ x[2] = y
  OBVIOUS
<1>. HIDE DEF x
<1>3. QED
  BY <1>1, <1>2 DEF Sourced

\* The records of a save that streams.
StreamRecords(L, C, D) ==
  [phase : {"Stream"}, path : Paths, left : L, tmp : [now : C, durable : D], unreadable : BOOLEAN]

\* The record of a save after one more part.
LEMMA StreamFields ==
  ASSUME NEW L, NEW C, NEW D, NEW r \in StreamRecords(L, C, D), NEW x, NEW b \in BOOLEAN,
         Tail(r.left) \in L, r.tmp.now \o x \in C
  PROVE  /\ Streamed(r, x, b) \in StreamRecords(L, C, D)
         /\ Streamed(r, x, b).left = Tail(r.left)
         /\ Streamed(r, x, b).tmp.now = r.tmp.now \o x
         /\ Streamed(r, x, b).unreadable = (r.unreadable \/ b)
<1>. DEFINE l == Tail(r.left)
            c == r.tmp.now \o x
            u == r.unreadable \/ b
            g == [r EXCEPT !.left = l, !.tmp.now = c, !.unreadable = u]
<1>1. r \in [phase : {"Stream"}, path : Paths, left : L, tmp : [now : C, durable : D],
             unreadable : BOOLEAN]
  BY DEF StreamRecords
<1>2. l \in L /\ c \in C /\ u \in BOOLEAN /\ r.tmp \in [now : C, durable : D]
  BY <1>1
<1>3. Streamed(r, x, b) = g
  BY DEF Streamed
<1>. HIDE DEF l, c, u
<1>4. g \in [phase : {"Stream"}, path : Paths, left : L, tmp : [now : C, durable : D],
             unreadable : BOOLEAN]
  BY <1>1, <1>2
<1>5. g.left = l
  BY <1>1
<1>6. g.tmp = [r.tmp EXCEPT !.now = c]
  BY <1>1
<1>7. g.unreadable = u
  BY <1>1
<1>. HIDE DEF g
<1>8. g.tmp.now = c
  BY <1>2, <1>6
<1>9. QED
  BY <1>3, <1>4, <1>5, <1>7, <1>8 DEF l, c, u, StreamRecords

\* One more part has been streamed.
LEMMA StreamAdvances ==
  ASSUME Running, StreamOk, save.left # <<>>, (Untouched' <=> Untouched), doc' = doc,
         NEW b \in BOOLEAN, NEW x \in Seq(FCell \cup {Zero}), ~ b => x \in Seq(FCell),
         Untouched /\ ~ save.unreadable /\ ~ b => x = Bytes(save.left[1]),
         save' = Streamed(save, x, b)
  PROVE  StreamOk'
<1>. DEFINE now == save.tmp.now
            left == save.left
            W == FCell \cup {Zero}
            V == OneBlock(doc.size)
            e == now \o x
            u == save.unreadable \/ b
<1>1. /\ left \in Seq(V) /\ left # <<>> /\ now \in Seq(W) /\ save.tmp.durable \in Seq(FCell)
      /\ save.path \in Paths /\ save.unreadable \in BOOLEAN
      /\ ~ save.unreadable => now \in Seq(FCell)
      /\ Untouched /\ ~ save.unreadable => now \o Content(left) = Content(doc.table)
  BY DEF StreamOk
<1>2. V \in SUBSET Piece
  BY DEF OneBlock
<1>. HIDE DEF now, left, W, V
<1>3. left[1] \in V /\ Tail(left) \in Seq(V) /\ Content(left) = Bytes(left[1]) \o Content(Tail(left))
  BY <1>1, <1>2, FirstPart
<1>4. e \in Seq(W) /\ (~ u => e \in Seq(FCell)) /\ u \in BOOLEAN
  <2>1. x \in Seq(W)
    BY DEF W
  <2>2. e \in Seq(W)
    BY <1>1, <2>1
  <2>3. ~ u => e \in Seq(FCell)
    BY <1>1
  <2>4. QED
    BY <1>1, <2>2, <2>3
<1>5. ASSUME Untouched, ~ u PROVE e \o Content(Tail(left)) = Content(doc.table)
  <2>. DEFINE p == left[1]
              y == Bytes(p)
              z == Content(Tail(left))
  <2>1. p \in Piece /\ Tail(left) \in Seq(Piece)
    BY <1>2, <1>3, SeqMono
  <2>2. y \in Seq(Cell) /\ z \in Seq(Cell)
    BY <2>1, BytesType, ContentType
  <2>3. Cell \subseteq FCell
    BY DEF Cell, Store, FCell
  <2>4. y \in Seq(FCell) /\ z \in Seq(FCell)
    BY <2>2, <2>3, SeqMono
  <2>5. ~ save.unreadable /\ ~ b
    BY <1>5
  <2>6. x = y /\ now \in Seq(FCell) /\ now \o Content(left) = Content(doc.table)
    BY <1>1, <1>5, <2>5 DEF left
  <2>7. Content(left) = y \o z
    BY <1>3
  <2>. HIDE DEF y, z
  <2>8. (now \o y) \o z = now \o (y \o z)
    BY <2>4, <2>6, ConcatAssociates, SMTT(30)
  <2>9. QED
    BY <2>6, <2>7, <2>8 DEF z
<1>. HIDE DEF e, u
<1>6. save \in StreamRecords(Seq(V), Seq(W), Seq(FCell))
  BY DEF StreamOk, StreamRecords, V, W
<1>8. /\ save' \in StreamRecords(Seq(V), Seq(W), Seq(FCell))
      /\ save'.left = Tail(left) /\ save'.tmp.now = e /\ save'.unreadable = u
  <2>. DEFINE R == Seq(V)
              T == Seq(W)
              F == Seq(FCell)
  <2>1. Tail(save.left) \in R /\ save.tmp.now \o x \in T
    BY <1>3, <1>4 DEF left, e, now
  <2>2. save \in StreamRecords(R, T, F)
    BY <1>6
  <2>. HIDE DEF R, T, F
  <2>3. /\ Streamed(save, x, b) \in StreamRecords(R, T, F)
        /\ Streamed(save, x, b).left = Tail(save.left)
        /\ Streamed(save, x, b).tmp.now = save.tmp.now \o x
        /\ Streamed(save, x, b).unreadable = (save.unreadable \/ b)
    BY <2>1, <2>2, StreamFields
  <2>4. QED
    BY <2>3 DEF R, T, F, left, now, e, u
<1>9. OneBlock(doc.size)' = V /\ Content(doc.table)' = Content(doc.table)
  BY DEF V, OneBlock, BlockStart
<1>10. ~ u => e \in Seq(FCell)
  BY <1>4
<1>11. Untouched' /\ ~ u => e \o Content(Tail(left)) = Content(doc.table)
  BY <1>5
<1>12. QED
  BY <1>8, <1>9, <1>10, <1>11 DEF StreamOk, StreamRecords, W

\* What a read under the document gives, if nothing it needs was overwritten.
LEMMA StreamedBytes ==
  ASSUME Running, StreamOk, save.left # <<>>, save.left[1].store = "Original",
         NEW answer \in Answers(BlockOf(save.left[1].offset))
  PROVE  /\ FromBlock(answer, save.left[1]) \in Seq(FCell \cup {Zero})
         /\ answer.kind = "Ok" => FromBlock(answer, save.left[1]) \in Seq(FCell)
         /\ Untouched /\ ~ save.unreadable /\ answer.kind = "Ok" =>
              FromBlock(answer, save.left[1]) = Bytes(save.left[1])
<1>. DEFINE V == OneBlock(doc.size)
            left == save.left
            part == left[1]
            i == BlockOf(part.offset)
            x == FromBlock(answer, part)
            n == part.len
<1>1. left \in Seq(V) /\ left # <<>> /\ V \in SUBSET Piece
  BY DEF StreamOk, OneBlock
<1>2. part \in V /\ Content(left) = Bytes(part) \o Content(Tail(left)) /\ Tail(left) \in Seq(V)
  <2>. HIDE DEF V, left
  <2>1. QED
    BY <1>1, FirstPart
<1>3. part \in Piece /\ part.store = "Original" /\ doc.size \in Nat
  BY <1>1, <1>2, SavedDocument
<1>4. answer.kind \in {"Ok", "BadBlock", "Io"} /\ TrueAnswer(i, answer)
  <2>1. FilesTyped /\ Typed /\ CacheOk
    BY DEF Running
  <2>. HIDE DEF part
  <2>2. QED
    BY <1>2, <1>3, <2>1, AnswersTrue DEF part, left
<1>5. CASE answer.kind # "Ok"
  <2>1. x \in Seq({Zero})
    <3>. HIDE DEF part
    <3>1. QED
      BY <1>3, <1>5, ZerosInstead
  <2>. HIDE DEF x
  <2>2. x \in Seq(FCell \cup {Zero})
    BY <2>1, SeqMono
  <2>3. QED
    BY <1>5, <2>2 DEF x
<1>6. CASE answer.kind = "Ok"
  <2>. DEFINE s == part.offset - BlockStart(i)
              d == answer.data
  <2>1. /\ d \in Seq(FCell) /\ Len(d) = BlockLen(i)
        /\ \A k \in 1 .. BlockLen(i) :
             \/ BlockStart(i) + k - 1 \in Overwritten
             \/ d[k] = SourceBytes[BlockStart(i) + k]
    BY <1>4, <1>6 DEF TrueAnswer
  <2>2. /\ i \in Nat /\ s \in Nat /\ BlockStart(i) \in Nat
        /\ x \in Seq(FCell) /\ Len(x) = n
        /\ \A k \in 1 .. n : x[k] = d[s + k] /\ s + k \in 1 .. Len(d)
    <3>1. Len(d) = Smaller(BlockSize, doc.size - BlockStart(i))
      BY <2>1 DEF BlockLen
    <3>2. answer.kind = "Ok" /\ answer.data \in Seq(FCell)
      BY <1>6, <2>1
    <3>3. Takes(FCell, answer, part)
      <4>. HIDE DEF part
      <4>1. QED
        BY <1>2, <1>3, <3>1, <3>2, TakenFromBlock
    <3>4. QED
      BY <3>3 DEF Takes
  <2>3. x \in Seq(FCell \cup {Zero})
    <3>. HIDE DEF x
    <3>1. QED
      BY <2>2, SeqMono
  <2>4. ASSUME Untouched, ~ save.unreadable PROVE x = Bytes(part)
    <3>. DEFINE o == part.offset
                now == save.tmp.now
                y == Bytes(part)
                z == Content(Tail(left))
                c == Content(doc.table)
    <3>1. now \in Seq(FCell) /\ now \o Content(left) = c
      BY <2>4 DEF StreamOk
    <3>2. /\ y \in Seq(Cell) /\ Len(y) = n /\ n \in Nat /\ o \in Nat
          /\ \A k \in 1 .. n : y[k] = <<"Original", o + k - 1>>
      BY <1>3, BytesType DEF Piece
    <3>3. z \in Seq(Cell)
      BY <1>1, <1>2, SeqMono, ContentType
    <3>4. y \in Seq(FCell) /\ z \in Seq(FCell)
      <4>1. Cell \subseteq FCell
        BY DEF Cell, Store, FCell
      <4>2. QED
        BY <3>2, <3>3, <4>1, SeqMono
    <3>5. c = now \o (y \o z)
      BY <1>2, <3>1
    <3>6. o + n <= doc.size
      BY <1>2, <1>3 DEF OneBlock
    <3>. HIDE DEF now, z, n
    <3>7. ASSUME NEW k \in 1 .. n PROVE o + k - 1 \in Sourced(doc.table)
      <4>1. (y \o z)[k] = y[k] /\ k \in 1 .. Len(y \o z) /\ y \o z \in Seq(FCell)
        <5>. HIDE DEF y
        <5>1. QED
          BY <3>2, <3>4
      <4>. DEFINE w == y \o z
      <4>. HIDE DEF w
      <4>2. Len(now) + k \in 1 .. Len(now \o w) /\ (now \o w)[Len(now) + k] = w[k]
        BY <3>1, <4>1 DEF w
      <4>3. Len(now) + k \in 1 .. Len(c) /\ c[Len(now) + k] = <<"Original", o + k - 1>>
        BY <3>2, <3>5, <4>1, <4>2 DEF w
      <4>. HIDE DEF o
      <4>4. QED
        BY <4>3, SavedDocument, SourcedAt
    <3>8. ASSUME NEW k \in 1 .. n PROVE x[k] = y[k]
      <4>. DEFINE a == o + k - 1
      <4>1. a \in Nat /\ a < doc.size /\ BlockStart(i) + (s + k) - 1 = a /\ BlockStart(i) + (s + k) = a + 1
        <5>1. o = BlockStart(i) + s
          BY <2>2, <3>2
        <5>2. s \in Nat /\ BlockStart(i) \in Nat /\ n \in Nat /\ o \in Nat
          BY <2>2, <3>2
        <5>. DEFINE bs == BlockStart(i)
        <5>. HIDE DEF o, s, bs
        <5>3. QED
          BY <1>3, <3>6, <5>1, <5>2, SMTT(30) DEF bs
      <4>2. a \notin Overwritten
        BY <2>4, <3>7 DEF Untouched
      <4>3. x[k] = d[s + k] /\ s + k \in 1 .. BlockLen(i)
        BY <2>1, <2>2
      <4>. DEFINE m == s + k
      <4>4. BlockStart(i) + m - 1 = a /\ BlockStart(i) + m = a + 1 /\ m \in 1 .. BlockLen(i)
            /\ x[k] = d[m]
        BY <4>1, <4>3
      <4>. HIDE DEF m, a
      <4>5. d[m] = SourceBytes[a + 1]
        BY <2>1, <4>2, <4>4
      <4>6. SourceBytes[a + 1] = <<"Original", a>>
        BY <1>3, <4>1, <4>2, OverwrittenAt
      <4>7. y[k] = <<"Original", a>>
        BY <3>2 DEF a
      <4>8. QED
        BY <4>4, <4>5, <4>6, <4>7
    <3>. HIDE DEF x, y
    <3>9. x \in [1 .. n -> FCell] /\ y \in [1 .. n -> FCell]
      BY <2>2, <3>2, <3>4
    <3>10. \A k \in 1 .. n : x[k] = y[k]
      BY <3>8
    <3>11. x = y
      <4>1. x = [k \in 1 .. n |-> x[k]] /\ y = [k \in 1 .. n |-> y[k]]
        BY <3>9
      <4>2. [k \in 1 .. n |-> x[k]] = [k \in 1 .. n |-> y[k]]
        BY <3>10
      <4>3. QED
        BY <4>1, <4>2, Zenon
    <3>12. QED
      BY <3>11 DEF y
  <2>5. QED
    BY <1>6, <2>2, <2>3, <2>4
<1>7. QED
  BY <1>5, <1>6

\* One part of the document is streamed.
LEMMA StreamStep == ASSUME Running, StreamPart, UNCHANGED savehistory PROVE Running'
<1>. DEFINE part == save.left[1]
            i == BlockOf(part.offset)
<1>1. FilesTyped /\ Typed /\ CacheOk /\ Saving /\ Whole
  BY DEF Running
<1>2. /\ save.phase = "Stream" /\ save.left # <<>>
      /\ UNCHANGED <<file, doc, panicked, edits, displaced, orphan, linked, bad, tabPath,
                     backup, saves, alive, held, versions, tries, patching, buried>>
  BY DEF StreamPart, Rest, savehistory
<1>3. tries' \in [Paths -> Nat] /\ patching' \in [Paths -> BOOLEAN]
  BY <1>1, <1>2 DEF Typed
<1>4. /\ FilesTyped' /\ Typed' /\ (Untouched <=> Untouched') /\ (cache' = cache => CacheOk')
  BY <1>2, <1>3, Quiet
<1>5. StreamOk /\ save # Idle
  BY <1>1, <1>2, Shapes
<1>6. part \in OneBlock(doc.size) /\ part \in Piece
  <2>. DEFINE V == OneBlock(doc.size)
              left == save.left
  <2>1. left \in Seq(V) /\ V \in SUBSET Piece /\ left # <<>>
    BY <1>2, <1>5 DEF StreamOk, OneBlock
  <2>. HIDE DEF V, left
  <2>2. left[1] \in V
    BY <2>1, FirstPart
  <2>3. QED
    BY <2>1, <2>2 DEF V, left
<1>7. ASSUME part.store = "Added" PROVE StreamOk' /\ CacheOk'
  <2>. DEFINE x == Bytes(part)
  <2>1. save' = Streamed(save, x, FALSE) /\ cache' = cache
    BY <1>7 DEF StreamPart
  <2>2. x \in Seq(FCell) /\ x \in Seq(FCell \cup {Zero})
    <3>1. Cell \subseteq FCell
      BY DEF Cell, Store, FCell
    <3>2. x \in Seq(Cell)
      BY <1>6, BytesType
    <3>3. QED
      BY <3>1, <3>2, SeqMono
  <2>. HIDE DEF x
  <2>3. StreamOk'
    <3>1. Untouched /\ ~ save.unreadable /\ ~ FALSE => x = Bytes(save.left[1])
      BY DEF x
    <3>2. QED
      BY <1>2, <1>4, <1>5, <2>1, <2>2, <3>1, StreamAdvances
  <2>4. QED
    BY <1>4, <2>1, <2>3
<1>8. ASSUME part.store # "Added" PROVE StreamOk' /\ CacheOk'
  <2>1. part.store = "Original"
    BY <1>6, <1>8 DEF Piece, Store
  <2>2. PICK answer \in Answers(i) :
          /\ cache' = Asked(cache, i, answer)
          /\ save' = Streamed(save, FromBlock(answer, part), BadAnswer(answer))
    BY <1>8 DEF StreamPart
  <2>3. CacheOk'
    <3>. HIDE DEF part
    <3>1. QED
      BY <1>1, <1>2, <1>6, <2>1, <2>2, AskedTrue
  <2>. DEFINE x == FromBlock(answer, part)
              b == BadAnswer(answer)
  <2>4. /\ x \in Seq(FCell \cup {Zero}) /\ (~ b => x \in Seq(FCell)) /\ b \in BOOLEAN
        /\ Untouched /\ ~ save.unreadable /\ ~ b => x = Bytes(part)
    <3>1. /\ x \in Seq(FCell \cup {Zero}) /\ (answer.kind = "Ok" => x \in Seq(FCell))
          /\ Untouched /\ ~ save.unreadable /\ answer.kind = "Ok" => x = Bytes(part)
      BY <1>2, <1>5, <2>1, StreamedBytes
    <3>2. QED
      BY <3>1 DEF BadAnswer
  <2>. HIDE DEF x, b
  <2>5. StreamOk'
    <3>1. save' = Streamed(save, x, b)
      BY <2>2 DEF x, b
    <3>2. Untouched /\ ~ save.unreadable /\ ~ b => x = Bytes(save.left[1])
      BY <2>4
    <3>3. QED
      BY <1>2, <1>4, <1>5, <2>4, <3>1, <3>2, StreamAdvances
  <2>6. QED
    BY <2>3, <2>5
<1>9. StreamOk' /\ CacheOk'
  BY <1>4, <1>7, <1>8
<1>10. BackedUp'
  <2>1. save'.path = save.path /\ save'.phase = "Stream"
    <3>1. save' \in [phase : {"Stream"}, path : Paths, left : Seq(OneBlock(doc'.size)),
               tmp : [now : Seq(FCell \cup {Zero}), durable : Seq(FCell)], unreadable : BOOLEAN]
      BY <1>9 DEF StreamOk, OneBlock, BlockStart
    <3>2. save'.phase = "Stream"
      BY <3>1
    <3>3. \E x, b : save' = Streamed(save, x, b)
      <4>1. CASE part.store = "Added"
        BY <4>1 DEF StreamPart
      <4>2. CASE part.store # "Added"
        BY <4>2 DEF StreamPart
      <4>3. QED
        BY <4>1, <4>2
    <3>4. \A x, b : Streamed(save, x, b).path = save.path
      <4>1. TAKE x, b
      <4>2. save = [phase |-> save.phase, path |-> save.path, left |-> save.left,
                    tmp |-> save.tmp, unreadable |-> save.unreadable]
        BY <1>5 DEF StreamOk
      <4>3. QED
        BY <4>2 DEF Streamed
    <3>5. QED
      BY <3>2, <3>3, <3>4
  <2>2. QED
    BY <1>2, <1>5, <2>1, BackedUpFrame
<1>11. Whole'
  BY <1>1, <1>2 DEF Whole
<1>12. QED
  BY <1>4, <1>9, <1>10, <1>11 DEF Running, Saving

\* Refusing to save what could not be read.
LEMMA RefuseStep == ASSUME Running, Refuse, UNCHANGED savehistory PROVE Running'
<1>1. FilesTyped /\ Typed /\ Whole
  BY DEF Running
<1>2. /\ save' = Idle
      /\ UNCHANGED <<cache, file, doc, panicked, edits, displaced, orphan, linked, bad, tabPath,
                     backup, saves, alive, held, versions, tries, patching, buried>>
  BY DEF Refuse, Rest, savehistory
<1>3. tries' \in [Paths -> Nat] /\ patching' \in [Paths -> BOOLEAN]
  BY <1>1, <1>2 DEF Typed
<1>4. FilesTyped' /\ Typed' /\ CacheOk'
  BY <1>2, <1>3, Quiet
<1>5. BackedUp'
  BY <1>2, BackedUpFrame
<1>6. Whole'
  BY <1>1, <1>2 DEF Whole
<1>7. QED
  BY <1>2, <1>4, <1>5, <1>6 DEF Running, Saving

\* What was streamed reaches the disk before it gets its name.
LEMMA SyncTemporaryStep == ASSUME Running, SyncTemporary, UNCHANGED savehistory PROVE Running'
<1>. DEFINE c == save.tmp.now
            d == Content(doc.table)
<1>1. FilesTyped /\ Typed /\ Saving /\ Whole
  BY DEF Running
<1>2. /\ save.phase = "Stream" /\ save.left = <<>> /\ ~ save.unreadable
      /\ save' = [phase |-> "Rename", path |-> save.path, tmp |-> NewFile(c)]
      /\ UNCHANGED <<cache, file, doc, panicked, edits, displaced, orphan, linked, bad, tabPath,
                     backup, saves, alive, held, versions, tries, patching, buried>>
  BY DEF SyncTemporary, SyncsData, Rest, savehistory
<1>3. tries' \in [Paths -> Nat] /\ patching' \in [Paths -> BOOLEAN]
  BY <1>1, <1>2 DEF Typed
<1>4. FilesTyped' /\ Typed' /\ CacheOk' /\ (Untouched <=> Untouched')
  BY <1>2, <1>3, Quiet
<1>5. StreamOk /\ save # Idle /\ save.path \in Paths
  BY <1>1, <1>2, Shapes
<1>6. c \in Seq(FCell) /\ (Untouched => c \o <<>> = d)
  BY <1>2, <1>5, ContentOfNone DEF StreamOk
<1>7. c \o <<>> = c
  <2>. HIDE DEF c
  <2>1. QED
    BY <1>6
<1>. HIDE DEF c
<1>8. RenameOk'
  <2>. DEFINE f == NewFile(c)
  <2>1. f \in File /\ f.now = c /\ f.durable = c
    BY <1>6 DEF NewFile, File
  <2>. HIDE DEF f
  <2>2. save' = [phase |-> "Rename", path |-> save.path, tmp |-> f]
    BY <1>2 DEF f
  <2>3. /\ save' \in [phase : {"Rename"}, path : Paths, tmp : File]
        /\ save'.tmp = f
    BY <1>5, <2>1, <2>2
  <2>4. Content(doc.table)' = d
    BY <1>2
  <2>. HIDE DEF d
  <2>5. QED
    BY <1>4, <1>6, <1>7, <2>1, <2>3, <2>4 DEF RenameOk
<1>9. BackedUp'
  <2>1. save'.path = save.path /\ save'.phase = "Rename"
    BY <1>2
  <2>2. QED
    BY <1>2, <1>5, <2>1, BackedUpFrame
<1>10. Whole'
  BY <1>1, <1>2 DEF Whole
<1>11. QED
  BY <1>4, <1>8, <1>9, <1>10 DEF Running, Saving

-----------------------------------------------------------------------------
(* The steps between saves. *)

\* The user reads.
LEMMA ReadStep == ASSUME Running, ReadBlock, UNCHANGED savehistory PROVE Running'
<1>1. FilesTyped /\ Typed /\ CacheOk /\ Whole
  BY DEF Running
<1>2. /\ save = Idle
      /\ UNCHANGED <<doc, panicked, edits, file, displaced, orphan, linked, bad, tabPath, backup,
                     save, saves, alive, held, versions, tries, patching, buried>>
  BY DEF ReadBlock, savehistory
<1>3. PICK k \in 1 .. Len(Parts(doc.table)) :
        /\ Parts(doc.table)[k].store = "Original"
        /\ \E answer \in Answers(BlockOf(Parts(doc.table)[k].offset)) :
             cache' = Asked(cache, BlockOf(Parts(doc.table)[k].offset), answer)
  BY DEF ReadBlock
<1>. DEFINE part == Parts(doc.table)[k]
<1>4. part \in OneBlock(doc.size)
  <2>1. Parts(doc.table) \in Seq(OneBlock(doc.size))
    BY SavedDocument, PartsContent
  <2>2. QED
    BY <2>1
<1>. HIDE DEF part
<1>5. CacheOk'
  BY <1>1, <1>2, <1>3, <1>4, AskedTrue DEF part
<1>6. tries' \in [Paths -> Nat] /\ patching' \in [Paths -> BOOLEAN]
  BY <1>1, <1>2 DEF Typed
<1>7. FilesTyped' /\ Typed'
  BY <1>2, <1>6, Quiet
<1>8. BackedUp'
  BY <1>2, BackedUpFrame
<1>9. Whole'
  BY <1>1, <1>2 DEF Whole
<1>10. QED
  BY <1>2, <1>5, <1>7, <1>8, <1>9 DEF Running, Saving

\* The user's edits leave the size of the source alone.
LEMMA UserKeepsSize ==
  ASSUME Inv, ~ panicked, UserStep
  PROVE  doc'.size = doc.size /\ Inv'
<1>1. Inv'
  BY NextInv DEF UserStep, Next
<1>2. CASE \E offset \in Offsets, n \in Sizes : EditAt(offset, n)
  BY <1>1, <1>2, EditCommits DEF Commits
<1>3. CASE UndoStep \/ RedoStep
  <2>1. doc' = doc \/ doc' = Undo(doc) \/ doc' = Redo(doc)
    BY <1>3 DEF UndoStep, RedoStep
  <2>2. doc \in Docs(Piece)
    BY DEF Inv, GoodDocs
  <2>3. Undo(doc).size = doc.size /\ Redo(doc).size = doc.size
    BY <2>2 DEF Undo, Redo, Docs
  <2>4. QED
    BY <1>1, <2>1, <2>3
<1>4. QED
  BY <1>1, <1>2, <1>3 DEF UserStep

\* The user edits, undoes or redoes.
LEMMA UserStepKeeps == ASSUME Running, ~ panicked, UserStep, UNCHANGED savehistory PROVE Running'
<1>1. FilesTyped /\ Typed /\ CacheOk /\ Whole
  BY DEF Running
<1>2. /\ save = Idle
      /\ UNCHANGED <<cache, file, displaced, orphan, linked, bad, tabPath, backup,
                     save, saves, alive, held, versions, tries, patching, buried>>
  BY DEF UserStep, fsvars, savehistory
<1>3. doc'.size = doc.size /\ Inv'
  BY <1>1, UserKeepsSize DEF Typed
<1>4. SourceBytes' = SourceBytes
  BY <1>2 DEF SourceBytes
<1>5. CacheOk'
  BY <1>1, <1>2, <1>3, <1>4, CachePatched
<1>6. Typed'
  BY <1>1, <1>2, <1>3, <1>4 DEF Typed
<1>7. FilesTyped'
  BY <1>1, <1>2 DEF FilesTyped
<1>8. BackedUp'
  BY <1>2, BackedUpFrame
<1>9. Whole'
  BY <1>1, <1>2 DEF Whole
<1>10. QED
  BY <1>2, <1>5, <1>6, <1>7, <1>8, <1>9 DEF Running, Saving

-----------------------------------------------------------------------------
(* The steps of a save in place. *)

\* What one write of a save in place does to the file.
Wrote(f, g, at, n) ==
  /\ g \in Seq(FCell) /\ Len(f) <= Len(g)
  /\ at + n <= doc.size => Len(g) = Larger(Len(f), at + n)
  /\ \A i \in 1 .. Len(f) : i \in 1 .. Len(g) /\ (g[i] = f[i] \/ g[i][1] = "Added")
  /\ \A i \in 1 .. doc.size : at < i /\ i <= at + n =>
       i \in 1 .. Len(g) /\ g[i] = Content(doc.table)[i]
  /\ \A i \in 1 .. doc.size : i \in 1 .. Len(f) /\ f[i] = Content(doc.table)[i] =>
       i \in 1 .. Len(g) /\ g[i] = Content(doc.table)[i]

\* A write of some first bytes of a range writes added bytes of the document.
LEMMA OneWrite ==
  ASSUME Running, NEW r \in Added(doc.table), NEW cells \in Seq(FCell), NEW f \in Seq(FCell),
         Len(cells) <= Len(RangeBytes(r)),
         \A k \in 1 .. Len(cells) : cells[k] = RangeBytes(r)[k]
  PROVE  /\ Wrote(f, Overlaid(f, r[1], cells), r[1], Len(cells))
         /\ r[1] \in Nat /\ r[2] \in Nat /\ r[1] + Len(cells) <= r[2] /\ r[2] <= TotalLen(doc.table)
         /\ Len(cells) \in Nat /\ Len(f) \in Nat
<1>. DEFINE c == Content(doc.table)
            b == RangeBytes(r)
            at == r[1]
            n == Len(cells)
            g == Overlaid(f, at, cells)
<1>1. /\ b \in Seq(Cell) /\ Len(b) = r[2] - at
      /\ at \in Nat /\ r[2] \in Nat /\ at < r[2] /\ r[2] <= TotalLen(doc.table)
      /\ \A k \in 1 .. Len(b) : b[k] = c[at + k] /\ b[k][1] = "Added"
  BY SavedDocument, WrittenBytes DEF RangeBytes
<1>2. /\ g \in Seq(FCell) /\ Len(g) = Larger(Len(f), at + n)
      /\ Len(f) \in Nat /\ n \in Nat
      /\ \A i \in 1 .. Len(g) : at < i /\ i <= at + n => g[i] = cells[i - at]
      /\ \A i \in 1 .. Len(f) : i \in 1 .. Len(g) /\ (~ (at < i /\ i <= at + n) => g[i] = f[i])
  <2>1. at \in Nat
    BY <1>1
  <2>. HIDE DEF at
  <2>2. QED
    BY <2>1, OverlaidCells
<1>3. doc.size \in Nat
  BY SavedDocument
<1>. HIDE DEF b, at, n, g, c
<1>4. n <= Len(b) /\ (\A k \in 1 .. n : cells[k] = b[k]) /\ Len(b) \in Nat /\ at + n <= r[2]
  <2>1. n <= Len(b) /\ (\A k \in 1 .. n : cells[k] = b[k])
    BY DEF n, b
  <2>2. QED
    BY <1>1, <1>2, <2>1
<1>5. Len(g) \in Nat /\ Len(f) <= Len(g) /\ at + n <= Len(g)
  BY <1>1, <1>2 DEF Larger
<1>6. ASSUME NEW i \in Nat, at < i, i <= at + n
      PROVE  i \in 1 .. Len(g) /\ g[i] = c[i] /\ g[i][1] = "Added"
  <2>. DEFINE k == i - at
  <2>1. k \in 1 .. n /\ k \in 1 .. Len(b) /\ at + k = i /\ i \in 1 .. Len(g)
    <3>1. at \in Nat /\ n \in Nat /\ Len(b) \in Nat /\ n <= Len(b)
      BY <1>1, <1>2, <1>4
    <3>2. k \in Nat /\ k >= 1 /\ k <= n /\ at + k = i
      BY <1>6, <3>1
    <3>3. Len(g) \in Nat /\ at + n <= Len(g)
      BY <1>5
    <3>4. i >= 1 /\ i <= Len(g)
      BY <1>6, <3>1, <3>3
    <3>. HIDE DEF k
    <3>5. QED
      BY <3>1, <3>2, <3>3, <3>4
  <2>2. g[i] = cells[k]
    BY <1>2, <1>6, <2>1
  <2>. HIDE DEF k
  <2>3. cells[k] = b[k]
    BY <1>4, <2>1
  <2>4. b[k] = c[i] /\ b[k][1] = "Added"
    BY <1>1, <2>1
  <2>5. QED
    BY <2>1, <2>2, <2>3, <2>4
<1>7. \A i \in 1 .. Len(f) : i \in 1 .. Len(g) /\ (g[i] = f[i] \/ g[i][1] = "Added")
  BY <1>2, <1>6
<1>8. \A i \in 1 .. doc.size : at < i /\ i <= at + n => i \in 1 .. Len(g) /\ g[i] = c[i]
  BY <1>3, <1>6
<1>9. \A i \in 1 .. doc.size : i \in 1 .. Len(f) /\ f[i] = c[i] => i \in 1 .. Len(g) /\ g[i] = c[i]
  <2>1. TAKE i \in 1 .. doc.size
  <2>2. HAVE i \in 1 .. Len(f) /\ f[i] = c[i]
  <2>3. CASE at < i /\ i <= at + n
    BY <1>8, <2>3
  <2>4. CASE ~ (at < i /\ i <= at + n)
    BY <1>2, <2>2, <2>4
  <2>5. QED
    BY <2>3, <2>4
<1>10. Wrote(f, g, at, n)
  BY <1>2, <1>5, <1>7, <1>8, <1>9 DEF Wrote, c
<1>11. QED
  BY <1>1, <1>2, <1>4, <1>10 DEF at, n, g

\* A write of a save in place disturbs no other file, and the file it writes only
\* where the document has added bytes.
LEMMA PatchWrites ==
  ASSUME Running, PatchOk, save # Idle, save.left # <<>>,
         NEW cells \in Seq(FCell), Len(cells) <= Len(RangeBytes(save.left[1])),
         \A k \in 1 .. Len(cells) : cells[k] = RangeBytes(save.left[1])[k],
         file' = [file EXCEPT ![save.path].now = Overlaid(@, save.left[1][1], cells)],
         UNCHANGED cache, UNCHANGED Rest, UNCHANGED savehistory,
         save' = Idle \/ (save'.path = save.path /\ save'.phase = "Patch")
  PROVE  /\ FilesTyped' /\ Typed' /\ CacheOk' /\ Whole' /\ BackedUp'
         /\ Wrote(file[save.path].now, file'[save.path].now, save.left[1][1], Len(cells))
         /\ doc' = doc
<1>. DEFINE p == save.path
            r == save.left[1]
            f == file[p].now
            g == Overlaid(f, r[1], cells)
<1>1. FilesTyped /\ Typed /\ CacheOk /\ Saving /\ Whole /\ BackedUp
  BY DEF Running
<1>2. UNCHANGED <<cache, doc, panicked, edits, displaced, orphan, linked, bad, tabPath,
                  backup, saves, alive, held, versions, tries, patching, buried>>
  BY DEF Rest, savehistory
<1>3. save.phase = "Patch" /\ p \in Paths /\ patching[p] /\ CanSaveInPlace(doc.table, doc.size)
  BY DEF PatchOk
<1>4. r \in Added(doc.table)
  <2>. DEFINE V == Added(doc.table)
              left == save.left
  <2>1. left \in Seq(V) /\ left # <<>>
    BY DEF PatchOk
  <2>. HIDE DEF V, left
  <2>2. left[1] \in V
    BY <2>1
  <2>3. QED
    BY <2>2 DEF V, left
<1>5. f \in Seq(FCell) /\ file[p] \in File /\ p \in DOMAIN file
  BY <1>1, <1>3, FileFields
<1>6. /\ Wrote(f, g, r[1], Len(cells)) /\ Len(cells) \in Nat /\ Len(f) \in Nat
      /\ r[1] \in Nat /\ r[2] \in Nat /\ r[1] + Len(cells) <= r[2] /\ r[2] <= TotalLen(doc.table)
  <2>. HIDE DEF r, f
  <2>1. Len(cells) <= Len(RangeBytes(r)) /\ \A k \in 1 .. Len(cells) : cells[k] = RangeBytes(r)[k]
    BY DEF r
  <2>2. QED
    BY <1>4, <1>5, <2>1, OneWrite
<1>7. r[1] + Len(cells) <= doc.size /\ doc.size \in Nat
  BY <1>3, <1>6, SavedDocument, SMTT(30) DEF CanSaveInPlace
<1>8. file' = [file EXCEPT ![p] = [file[p] EXCEPT !.now = g]]
  OBVIOUS
<1>9. /\ g \in Seq(FCell) /\ Len(g) = Larger(Len(f), r[1] + Len(cells))
      /\ \A i \in 1 .. Len(f) : i \in 1 .. Len(g) /\ (g[i] = f[i] \/ g[i][1] = "Added")
  BY <1>6, <1>7 DEF Wrote
<1>. DEFINE h == [file[p] EXCEPT !.now = g]
<1>. HIDE DEF g
<1>10. h \in File /\ h.now = g
  BY <1>5, <1>9, FileRecord
<1>. HIDE DEF h
<1>11. /\ DOMAIN file' = DOMAIN file /\ file' = [q \in DOMAIN file |-> file'[q]]
       /\ file'[p] = h
       /\ \A q \in DOMAIN file : q # p => file'[q] = file[q]
  <2>1. file' = [file EXCEPT ![p] = h]
    BY <1>8 DEF h
  <2>. HIDE DEF p
  <2>2. QED
    BY <1>1, <1>5, <2>1 DEF FilesTyped
<1>12. FilesTyped'
  <2>1. \A q \in DOMAIN file : file'[q] \in File
    BY <1>1, <1>10, <1>11, FileFields
  <2>2. Paths \subseteq DOMAIN file
    BY <1>1 DEF FilesTyped
  <2>3. QED
    BY <1>11, <2>1, <2>2 DEF FilesTyped, Paths, Opened, Other
<1>. HIDE DEF p
<1>13. /\ Len(SourceBytes') = doc.size
       /\ \A x \in 1 .. doc.size : \/ SourceBytes'[x] = SourceBytes[x]
                                   \/ SourceBytes'[x][1] = "Added"
  <2>1. Len(SourceBytes) = doc.size
    BY <1>1 DEF Typed
  <2>2. CASE p = Opened /\ linked
    <3>1. SourceBytes = f /\ SourceBytes' = g
      BY <1>2, <1>10, <1>11, <2>2 DEF SourceBytes, f
    <3>2. Len(g) = doc.size
      <4>1. Len(f) = doc.size
        BY <2>1, <3>1
      <4>2. Len(g) = Larger(doc.size, r[1] + Len(cells))
        BY <1>9, <4>1
      <4>3. r[1] + Len(cells) \in Nat
        BY <1>6
      <4>. DEFINE m == r[1] + Len(cells)
      <4>. HIDE DEF m
      <4>4. Larger(doc.size, m) = doc.size
        BY <1>7, <4>3 DEF Larger, m
      <4>5. QED
        BY <4>2, <4>4 DEF m
    <3>. HIDE DEF f
    <3>3. QED
      BY <1>9, <2>1, <3>1, <3>2
  <2>3. CASE ~ (p = Opened /\ linked)
    <3>1. SourceBytes' = SourceBytes
      <4>1. linked => file'[Opened] = file[Opened]
        BY <1>1, <1>11, <2>3, FileFields, Names
      <4>2. linked' = linked /\ orphan' = orphan
        BY <1>2
      <4>3. CASE linked
        <5>1. file'[Opened] = file[Opened] /\ linked'
          BY <4>1, <4>2, <4>3, Zenon
        <5>2. SourceBytes = file[Opened].now
          BY <4>3 DEF SourceBytes
        <5>3. SourceBytes' = file'[Opened].now
          BY <5>1 DEF SourceBytes
        <5>4. QED
          BY <5>1, <5>2, <5>3
      <4>4. CASE ~ linked
        <5>1. ~ linked'
          BY <4>2, <4>4, Zenon
        <5>2. QED
          BY <4>2, <4>4, <5>1 DEF SourceBytes
      <4>5. QED
        BY <4>3, <4>4
    <3>2. QED
      BY <2>1, <3>1
  <2>4. QED
    BY <2>2, <2>3
<1>14. CacheOk'
  BY <1>1, <1>2, <1>13, CachePatched
<1>15. Typed'
  BY <1>1, <1>2, <1>13 DEF Typed, Inv
<1>16. \A q \in Paths : /\ q # p => file'[q] = file[q]
                        /\ BakOf(q) # p /\ (BakOf(q) \in DOMAIN file => file'[BakOf(q)] = file[BakOf(q)])
  BY <1>1, <1>3, <1>11, Names, FileFields DEF p
<1>17. Whole'
  <2>1. SUFFICES ASSUME NEW q \in Paths
                 PROVE  /\ ~ patching'[q] => file'[q] = NewFile(held'[q])
                        /\ ~ buried'[q] => \A x \in displaced'[q] :
                                             x.now \in {held'[q]} \cup versions'[q]
    BY DEF Whole
  <2>2. /\ ~ patching[q] => file[q] = NewFile(held[q])
        /\ ~ buried[q] => \A x \in displaced[q] : x.now \in {held[q]} \cup versions[q]
    BY <1>1 DEF Whole
  <2>3. ~ patching[q] => file'[q] = file[q]
    BY <1>3, <1>16
  <2>4. QED
    BY <1>2, <2>2, <2>3
<1>18. BackedUp'
  <2>1. SUFFICES ASSUME backup, NEW q \in Paths, tries[q] <= 1
                 PROVE  /\ Same(q)' \/ Kept(q)'
                        /\ tries[q] = 0 => Same(q)' /\ ~ At(q)'
                        /\ At(q)' /\ save'.phase # "Patch" => Same(q)'
                        /\ At(q)' /\ save'.phase \in {"Choose", "Patch"} => Kept(q)'
    BY <1>2 DEF BackedUp
  <2>2. /\ Same(q) \/ Kept(q)
        /\ tries[q] = 0 => Same(q) /\ ~ At(q)
        /\ At(q) /\ save.phase # "Patch" => Same(q)
        /\ At(q) /\ save.phase \in {"Choose", "Patch"} => Kept(q)
    BY <1>1, <2>1 DEF BackedUp
  <2>3. Kept(q) => Kept(q)'
    BY <1>2, <1>11, <1>16 DEF Kept
  <2>4. CASE q = p
    <3>1. At(q) /\ Kept(q)
      BY <1>3, <2>2, <2>4 DEF At, p
    <3>2. At(q)' => save'.phase = "Patch"
      BY DEF At
    <3>3. QED
      BY <2>2, <2>3, <3>1, <3>2
  <2>5. CASE q # p
    <3>1. Same(q)' <=> Same(q)
      BY <1>2, <1>16, <2>5 DEF Same
    <3>2. ~ At(q)'
      BY <2>5 DEF At, p
    <3>3. QED
      BY <2>2, <2>3, <3>1, <3>2
  <2>6. QED
    BY <2>4, <2>5
<1>19. QED
  BY <1>2, <1>6, <1>10, <1>11, <1>12, <1>14, <1>15, <1>17, <1>18 DEF p

\* The ranges a save in place still has to write.
LEMMA FirstRange ==
  ASSUME Running, PatchOk, save.left # <<>>
  PROVE  /\ save.left[1] \in Added(doc.table) /\ Tail(save.left) \in Seq(Added(doc.table))
         /\ RangeBytes(save.left[1]) \in Seq(FCell)
         /\ Len(RangeBytes(save.left[1])) = save.left[1][2] - save.left[1][1]
         /\ save.left[1][1] \in Nat /\ save.left[1][2] \in Nat
         /\ \A i : InRanges(save.left, i) =>
              \/ save.left[1][1] <= i /\ i < save.left[1][2]
              \/ InRanges(Tail(save.left), i)
<1>. DEFINE V == Added(doc.table)
            left == save.left
            r == left[1]
            b == RangeBytes(r)
<1>1. left \in Seq(V) /\ left # <<>>
  BY DEF PatchOk
<1>. HIDE DEF V, left
<1>2. r \in V /\ Tail(left) \in Seq(V)
  BY <1>1
<1>3. ASSUME NEW i, InRanges(left, i) PROVE (r[1] <= i /\ i < r[2]) \/ InRanges(Tail(left), i)
  <2>1. PICK j \in 1 .. Len(left) : left[j][1] <= i /\ i < left[j][2]
    BY <1>3 DEF InRanges
  <2>2. CASE j = 1
    BY <2>1, <2>2
  <2>3. CASE j # 1
    <3>1. j - 1 \in 1 .. Len(Tail(left)) /\ Tail(left)[j - 1] = left[j]
      BY <1>1, <2>1, <2>3
    <3>2. QED
      BY <2>1, <3>1 DEF InRanges
  <2>4. QED
    BY <2>2, <2>3
<1>4. b \in Seq(Cell) /\ Len(b) = r[2] - r[1] /\ r[1] \in Nat /\ r[2] \in Nat
  <2>1. r \in Added(doc.table)
    BY <1>2 DEF V
  <2>. HIDE DEF r
  <2>2. QED
    BY <2>1, SavedDocument, WrittenBytes DEF RangeBytes
<1>5. b \in Seq(FCell)
  <2>1. Cell \subseteq FCell
    BY DEF Cell, Store, FCell
  <2>. HIDE DEF b
  <2>2. QED
    BY <1>4, <2>1, SeqMono
<1>6. QED
  BY <1>2, <1>3, <1>4, <1>5 DEF left, V

\* One dirty range is written.
LEMMA WriteRangeStep == ASSUME Running, WriteRange, UNCHANGED savehistory PROVE Running'
<1>. DEFINE p == save.path
            r == save.left[1]
            b == RangeBytes(r)
            c == Content(doc.table)
            rest == Tail(save.left)
<1>1. Saving
  BY DEF Running
<1>2. /\ save.phase = "Patch" /\ save.left # <<>>
      /\ file' = [file EXCEPT ![p].now = Overlaid(@, r[1], b)]
      /\ save' = [save EXCEPT !.left = rest]
      /\ UNCHANGED cache /\ UNCHANGED Rest
  BY DEF WriteRange
<1>3. PatchOk /\ save # Idle
  BY <1>1, <1>2, Shapes
<1>4. /\ rest \in Seq(Added(doc.table)) /\ b \in Seq(FCell) /\ Len(b) = r[2] - r[1]
      /\ r[1] \in Nat /\ r[2] \in Nat
      /\ \A i : InRanges(save.left, i) => (r[1] <= i /\ i < r[2]) \/ InRanges(rest, i)
  BY <1>2, <1>3, FirstRange
<1>5. /\ save' \in [phase : {"Patch"}, path : Paths, left : Seq(Added(doc.table))]
      /\ save'.phase = "Patch" /\ save'.path = p /\ save'.left = rest
  <2>. DEFINE L == Seq(Added(doc.table))
  <2>1. save \in [phase : {"Patch"}, path : Paths, left : L] /\ rest \in L
    BY <1>3, <1>4 DEF PatchOk
  <2>. HIDE DEF L, rest
  <2>2. QED
    BY <1>2, <2>1 DEF L
<1>6. Len(b) \in Nat /\ r[1] + Len(b) = r[2]
  <2>. HIDE DEF b, r
  <2>1. QED
    BY <1>4
<1>7. /\ FilesTyped' /\ Typed' /\ CacheOk' /\ Whole' /\ BackedUp'
      /\ Wrote(file[p].now, file'[p].now, r[1], Len(b))
      /\ doc' = doc
  <2>1. Len(b) <= Len(b) /\ \A k \in 1 .. Len(b) : b[k] = RangeBytes(r)[k]
    BY <1>6
  <2>2. b \in Seq(FCell) /\ Len(b) <= Len(RangeBytes(save.left[1]))
        /\ \A k \in 1 .. Len(b) : b[k] = RangeBytes(save.left[1])[k]
    BY <1>4, <2>1
  <2>3. /\ file' = [file EXCEPT ![save.path].now = Overlaid(@, save.left[1][1], b)]
        /\ save' = Idle \/ (save'.path = save.path /\ save'.phase = "Patch")
    BY <1>2, <1>5
  <2>. HIDE DEF b
  <2>4. QED
    BY <1>2, <1>3, <2>2, <2>3, PatchWrites
<1>8. /\ CanSaveInPlace(doc.table, doc.size) /\ patching[p]
      /\ \A i \in 1 .. doc.size :
           c[i][1] = "Added" =>
             \/ InRanges(save.left, i - 1)
             \/ i \in 1 .. Len(file[p].now) /\ file[p].now[i] = c[i]
  BY <1>3 DEF PatchOk
<1>9. doc.size \in Nat
  BY SavedDocument
<1>. DEFINE f == file[p].now
            g == file'[p].now
<1>10. ASSUME NEW i \in 1 .. doc.size, c[i][1] = "Added"
       PROVE  InRanges(rest, i - 1) \/ (i \in 1 .. Len(g) /\ g[i] = c[i])
  <2>1. /\ r[1] < i /\ i <= r[1] + Len(b) => i \in 1 .. Len(g) /\ g[i] = c[i]
        /\ i \in 1 .. Len(f) /\ f[i] = c[i] => i \in 1 .. Len(g) /\ g[i] = c[i]
    BY <1>7 DEF Wrote
  <2>2. CASE InRanges(save.left, i - 1)
    <3>1. (r[1] <= i - 1 /\ i - 1 < r[2]) \/ InRanges(rest, i - 1)
      BY <1>4, <2>2
    <3>2. r[1] <= i - 1 /\ i - 1 < r[2] => r[1] < i /\ i <= r[1] + Len(b)
      <4>1. i \in Nat
        BY <1>9
      <4>2. r[1] \in Nat /\ r[2] \in Nat /\ r[1] + Len(b) = r[2]
        BY <1>4, <1>6
      <4>. HIDE DEF b, r
      <4>3. QED
        BY <4>1, <4>2
    <3>. HIDE DEF r, b, g, rest
    <3>3. QED
      BY <2>1, <3>1, <3>2
  <2>3. CASE i \in 1 .. Len(f) /\ f[i] = c[i]
    BY <2>1, <2>3
  <2>4. QED
    BY <1>8, <1>10, <2>2, <2>3
<1>11. PatchOk'
  <2>1. UNCHANGED patching
    BY DEF savehistory
  <2>2. CanSaveInPlace(doc.table, doc.size)' /\ patching'[save'.path]
    BY <1>5, <1>7, <1>8, <2>1
  <2>3. save' \in [phase : {"Patch"}, path : Paths, left : Seq(Added(doc'.table))]
    BY <1>5, <1>7
  <2>4. \A i \in 1 .. doc'.size :
          Content(doc'.table)[i][1] = "Added" =>
            \/ InRanges(save'.left, i - 1)
            \/ /\ i \in 1 .. Len(file'[save'.path].now)
               /\ file'[save'.path].now[i] = Content(doc'.table)[i]
    BY <1>5, <1>7, <1>10
  <2>5. QED
    BY <2>2, <2>3, <2>4 DEF PatchOk
<1>12. QED
  BY <1>7, <1>11 DEF Running, Saving

\* A first part of a sequence.
LEMMA FirstPartOf ==
  ASSUME NEW V, NEW s \in Seq(V), NEW n \in 1 .. Len(s) - 1
  PROVE  /\ SubSeq(s, 1, n) \in Seq(V) /\ Len(SubSeq(s, 1, n)) = n /\ n <= Len(s)
         /\ \A k \in 1 .. n : SubSeq(s, 1, n)[k] = s[k]
OBVIOUS

\* The disk refuses a step of the save.
LEMMA FailStep == ASSUME Running, Fail, UNCHANGED savehistory PROVE Running'
<1>1. FilesTyped /\ Typed /\ CacheOk /\ Saving /\ Whole
  BY DEF Running
<1>2. save # Idle /\ save' = Idle /\ UNCHANGED cache /\ UNCHANGED Rest
  BY DEF Fail
<1>3. UNCHANGED <<cache, doc, panicked, edits, displaced, orphan, linked, bad, tabPath,
                  backup, saves, alive, held, versions, tries, patching, buried>>
  BY <1>2 DEF Rest, savehistory
<1>4. ASSUME UNCHANGED file PROVE FilesTyped' /\ Typed' /\ CacheOk' /\ Whole' /\ BackedUp'
  <2>1. tries' \in [Paths -> Nat] /\ patching' \in [Paths -> BOOLEAN]
    BY <1>1, <1>3 DEF Typed
  <2>2. FilesTyped' /\ Typed' /\ CacheOk'
    BY <1>3, <1>4, <2>1, Quiet
  <2>3. Whole'
    BY <1>1, <1>3, <1>4 DEF Whole
  <2>4. BackedUp'
    BY <1>2, <1>3, <1>4, BackedUpFrame
  <2>5. QED
    BY <2>2, <2>3, <2>4
<1>5. ASSUME save.phase = "Copy",
             NEW n \in 1 .. Len(file[save.path].now) - 1,
             file' = [file EXCEPT ![BakOf(save.path)].now = SubSeq(file[save.path].now, 1, n)]
      PROVE  FilesTyped' /\ Typed' /\ CacheOk' /\ Whole' /\ BackedUp'
  <2>1. PreparingOk
    BY <1>1, <1>2, <1>5, Shapes
  <2>2. save.path \in Paths /\ BakOf(save.path) \in DOMAIN file
    BY <1>5, <2>1 DEF PreparingOk
  <2>3. SubSeq(file[save.path].now, 1, n) \in Seq(FCell)
    <3>1. file[save.path].now \in Seq(FCell)
      BY <1>1, <2>2, FileFields
    <3>2. QED
      BY <3>1, FirstPartOf
  <2>4. /\ file' \in [DOMAIN file' -> File] /\ DOMAIN file' = DOMAIN file
        /\ \A q \in DOMAIN file : q # BakOf(save.path) => file'[q] = file[q]
    BY <1>1, <1>2, <1>5, <2>2, <2>3, BackupFilled
  <2>5. QED
    BY <1>2, <1>5, <2>4, BackupWrites
<1>6. ASSUME save.phase = "Patch", save.left # <<>>,
             NEW n \in 1 .. Len(RangeBytes(save.left[1])) - 1,
             file' = [file EXCEPT ![save.path].now =
                        Overlaid(@, save.left[1][1], SubSeq(RangeBytes(save.left[1]), 1, n))]
      PROVE  FilesTyped' /\ Typed' /\ CacheOk' /\ Whole' /\ BackedUp'
  <2>. DEFINE b == RangeBytes(save.left[1])
              cells == SubSeq(b, 1, n)
  <2>1. PatchOk
    BY <1>1, <1>6, Shapes
  <2>2. b \in Seq(FCell)
    BY <1>6, <2>1, FirstRange
  <2>3. cells \in Seq(FCell) /\ Len(cells) = n /\ n <= Len(b) /\ \A k \in 1 .. n : cells[k] = b[k]
    <3>1. n \in 1 .. Len(b) - 1
      OBVIOUS
    <3>. HIDE DEF b
    <3>2. QED
      BY <2>2, <3>1, FirstPartOf
  <2>4. /\ Len(cells) <= Len(RangeBytes(save.left[1]))
        /\ \A k \in 1 .. Len(cells) : cells[k] = RangeBytes(save.left[1])[k]
        /\ file' = [file EXCEPT ![save.path].now = Overlaid(@, save.left[1][1], cells)]
    BY <1>6, <2>3
  <2>. HIDE DEF cells
  <2>5. QED
    BY <1>2, <1>6, <2>1, <2>3, <2>4, PatchWrites
<1>7. FilesTyped' /\ Typed' /\ CacheOk' /\ Whole' /\ BackedUp'
  <2>1. \/ UNCHANGED file
        \/ /\ save.phase = "Copy"
           /\ \E n \in 1 .. Len(file[save.path].now) - 1 :
                file' = [file EXCEPT ![BakOf(save.path)].now = SubSeq(file[save.path].now, 1, n)]
        \/ /\ save.phase = "Patch" /\ save.left # <<>>
           /\ \E n \in 1 .. Len(RangeBytes(save.left[1])) - 1 :
                file' = [file EXCEPT ![save.path].now =
                           Overlaid(@, save.left[1][1], SubSeq(RangeBytes(save.left[1]), 1, n))]
    BY DEF Fail
  <2>2. QED
    BY <1>4, <1>5, <1>6, <2>1
<1>8. QED
  BY <1>2, <1>7 DEF Running, Saving

-----------------------------------------------------------------------------
(* Success, death and the invariant. *)

\* What a file may be once the machine has stopped.
LEMMA SurvivorsTyped ==
  ASSUME NEW f \in File
  PROVE  /\ Survivors(f) \subseteq File
         /\ \A x \in Survivors(f) : x.now = x.durable
         /\ f.now = f.durable => Survivors(f) = {f}
<1>. DEFINE a == f.now
            d == f.durable
<1>1. f = [now |-> a, durable |-> d] /\ a \in Seq(FCell) /\ d \in Seq(FCell)
  BY DEF File
<1>. HIDE DEF a, d
<1>2. Len(a) \in Nat /\ Len(d) \in Nat
  BY <1>1
<1>3. ASSUME NEW n \in {Len(a), Len(d)}, NEW reached PROVE Torn(f, n, reached) \in Seq(FCell)
  <2>. DEFINE val(k) == IF k <= Len(a) /\ k \in reached THEN a[k]
                        ELSE IF k <= Len(d) THEN d[k] ELSE Hole
  <2>1. f.now = a /\ f.durable = d
    BY DEF a, d
  <2>2. Torn(f, n, reached) = [k \in 1 .. n |-> val(k)]
    BY <2>1 DEF Torn
  <2>3. n \in Nat
    BY <1>2
  <2>4. ASSUME NEW k \in 1 .. n PROVE val(k) \in FCell
    <3>1. k \in Nat /\ k >= 1
      OBVIOUS
    <3>2. CASE k <= Len(a) /\ k \in reached
      <4>1. k \in 1 .. Len(a)
        BY <1>2, <3>1, <3>2
      <4>2. QED
        BY <1>1, <3>2, <4>1
    <3>3. CASE ~ (k <= Len(a) /\ k \in reached) /\ k <= Len(d)
      <4>1. k \in 1 .. Len(d)
        BY <1>2, <3>1, <3>3
      <4>2. d[k] \in FCell
        BY <1>1, <4>1
      <4>3. QED
        BY <3>3, <4>2
    <3>4. CASE ~ (k <= Len(a) /\ k \in reached) /\ ~ (k <= Len(d))
      BY <3>4 DEF Hole, FCell
    <3>5. QED
      BY <3>2, <3>3, <3>4
  <2>. HIDE DEF val
  <2>5. QED
    BY <2>2, <2>3, <2>4
<1>4. CASE a = d
  <2>1. Survivors(f) = {f}
    BY <1>4 DEF Survivors, a, d
  <2>2. QED
    BY <1>4, <2>1 DEF a, d
<1>5. CASE a # d
  <2>1. Survivors(f) = {NewFile(Torn(f, n, reached)) :
                          n \in {Len(a), Len(d)}, reached \in SUBSET (1 .. Len(a))}
    BY <1>5 DEF Survivors, a, d
  <2>2. ASSUME NEW x \in Survivors(f) PROVE x \in File /\ x.now = x.durable
    <3>1. PICK n \in {Len(a), Len(d)}, reached \in SUBSET (1 .. Len(a)) :
            x = NewFile(Torn(f, n, reached))
      BY <2>1
    <3>. DEFINE t == Torn(f, n, reached)
    <3>2. t \in Seq(FCell)
      BY <1>3
    <3>. HIDE DEF t
    <3>3. x = [now |-> t, durable |-> t]
      BY <3>1 DEF t, NewFile
    <3>4. QED
      BY <3>2, <3>3 DEF File
  <2>3. QED
    BY <1>5, <2>2 DEF a, d
<1>6. QED
  BY <1>4, <1>5

\* A save has succeeded: the file at its path is h, on the disk too.
LEMMA Succeeds ==
  ASSUME Running, NEW p \in Paths, NEW h \in File, h = NewFile(h.now),
         file' = [file EXCEPT ![p] = h], doc' = MarkSaved(doc), tabPath' = p, save' = Idle,
         UNCHANGED <<panicked, edits, cache, bad, backup>>,
         SourceBytes' = SourceBytes, linked' \in BOOLEAN, orphan' \in Seq(FCell),
         displaced' \in [Paths -> SUBSET File],
         \A q \in Paths : q # p => displaced'[q] = displaced[q],
         versions' = [versions EXCEPT ![p] = @ \cup {held[p]}],
         held' = [held EXCEPT ![p] = file'[p].now],
         tries' = [tries EXCEPT ![p] = 0],
         patching' = [patching EXCEPT ![p] = FALSE],
         buried' \in [Paths -> BOOLEAN],
         \A q \in Paths : q # p => buried'[q] = buried[q],
         ~ buried'[p] => \A x \in displaced'[p] : x.now \in {held[p]} \cup versions[p]
  PROVE  Running'
<1>1. FilesTyped /\ Typed /\ CacheOk /\ Saving /\ Whole /\ BackedUp
  BY DEF Running
<1>2. /\ DOMAIN file' = DOMAIN file /\ file' = [q \in DOMAIN file |-> file'[q]]
      /\ p \in DOMAIN file /\ file'[p] = h
      /\ \A q \in DOMAIN file : q # p => file'[q] = file[q]
  BY <1>1 DEF FilesTyped
<1>3. FilesTyped'
  <2>1. \A q \in DOMAIN file : file'[q] \in File
    BY <1>1, <1>2, FileFields
  <2>2. Paths \subseteq DOMAIN file
    BY <1>1 DEF FilesTyped
  <2>3. QED
    BY <1>2, <2>1, <2>2 DEF FilesTyped, Paths, Opened, Other
<1>4. h.now \in Seq(FCell)
  BY DEF File
<1>5. /\ held' \in [Paths -> Seq(FCell)] /\ held'[p] = h.now
      /\ \A q \in Paths : q # p => held'[q] = held[q]
  <2>. DEFINE T == Seq(FCell)
              c == h.now
  <2>1. held \in [Paths -> T] /\ c \in T /\ held' = [held EXCEPT ![p] = c]
    BY <1>1, <1>2, <1>4 DEF Typed
  <2>. HIDE DEF T, c
  <2>2. QED
    BY <2>1 DEF T, c
<1>6. /\ versions' \in [Paths -> SUBSET Seq(FCell)]
      /\ versions'[p] = versions[p] \cup {held[p]}
      /\ \A q \in Paths : q # p => versions'[q] = versions[q]
  <2>. DEFINE T == Seq(FCell)
  <2>1. versions \in [Paths -> SUBSET T] /\ held[p] \in T
    BY <1>1 DEF Typed
  <2>. HIDE DEF T
  <2>2. QED
    BY <2>1 DEF T
<1>7. /\ tries' \in [Paths -> Nat] /\ tries'[p] = 0 /\ \A q \in Paths : q # p => tries'[q] = tries[q]
      /\ patching' \in [Paths -> BOOLEAN] /\ patching'[p] = FALSE
      /\ \A q \in Paths : q # p => patching'[q] = patching[q]
  BY <1>1 DEF Typed
<1>8. Inv' /\ doc'.size = doc.size
  <2>1. doc \in GoodDocs
    BY SavedDocument
  <2>2. doc' \in GoodDocs
    BY <2>1, MarkSavedGood
  <2>3. MarkSaved(doc).size = doc.size
    <3>1. doc \in Docs(Piece)
      BY <2>1 DEF GoodDocs
    <3>2. QED
      BY <3>1 DEF MarkSaved, Docs
  <2>4. QED
    BY <1>1, <2>2, <2>3 DEF Typed, Inv
<1>9. Typed'
  <2>1. /\ Len(SourceBytes') = doc'.size /\ tabPath' \in Paths \cup {NoPath}
        /\ backup' \in BOOLEAN
    BY <1>1, <1>8 DEF Typed
  <2>2. Paths' = Paths /\ File' = File
    BY DEF Paths, Opened, Other, File, FCell
  <2>3. QED
    BY <1>5, <1>6, <1>7, <1>8, <2>1, <2>2 DEF Typed
<1>10. CacheOk'
  BY <1>1, <1>8, CachePatched
<1>11. Whole'
  <2>1. SUFFICES ASSUME NEW q \in Paths
                 PROVE  /\ ~ patching'[q] => file'[q] = NewFile(held'[q])
                        /\ ~ buried'[q] => \A x \in displaced'[q] :
                                             x.now \in {held'[q]} \cup versions'[q]
    BY DEF Whole
  <2>2. CASE q = p
    BY <1>2, <1>5, <1>6, <2>2
  <2>3. CASE q # p
    <3>1. /\ ~ patching[q] => file[q] = NewFile(held[q])
          /\ ~ buried[q] => \A x \in displaced[q] : x.now \in {held[q]} \cup versions[q]
      BY <1>1 DEF Whole
    <3>2. q \in DOMAIN file
      BY <1>1 DEF FilesTyped
    <3>3. QED
      BY <1>2, <1>5, <1>6, <1>7, <2>3, <3>1, <3>2
  <2>4. QED
    BY <2>2, <2>3
<1>12. BackedUp'
  <2>1. SUFFICES ASSUME backup, NEW q \in Paths, tries'[q] <= 1
                 PROVE  /\ Same(q)' \/ Kept(q)'
                        /\ tries'[q] = 0 => Same(q)' /\ ~ At(q)'
                        /\ At(q)' /\ save'.phase # "Patch" => Same(q)'
                        /\ At(q)' /\ save'.phase \in {"Choose", "Patch"} => Kept(q)'
    BY DEF BackedUp
  <2>2. ~ At(q)'
    BY DEF At
  <2>3. CASE q = p
    <3>1. Same(q)'
      BY <1>2, <1>5, <2>3 DEF Same
    <3>2. QED
      BY <2>2, <3>1
  <2>4. CASE q # p
    <3>1. /\ Same(q) \/ Kept(q)
          /\ tries[q] = 0 => Same(q)
      BY <1>1, <1>7, <2>1, <2>4 DEF BackedUp
    <3>2. q \in DOMAIN file /\ file'[q] = file[q] /\ held'[q] = held[q]
      BY <1>1, <1>2, <1>5, <2>4 DEF FilesTyped
    <3>3. Same(q)' <=> Same(q)
      BY <3>2 DEF Same
    <3>4. Kept(q) => Kept(q)'
      <4>1. BakOf(q) # p
        BY Names
      <4>2. QED
        BY <1>2, <3>2, <4>1 DEF Kept
    <3>5. QED
      BY <1>7, <2>2, <2>4, <3>1, <3>3, <3>4
  <2>5. QED
    BY <2>3, <2>4
<1>13. QED
  BY <1>3, <1>9, <1>10, <1>11, <1>12 DEF Running, Saving

\* What the history of saved versions notes of a success.
LEMMA SuccessNotes ==
  ASSUME SSucceed
  PROVE  /\ save # Idle /\ (SyncPatched \/ Rename)
         /\ versions' = [versions EXCEPT ![save.path] = @ \cup {held[save.path]}]
         /\ held' = [held EXCEPT ![save.path] = file'[save.path].now]
         /\ tries' = [tries EXCEPT ![save.path] = 0]
         /\ patching' = [patching EXCEPT ![save.path] = FALSE]
         /\ buried' = [buried EXCEPT ![save.path] =
                         @ \/ (patching[save.path] /\ save.phase = "Rename")]
BY DEF SSucceed, Succeed

\* The files a lost rename would bring back, after a success.
LEMMA BuriedAfter ==
  ASSUME Running, save.path \in Paths,
         buried' = [buried EXCEPT ![save.path] =
                      @ \/ (patching[save.path] /\ save.phase = "Rename")]
  PROVE  /\ buried' \in [Paths -> BOOLEAN]
         /\ \A q \in Paths : q # save.path => buried'[q] = buried[q]
         /\ ~ buried'[save.path] =>
              ~ buried[save.path] /\ (save.phase = "Rename" => ~ patching[save.path])
<1>1. buried \in [Paths -> BOOLEAN] /\ patching \in [Paths -> BOOLEAN]
  BY DEF Running, Typed
<1>. DEFINE v == buried[save.path] \/ (patching[save.path] /\ save.phase = "Rename")
<1>2. v \in BOOLEAN /\ buried' = [buried EXCEPT ![save.path] = v]
  OBVIOUS
<1>3. v = FALSE => ~ buried[save.path] /\ (save.phase = "Rename" => ~ patching[save.path])
  OBVIOUS
<1>. HIDE DEF v
<1>4. buried' \in [Paths -> BOOLEAN] /\ buried'[save.path] = v
      /\ \A q \in Paths : q # save.path => buried'[q] = buried[q]
  BY <1>1, <1>2
<1>5. QED
  BY <1>2, <1>3, <1>4

\* A save in place ends with a sync.
LEMMA SyncPatchedStep == ASSUME Running, SSucceed, SyncPatched PROVE Running'
<1>. DEFINE p == save.path
            c == file[p].now
            h == NewFile(c)
<1>1. FilesTyped /\ Typed /\ Saving /\ Whole
  BY DEF Running
<1>2. /\ save.phase = "Patch"
      /\ file' = [file EXCEPT ![p].durable = c]
      /\ doc' = MarkSaved(doc) /\ tabPath' = p /\ save' = Idle
      /\ UNCHANGED <<panicked, edits, cache, displaced, orphan, linked, bad, backup, saves, alive>>
  BY DEF SyncPatched, Saved
<1>3. p \in Paths /\ p \in DOMAIN file /\ c \in Seq(FCell) /\ file[p] \in File
  BY <1>1, <1>2, Shapes, FileFields DEF PatchOk
<1>4. h \in File /\ h.now = c /\ [file[p] EXCEPT !.durable = c] = h
  <2>. HIDE DEF c
  <2>1. h \in File /\ h.now = c
    BY <1>3 DEF File, NewFile
  <2>2. [file[p] EXCEPT !.durable = c] = [now |-> file[p].now, durable |-> c]
    <3>. DEFINE f == file[p]
                T == Seq(FCell)
    <3>1. f \in [now : T, durable : T]
      BY <1>3 DEF File
    <3>. HIDE DEF f, T
    <3>2. [f EXCEPT !.durable = c] = [now |-> f.now, durable |-> c]
      BY <3>1
    <3>3. QED
      BY <3>2 DEF f
  <2>3. QED
    BY <2>1, <2>2 DEF NewFile, c
<1>5. file' = [file EXCEPT ![p] = h]
  <2>1. file' = [file EXCEPT ![p] = [file[p] EXCEPT !.durable = c]]
    BY <1>2
  <2>. HIDE DEF h
  <2>2. QED
    BY <1>4, <2>1
<1>. HIDE DEF h, c
<1>6. SourceBytes' = SourceBytes
  <2>1. linked' = linked /\ orphan' = orphan
    BY <1>2
  <2>2. file'[Opened].now = file[Opened].now
    <3>1. Opened \in DOMAIN file
      BY <1>1, Names, FileFields
    <3>2. CASE p = Opened
      BY <1>3, <1>4, <1>5, <3>1, <3>2 DEF c
    <3>3. CASE p # Opened
      BY <1>5, <3>1, <3>3
    <3>4. QED
      BY <3>2, <3>3
  <2>3. QED
    BY <2>1, <2>2 DEF SourceBytes
<1>7. /\ versions' = [versions EXCEPT ![p] = @ \cup {held[p]}]
      /\ held' = [held EXCEPT ![p] = file'[p].now]
      /\ tries' = [tries EXCEPT ![p] = 0]
      /\ patching' = [patching EXCEPT ![p] = FALSE]
      /\ buried' = [buried EXCEPT ![p] = @ \/ (patching[p] /\ save.phase = "Rename")]
  BY SuccessNotes
<1>8. /\ buried' \in [Paths -> BOOLEAN]
      /\ \A q \in Paths : q # p => buried'[q] = buried[q]
      /\ ~ buried'[p] => ~ buried[p]
  BY <1>3, <1>7, BuriedAfter
<1>9. ~ buried'[p] => \A x \in displaced'[p] : x.now \in {held[p]} \cup versions[p]
  BY <1>1, <1>2, <1>3, <1>8 DEF Whole
<1>10. /\ linked' \in BOOLEAN /\ orphan' \in Seq(FCell) /\ displaced' \in [Paths -> SUBSET File]
       /\ \A q \in Paths : q # p => displaced'[q] = displaced[q]
  BY <1>1, <1>2 DEF Typed
<1>11. h = NewFile(h.now)
  BY <1>4 DEF h
<1>. HIDE DEF p
<1>12. QED
  BY <1>2, <1>3, <1>4, <1>5, <1>6, <1>7, <1>8, <1>9, <1>10, <1>11, Succeeds

\* A save that streamed ends with a rename.
LEMMA RenameStep == ASSUME Running, SSucceed, Rename PROVE Running'
<1>. DEFINE p == save.path
            h == save.tmp
<1>1. FilesTyped /\ Typed /\ Saving /\ Whole
  BY DEF Running
<1>2. /\ save.phase = "Rename"
      /\ file' = [file EXCEPT ![p] = h]
      /\ displaced' = [displaced EXCEPT ![p] = @ \cup Survivors(file[p])]
      /\ orphan' = IF p = Opened /\ linked THEN file[Opened].now ELSE orphan
      /\ linked' = (linked /\ p # Opened)
      /\ doc' = MarkSaved(doc) /\ tabPath' = p /\ save' = Idle
      /\ UNCHANGED <<panicked, edits, cache, bad, backup, saves, alive>>
  BY DEF Rename, Saved
<1>3. p \in Paths /\ h \in File /\ h.durable = h.now
  BY <1>1, <1>2, Shapes DEF RenameOk
<1>4. h = NewFile(h.now)
  <2>1. h = [now |-> h.now, durable |-> h.durable]
    <3>. HIDE DEF h
    <3>1. QED
      BY <1>3 DEF File
  <2>2. QED
    BY <1>3, <2>1 DEF NewFile
<1>. HIDE DEF h, p
<1>5. p \in DOMAIN file /\ Opened \in DOMAIN file /\ file[p] \in File /\ file[Opened].now \in Seq(FCell)
  BY <1>1, <1>3, Names, FileFields
<1>6. linked \in BOOLEAN /\ orphan \in Seq(FCell)
  BY <1>1 DEF Typed
<1>7. linked' \in BOOLEAN /\ orphan' \in Seq(FCell) /\ SourceBytes' = SourceBytes
  <2>1. CASE p = Opened /\ linked
    <3>1. ~ linked' /\ orphan' = file[Opened].now /\ linked' \in BOOLEAN
      BY <1>2, <2>1
    <3>2. SourceBytes = file[Opened].now
      BY <2>1 DEF SourceBytes
    <3>3. SourceBytes' = orphan'
      BY <3>1 DEF SourceBytes
    <3>4. QED
      BY <1>5, <3>1, <3>2, <3>3
  <2>2. CASE p # Opened /\ linked
    <3>1. linked' = TRUE /\ orphan' = orphan /\ file'[Opened] = file[Opened]
      BY <1>2, <1>5, <2>2
    <3>2. SourceBytes = file[Opened].now
      BY <2>2 DEF SourceBytes
    <3>3. SourceBytes' = file'[Opened].now
      BY <3>1 DEF SourceBytes
    <3>4. QED
      BY <1>6, <3>1, <3>2, <3>3
  <2>3. CASE ~ linked
    <3>1. linked' = FALSE /\ orphan' = orphan
      BY <1>2, <2>3
    <3>2. SourceBytes = orphan
      BY <2>3 DEF SourceBytes
    <3>3. SourceBytes' = orphan'
      BY <3>1 DEF SourceBytes
    <3>4. QED
      BY <1>6, <3>1, <3>2, <3>3
  <2>4. QED
    BY <2>1, <2>2, <2>3
<1>8. /\ versions' = [versions EXCEPT ![p] = @ \cup {held[p]}]
      /\ held' = [held EXCEPT ![p] = file'[p].now]
      /\ tries' = [tries EXCEPT ![p] = 0]
      /\ patching' = [patching EXCEPT ![p] = FALSE]
      /\ buried' = [buried EXCEPT ![p] = @ \/ (patching[p] /\ save.phase = "Rename")]
  BY SuccessNotes DEF p
<1>9. /\ buried' \in [Paths -> BOOLEAN]
      /\ \A q \in Paths : q # p => buried'[q] = buried[q]
      /\ ~ buried'[p] => ~ buried[p] /\ ~ patching[p]
  <2>1. save.path \in Paths
           /\ buried' = [buried EXCEPT ![save.path] =
                           @ \/ (patching[save.path] /\ save.phase = "Rename")]
    BY <1>3, <1>8 DEF p
  <2>2. QED
    BY <1>2, <2>1, BuriedAfter DEF p
<1>10. /\ displaced' \in [Paths -> SUBSET File]
       /\ displaced'[p] = displaced[p] \cup Survivors(file[p])
       /\ \A q \in Paths : q # p => displaced'[q] = displaced[q]
  <2>1. displaced \in [Paths -> SUBSET File] /\ Survivors(file[p]) \subseteq File
    BY <1>1, <1>5, SurvivorsTyped DEF Typed
  <2>2. QED
    BY <1>2, <1>3, <2>1
<1>11. ~ buried'[p] => \A x \in displaced'[p] : x.now \in {held[p]} \cup versions[p]
  <2>1. SUFFICES ASSUME ~ buried'[p], NEW x \in displaced'[p]
                 PROVE  x.now \in {held[p]} \cup versions[p]
    OBVIOUS
  <2>2. ~ buried[p] /\ file[p] = NewFile(held[p])
    BY <1>1, <1>3, <1>9, <2>1 DEF Whole
  <2>3. CASE x \in displaced[p]
    BY <1>1, <1>3, <2>2, <2>3 DEF Whole
  <2>4. CASE x \in Survivors(file[p])
    <3>1. file[p].now = held[p] /\ file[p].durable = held[p]
      BY <2>2 DEF NewFile
    <3>2. x = file[p]
      BY <1>5, <2>4, <3>1, SurvivorsTyped
    <3>3. QED
      BY <3>1, <3>2
  <2>5. QED
    BY <1>10, <2>1, <2>3, <2>4
<1>12. QED
  BY <1>2, <1>3, <1>4, <1>7, <1>8, <1>9, <1>10, <1>11, Succeeds

\* The empty cache.
LEMMA EmptyCoherent == Coherent(EmptyCache) /\ DOMAIN EmptyCache.blocks = {}
<1>. DEFINE e == [blocks |-> <<>>, order |-> <<>>]
<1>1. /\ e.order = <<>> /\ e.order \in Seq(Nat) /\ Len(e.order) = 0 /\ DOMAIN e.blocks = {}
      /\ e = [blocks |-> e.blocks, order |-> e.order]
  OBVIOUS
<1>. HIDE DEF e
<1>2. Coherent(e)
  <2>1. Distinct(e.order)
    BY <1>1 DEF Distinct
  <2>2. Cells(e.order) = {}
    BY <1>1 DEF Cells
  <2>3. Len(e.order) <= Capacity
    BY <1>1, CacheAssumption
  <2>4. QED
    BY <1>1, <2>1, <2>2, <2>3 DEF Coherent
<1>3. EmptyCache = e
  BY DEF EmptyCache, e
<1>4. QED
  BY <1>1, <1>2, <1>3

\* What holds whatever happens, from what holds while the editor runs.
LEMMA RunningSuffices ==
  ASSUME Running, alive = "running"
  PROVE  CacheOk /\ FilesTyped /\ RewriteIsAtomic /\ BackupKeepsThePrevious
<1>1. RewriteIsAtomic
  <2>1. SUFFICES ASSUME NEW p \in Paths, ~ patching[p] PROVE file[p].now = held[p]
    BY DEF RewriteIsAtomic
  <2>2. file[p] = NewFile(held[p])
    BY <2>1 DEF Running, Whole
  <2>3. QED
    BY <2>2 DEF NewFile
<1>2. BackupKeepsThePrevious
  BY DEF BackupKeepsThePrevious, Running, BackedUp, Same, Kept
<1>3. QED
  BY <1>1, <1>2 DEF Running

\* The process dies.
LEMMA CrashStep ==
  ASSUME Running, Crash, UNCHANGED savehistory
  PROVE  /\ FilesTyped' /\ CacheOk' /\ RewriteIsAtomic' /\ BackupKeepsThePrevious'
         /\ alive' # "running"
<1>1. /\ alive' = "crashed" /\ cache' = EmptyCache
      /\ UNCHANGED <<file, backup, held, versions, tries, patching, buried>>
  BY DEF Crash, Die, savehistory
<1>2. FilesTyped'
  BY <1>1 DEF Running, FilesTyped
<1>3. CacheOk'
  BY <1>1, EmptyCoherent DEF CacheOk
<1>4. RewriteIsAtomic'
  <2>1. SUFFICES ASSUME NEW p \in Paths, ~ patching[p] PROVE file[p].now = held[p]
    BY <1>1 DEF RewriteIsAtomic
  <2>2. file[p] = NewFile(held[p])
    BY <2>1 DEF Running, Whole
  <2>3. QED
    BY <2>2 DEF NewFile
<1>5. BackupKeepsThePrevious'
  BY <1>1 DEF BackupKeepsThePrevious, Running, BackedUp, Same, Kept
<1>6. QED
  BY <1>1, <1>2, <1>3, <1>4, <1>5

\* The machine stops.
LEMMA PowerCutStep ==
  ASSUME Running, PowerCut, UNCHANGED savehistory
  PROVE  /\ FilesTyped' /\ CacheOk' /\ RewriteIsAtomic' /\ BackupKeepsThePrevious'
         /\ alive' # "running"
<1>1. FilesTyped /\ Typed /\ Whole
  BY DEF Running
<1>2. /\ alive' = "cut" /\ cache' = EmptyCache
      /\ UNCHANGED <<held, versions, patching, buried>>
  BY DEF PowerCut, Die, savehistory
<1>3. PICK opened \in AfterCut(Opened), other \in AfterCut(Other) :
        file' = [p \in Paths |-> IF p = Opened THEN opened ELSE other]
  BY DEF PowerCut
<1>4. \A p \in Paths : p \in DOMAIN file' /\ file'[p] \in AfterCut(p)
  BY <1>3, Names DEF Opened, Other
<1>5. ASSUME NEW p \in Paths PROVE AfterCut(p) \subseteq File /\ file[p] \in File
  <2>1. file[p] \in File /\ displaced[p] \subseteq File
    BY <1>1, FileFields DEF Typed
  <2>2. QED
    BY <2>1, SurvivorsTyped DEF AfterCut
<1>6. FilesTyped'
  <2>1. DOMAIN file' = Paths /\ file' = [p \in Paths |-> file'[p]]
    BY <1>3
  <2>2. \A p \in Paths : file'[p] \in File
    BY <1>4, <1>5
  <2>3. QED
    BY <2>1, <2>2 DEF FilesTyped, Paths, Opened, Other
<1>7. CacheOk'
  BY <1>2, EmptyCoherent DEF CacheOk
<1>8. RewriteIsAtomic'
  <2>1. SUFFICES ASSUME NEW p \in Paths, ~ patching[p], ~ buried[p]
                 PROVE  file'[p].now \in {held[p]} \cup versions[p]
    BY <1>2 DEF RewriteIsAtomic
  <2>2. /\ file[p] = NewFile(held[p])
        /\ \A x \in displaced[p] : x.now \in {held[p]} \cup versions[p]
    BY <1>1, <2>1 DEF Whole
  <2>3. file[p].now = held[p] /\ file[p].durable = held[p]
    BY <2>2 DEF NewFile
  <2>4. Survivors(file[p]) = {file[p]}
    BY <1>5, <2>3, SurvivorsTyped
  <2>5. file'[p] = file[p] \/ file'[p] \in displaced[p]
    BY <1>4, <2>4 DEF AfterCut
  <2>6. QED
    BY <2>2, <2>3, <2>5
<1>9. BackupKeepsThePrevious'
  BY <1>2 DEF BackupKeepsThePrevious
<1>10. QED
  BY <1>2, <1>6, <1>7, <1>8, <1>9

\* A running editor.
LEMMA StepKeeps ==
  ASSUME Running, ~ panicked, SBegin \/ SChoose \/ SSucceed \/ SOther
  PROVE  \/ Running' /\ alive' = alive
         \/ /\ FilesTyped' /\ CacheOk' /\ RewriteIsAtomic' /\ BackupKeepsThePrevious'
            /\ alive' # "running"
<1>1. CASE SBegin
  <2>1. alive' = alive
    BY <1>1 DEF SBegin, Begin, Save1, SaveAs, BeginSave
  <2>2. QED
    BY <1>1, <2>1, BeginStep
<1>2. CASE SChoose
  <2>1. alive' = alive
    BY <1>2 DEF SChoose, Choose, Rest
  <2>2. QED
    BY <1>2, <2>1, ChooseStep
<1>3. CASE SSucceed
  <2>1. SyncPatched \/ Rename
    BY <1>3 DEF SSucceed, Succeed
  <2>2. alive' = alive
    BY <2>1 DEF SyncPatched, Rename
  <2>3. QED
    BY <1>3, <2>1, <2>2, SyncPatchedStep, RenameStep
<1>4. CASE UserStep /\ UNCHANGED savehistory
  <2>1. alive' = alive
    BY <1>4 DEF UserStep, fsvars
  <2>2. QED
    BY <1>4, <2>1, UserStepKeeps
<1>5. CASE ReadBlock /\ UNCHANGED savehistory
  <2>1. alive' = alive
    BY <1>5 DEF ReadBlock
  <2>2. QED
    BY <1>5, <2>1, ReadStep
<1>6. CASE Work /\ UNCHANGED savehistory
  <2>1. save # Idle
    BY <1>6 DEF Work
  <2>2. CASE CreateBackup
    BY <1>6, <2>1, <2>2, CreateBackupStep DEF CreateBackup, Rest
  <2>3. CASE CopyBackup
    BY <1>6, <2>1, <2>3, CopyBackupStep DEF CopyBackup, Rest
  <2>4. CASE WriteRange
    BY <1>6, <2>4, WriteRangeStep DEF WriteRange, Rest
  <2>5. CASE StreamPart
    BY <1>6, <2>5, StreamStep DEF StreamPart, Rest
  <2>6. CASE Refuse
    BY <1>6, <2>6, RefuseStep DEF Refuse, Rest
  <2>7. CASE SyncTemporary
    BY <1>6, <2>7, SyncTemporaryStep DEF SyncTemporary, Rest
  <2>8. QED
    BY <1>6, <2>2, <2>3, <2>4, <2>5, <2>6, <2>7 DEF Work
<1>7. CASE Fail /\ UNCHANGED savehistory
  BY <1>7, FailStep DEF Fail, Rest
<1>8. CASE Crash /\ UNCHANGED savehistory
  BY <1>8, CrashStep
<1>9. CASE PowerCut /\ UNCHANGED savehistory
  BY <1>9, PowerCutStep
<1>10. QED
  BY <1>1, <1>2, <1>3, <1>4, <1>5, <1>6, <1>7, <1>8, <1>9 DEF SOther

\* The inductive invariant: what the stopped states keep, and Running before.
SInv ==
  /\ FilesTyped /\ CacheOk
  /\ RewriteIsAtomic /\ BackupKeepsThePrevious
  /\ alive = "running" => Running

\* What a document with no edits holds.
LEMMA NewContent ==
  ASSUME NEW size \in Nat
  PROVE  /\ Content(NewTable(size)) \in Seq(FCell)
         /\ Len(Content(NewTable(size))) = size
<1>. DEFINE t == NewTable(size)
<1>1. CASE size > 0
  <2>. DEFINE p == [store |-> "Original", offset |-> 0, len |-> size]
  <2>1. p \in Piece /\ t = <<p>>
    BY <1>1 DEF Piece, Store, NewTable
  <2>2. p.len = size
    OBVIOUS
  <2>. HIDE DEF p, t
  <2>3. Content(t) = Bytes(p) /\ Bytes(p) \in Seq(Cell) /\ Len(Bytes(p)) = size
    BY <2>1, <2>2, ContentOfOne, BytesType
  <2>4. Cell \subseteq FCell
    BY DEF Cell, Store, FCell
  <2>. DEFINE b == Bytes(p)
  <2>. HIDE DEF b
  <2>5. b \in Seq(FCell)
    BY <2>3, <2>4, SeqMono DEF b
  <2>6. QED
    BY <2>3, <2>5 DEF b, t
<1>2. CASE ~ (size > 0)
  <2>1. size = 0 /\ t = <<>>
    BY <1>2 DEF NewTable
  <2>2. Content(t) = <<>>
    BY <2>1, ContentOfNone
  <2>. HIDE DEF t
  <2>3. <<>> \in Seq(FCell) /\ Len(<<>>) = 0
    OBVIOUS
  <2>4. QED
    BY <2>1, <2>2, <2>3 DEF t
<1>3. QED
  BY <1>1, <1>2

\* A document is opened.
LEMMA InitStep == SInit => SInv
<1>1. SUFFICES ASSUME SInit PROVE SInv
  OBVIOUS
<1>. DEFINE c == Content(doc.table)
            foreign == <<<<"Foreign", 0>>>>
<1>2. /\ Init /\ cache = EmptyCache
      /\ file = [p \in Paths |-> NewFile(IF p = tabPath THEN c ELSE foreign)]
      /\ displaced = [p \in Paths |-> {}]
      /\ linked = (tabPath = Opened) /\ orphan = IF linked THEN <<>> ELSE c
      /\ tabPath \in TabPaths /\ backup \in Backups /\ save = Idle /\ alive = "running"
      /\ held = [p \in Paths |-> file[p].now] /\ versions = [p \in Paths |-> {}]
      /\ tries = [p \in Paths |-> 0] /\ patching = [p \in Paths |-> FALSE]
      /\ buried = [p \in Paths |-> FALSE]
  BY <1>1 DEF SInit, FInit
<1>3. PICK size \in SourceSizes, resizable \in BOOLEAN : doc = NewDocument(size, resizable)
  BY <1>2 DEF Init
<1>4. size \in Nat /\ doc.size = size /\ doc.table = NewTable(size)
  BY <1>3, BoundsAssumption DEF NewDocument
<1>5. c \in Seq(FCell) /\ Len(c) = size
  BY <1>4, NewContent
<1>6. foreign \in Seq(FCell)
  <2>1. <<"Foreign", 0>> \in FCell
    BY DEF FCell
  <2>. DEFINE x == <<"Foreign", 0>>
  <2>. HIDE DEF x
  <2>2. <<x>> \in Seq(FCell)
    BY <2>1 DEF x
  <2>3. QED
    BY <2>2 DEF x
<1>. HIDE DEF c, foreign
<1>7. \A x \in Seq(FCell) : NewFile(x) \in File /\ NewFile(x).now = x
  BY DEF NewFile, File
<1>. DEFINE first(p) == IF p = tabPath THEN c ELSE foreign
<1>8. \A p \in Paths : first(p) \in Seq(FCell)
  BY <1>5, <1>6
<1>. HIDE DEF first
<1>9. /\ DOMAIN file = Paths /\ file = [p \in Paths |-> file[p]]
      /\ \A p \in Paths : file[p] = NewFile(first(p)) /\ file[p].now = first(p) /\ file[p] \in File
  BY <1>2, <1>7, <1>8 DEF first
<1>10. FilesTyped
  BY <1>9 DEF FilesTyped
<1>11. \A p \in Paths : held[p] = first(p) /\ file[p] = NewFile(held[p])
  BY <1>2, <1>9
<1>12. CacheOk
  BY <1>2, EmptyCoherent DEF CacheOk
<1>13. Typed
  <2>1. Inv
    BY <1>2, InitInv
  <2>2. SourceBytes = IF linked THEN file[Opened].now ELSE orphan
    BY DEF SourceBytes
  <2>3. SourceBytes = c
    BY <1>2, <1>9, <2>2, Names DEF first
  <2>4. Len(SourceBytes) = doc.size
    BY <1>4, <1>5, <2>3
  <2>5. held \in [Paths -> Seq(FCell)]
    BY <1>2, <1>8, <1>9
  <2>6. tabPath \in Paths \cup {NoPath} /\ linked \in BOOLEAN /\ backup \in BOOLEAN
    BY <1>2, Names, FilesAssumption
  <2>7. orphan \in Seq(FCell)
    <3>1. <<>> \in Seq(FCell)
      OBVIOUS
    <3>2. QED
      BY <1>2, <1>5, <3>1
  <2>8. /\ displaced \in [Paths -> SUBSET File] /\ versions \in [Paths -> SUBSET Seq(FCell)]
        /\ tries \in [Paths -> Nat] /\ patching \in [Paths -> BOOLEAN]
        /\ buried \in [Paths -> BOOLEAN]
    BY <1>2
  <2>9. QED
    BY <2>1, <2>4, <2>5, <2>6, <2>7, <2>8 DEF Typed
<1>14. Whole
  BY <1>2, <1>11 DEF Whole
<1>15. BackedUp
  <2>1. \A p \in Paths : Same(p) /\ ~ At(p) /\ tries[p] = 0
    BY <1>2, <1>9, <1>11 DEF Same, At
  <2>2. QED
    BY <2>1 DEF BackedUp
<1>16. Running
  BY <1>2, <1>10, <1>12, <1>13, <1>14, <1>15 DEF Running, Saving
<1>17. QED
  BY <1>2, <1>16, RunningSuffices DEF SInv

\* Every step of a session keeps the invariant.
LEMMA NextStep == SInv /\ [SNext]_svars => SInv'
<1>1. SUFFICES ASSUME SInv, [SNext]_svars PROVE SInv'
  OBVIOUS
<1>2. CASE SNext
  <2>1. alive = "running" /\ ~ panicked /\ (SBegin \/ SChoose \/ SSucceed \/ SOther)
    BY <1>2 DEF SNext
  <2>2. Running
    BY <1>1, <2>1 DEF SInv
  <2>3. CASE Running' /\ alive' = alive
    <3>1. RewriteIsAtomic'
      <4>1. SUFFICES ASSUME NEW p \in Paths, ~ patching'[p] PROVE file'[p].now = held'[p]
        BY <2>1, <2>3 DEF RewriteIsAtomic
      <4>2. file'[p] = NewFile(held'[p])
        BY <2>3, <4>1 DEF Running, Whole
      <4>3. QED
        BY <4>2 DEF NewFile
    <3>2. BackupKeepsThePrevious'
      BY <2>3 DEF BackupKeepsThePrevious, Running, BackedUp, Same, Kept
    <3>3. QED
      BY <2>3, <3>1, <3>2 DEF SInv, Running
  <2>4. CASE /\ FilesTyped' /\ CacheOk' /\ RewriteIsAtomic' /\ BackupKeepsThePrevious'
             /\ alive' # "running"
    BY <2>4 DEF SInv
  <2>5. QED
    BY <2>1, <2>2, <2>3, <2>4, StepKeeps
<1>3. CASE UNCHANGED svars
  <2>1. UNCHANGED <<doc, panicked, edits, cache, file, displaced, orphan, linked, bad, tabPath,
                    backup, save, saves, alive, held, versions, tries, patching, buried>>
    BY <1>3 DEF svars, docvars, fsvars, savehistory
  <2>2. FilesTyped'
    BY <1>1, <2>1 DEF SInv, FilesTyped
  <2>3. SourceBytes' = SourceBytes
    BY <2>1 DEF SourceBytes
  <2>4. Overwritten' = Overwritten
    BY <2>1, <2>3 DEF Overwritten
  <2>5. CacheOk'
    <3>1. ASSUME NEW i, NEW a, TrueAnswer(i, a) PROVE TrueAnswer(i, a)'
      BY <2>1, <2>3, <2>4, <3>1 DEF TrueAnswer, BlockLen, BlockStart
    <3>2. QED
      BY <1>1, <2>1, <3>1 DEF SInv, CacheOk
  <2>6. RewriteIsAtomic' /\ BackupKeepsThePrevious'
    BY <1>1, <2>1 DEF SInv, RewriteIsAtomic, BackupKeepsThePrevious
  <2>7. ASSUME Running PROVE Running'
    <3>1. tries' \in [Paths -> Nat] /\ patching' \in [Paths -> BOOLEAN]
      BY <2>1, <2>7 DEF Running, Typed
    <3>2. FilesTyped' /\ Typed' /\ (Untouched <=> Untouched')
      BY <2>1, <2>7, <3>1, Quiet
    <3>3. Whole'
      BY <2>1, <2>7 DEF Running, Whole
    <3>4. BackedUp'
      BY <2>1, <2>7 DEF Running, BackedUp, Same, Kept, At
    <3>5. Saving'
      <4>1. PreparingOk' <=> PreparingOk
        BY <2>1 DEF PreparingOk
      <4>2. PatchOk' <=> PatchOk
        BY <2>1 DEF PatchOk
      <4>3. StreamOk' <=> StreamOk
        BY <2>1, <2>4 DEF StreamOk, Untouched
      <4>4. RenameOk' <=> RenameOk
        BY <2>1, <2>4 DEF RenameOk, Untouched
      <4>5. QED
        BY <2>1, <2>7, <4>1, <4>2, <4>3, <4>4 DEF Running, Saving
    <3>6. QED
      BY <2>5, <3>2, <3>3, <3>4, <3>5 DEF Running
  <2>8. QED
    BY <1>1, <2>1, <2>2, <2>5, <2>6, <2>7 DEF SInv
<1>4. QED
  BY <1>1, <1>2, <1>3

\* The inductive invariant holds throughout.
THEOREM SavingInvariant == SSpec => []SInv
BY InitStep, NextStep, PTL DEF SSpec

\* No file holds a zero that stands for an unreadable byte.
LEMMA NoZeros == FilesTyped => UnreadableNeverSaved
<1>1. SUFFICES ASSUME FilesTyped, NEW p \in DOMAIN file, Zero \in Cells(file[p].now) PROVE FALSE
  BY DEF UnreadableNeverSaved
<1>2. file[p].now \in Seq(FCell)
  BY <1>1, FileFields
<1>. DEFINE c == file[p].now
<1>3. PICK k \in 1 .. Len(c) : c[k] = Zero
  BY <1>1 DEF Cells
<1>. HIDE DEF c
<1>4. c[k] \in FCell
  BY <1>2, <1>3 DEF c
<1>5. QED
  BY <1>3, <1>4 DEF Zero, FCell

\* The zeros that stand in for unreadable bytes reach no file, whatever is saved,
\* refused, killed or cut (document/io.rs:96-98).
THEOREM ZerosNeverSaved == SSpec => []UnreadableNeverSaved
<1>1. SInv => UnreadableNeverSaved
  BY NoZeros DEF SInv
<1>2. QED
  BY <1>1, SavingInvariant, PTL

\* Without a save in place, a file holds a saved version at every moment, also
\* after a crash or a power cut in the middle of a save (document/io.rs:92-94).
THEOREM RewritesAtomic == SSpec => []RewriteIsAtomic
<1>1. SInv => RewriteIsAtomic
  BY DEF SInv
<1>2. QED
  BY <1>1, SavingInvariant, PTL

\* With backups on, the first save that goes wrong leaves the version before it in
\* the file or in its backup (document/io.rs:201-203).
THEOREM BackupsKeep == SSpec => []BackupKeepsThePrevious
<1>1. SInv => BackupKeepsThePrevious
  BY DEF SInv
<1>2. QED
  BY <1>1, SavingInvariant, PTL

\* The cache is within its capacity, its two structures agree, and what it
\* remembers is what the source holds but for overwritten bytes (cache.rs:62-75).
THEOREM CacheTruthful == SSpec => []CacheIsTruthful
<1>1. SInv => CacheIsTruthful
  BY CacheTruth DEF SInv
<1>2. QED
  BY <1>1, SavingInvariant, PTL

-----------------------------------------------------------------------------
(* What a successful save leaves. *)

\* In a document that can be saved in place, a byte of the source is where the
\* source has it.
LEMMA OriginalInPlace ==
  ASSUME NEW t \in Seq(Piece), NEW size \in Nat, CanSaveInPlace(t, size),
         NEW i \in 1 .. size, Content(t)[i][1] # "Added"
  PROVE  Content(t)[i] = <<"Original", i - 1>>
<1>. DEFINE dirty == DirtyRanges(t)
            c == Content(t)
<1>1. dirty \in Seq(Added(t)) /\ Patched(t, size) = c
  BY DirtyRangesAdded, PatchesTheSource
<1>2. Patched(t, size)[i] =
        IF \E k \in 1 .. Len(dirty) : dirty[k][1] < i /\ i <= dirty[k][2]
          THEN c[i] ELSE <<"Original", i - 1>>
  BY DEF Patched
<1>3. ~ \E k \in 1 .. Len(dirty) : dirty[k][1] < i /\ i <= dirty[k][2]
  <2>1. SUFFICES ASSUME NEW k \in 1 .. Len(dirty), dirty[k][1] < i, i <= dirty[k][2] PROVE FALSE
    OBVIOUS
  <2>. DEFINE r == dirty[k]
              V == Added(t)
  <2>2. r \in V
    <3>1. dirty \in Seq(V) /\ k \in 1 .. Len(dirty)
      BY <1>1
    <3>. HIDE DEF V, dirty
    <3>2. QED
      BY <3>1
  <2>3. r[1] < i /\ i <= r[2]
    BY <2>1
  <2>. HIDE DEF r, dirty
  <2>4. /\ r[1] \in Nat /\ r[2] \in Nat
        /\ \A j \in r[1] .. r[2] - 1 : c[j + 1][1] = "Added"
    BY <2>2 DEF Added
  <2>. DEFINE a == r[1]
              b == r[2]
  <2>. HIDE DEF a, b
  <2>5. a \in Nat /\ b \in Nat /\ a < i /\ i <= b
    BY <2>3, <2>4 DEF a, b
  <2>6. i - 1 \in a .. b - 1 /\ (i - 1) + 1 = i
    BY <2>5
  <2>7. c[(i - 1) + 1][1] = "Added"
    BY <2>4, <2>6 DEF a, b
  <2>. HIDE DEF c
  <2>8. QED
    BY <2>6, <2>7 DEF c
<1>. HIDE DEF dirty, c
<1>4. QED
  BY <1>1, <1>2, <1>3 DEF c

\* What a save that streamed leaves.
LEMMA RenameSaves ==
  ASSUME Running, Rename, Untouched
  PROVE  file'[save.path] = NewFile(Content(doc.table))
<1>. DEFINE h == save.tmp
            p == save.path
<1>1. /\ save.phase = "Rename" /\ file' = [file EXCEPT ![p] = h]
      /\ FilesTyped /\ Saving
  BY DEF Rename, Running
<1>2. p \in Paths /\ h \in File /\ h.durable = h.now /\ h.now = Content(doc.table)
  BY <1>1, Shapes DEF RenameOk
<1>3. file'[p] = h
  <2>. HIDE DEF h, p
  <2>1. QED
    BY <1>1, <1>2 DEF FilesTyped
<1>4. h = [now |-> h.now, durable |-> h.durable]
  <2>. HIDE DEF h
  <2>1. QED
    BY <1>2 DEF File
<1>5. QED
  BY <1>2, <1>3, <1>4 DEF NewFile

\* What a save in place of the source's own file leaves.
LEMMA PatchSaves ==
  ASSUME Running, SyncPatched, Untouched, linked, save.path = Opened
  PROVE  file'[save.path] = NewFile(Content(doc.table))
<1>. DEFINE c == file[Opened].now
            t == doc.table
            d == Content(t)
            size == doc.size
<1>1. /\ save.phase = "Patch" /\ save.left = <<>>
      /\ file' = [file EXCEPT ![Opened].durable = c]
      /\ FilesTyped /\ Typed /\ Saving
  BY DEF SyncPatched, Running
<1>2. /\ CanSaveInPlace(t, size)
      /\ \A i \in 1 .. size : d[i][1] = "Added" => i \in 1 .. Len(c) /\ c[i] = d[i]
  <2>1. PatchOk
    BY <1>1, Shapes
  <2>2. \A i : ~ InRanges(save.left, i)
    BY <1>1 DEF InRanges
  <2>3. QED
    BY <2>1, <2>2 DEF PatchOk
<1>3. SourceBytes = c
  BY DEF SourceBytes
<1>4. /\ c \in Seq(FCell) /\ Len(c) = size /\ size \in Nat
      /\ d \in Seq(Cell) /\ Len(d) = size /\ t \in Seq(Piece)
  BY <1>1, <1>2, <1>3, SourceTyped, SavedDocument DEF CanSaveInPlace
<1>5. ASSUME NEW i \in 1 .. size PROVE c[i] = d[i]
  <2>1. CASE d[i][1] = "Added"
    BY <1>2, <2>1
  <2>2. CASE d[i][1] # "Added"
    <3>1. d[i] = <<"Original", i - 1>>
      <4>. HIDE DEF t, size
      <4>1. QED
        BY <1>2, <1>4, <2>2, OriginalInPlace
    <3>2. i - 1 \in Sourced(t)
      <4>1. i \in 1 .. Len(Content(t)) /\ Content(t)[i] = <<"Original", i - 1>>
        BY <1>4, <3>1
      <4>. HIDE DEF t, size
      <4>2. QED
        BY <1>4, <4>1, SourcedAt
    <3>3. i - 1 \notin Overwritten
      BY <3>2 DEF Untouched
    <3>4. i - 1 \in Nat /\ i - 1 < size /\ (i - 1) + 1 = i
      <4>. HIDE DEF size
      <4>1. QED
        BY <1>4
    <3>. DEFINE x == i - 1
    <3>5. x \in Nat /\ x < doc.size /\ x \notin Overwritten /\ x + 1 = i /\ doc.size \in Nat
      BY <1>4, <3>3, <3>4
    <3>. HIDE DEF x
    <3>6. SourceBytes[x + 1] = <<"Original", x>>
      BY <3>5, OverwrittenAt
    <3>7. QED
      BY <1>3, <3>1, <3>5, <3>6 DEF x
  <2>3. QED
    BY <2>1, <2>2
<1>. HIDE DEF d, size
<1>6. c = d
  <2>. HIDE DEF c
  <2>1. Cell \subseteq FCell
    BY DEF Cell, Store, FCell
  <2>2. c \in [1 .. size -> FCell] /\ d \in [1 .. size -> Cell]
    BY <1>4
  <2>3. c = [k \in 1 .. size |-> c[k]] /\ d = [k \in 1 .. size |-> d[k]]
    BY <2>2
  <2>4. [k \in 1 .. size |-> c[k]] = [k \in 1 .. size |-> d[k]]
    BY <1>5
  <2>5. QED
    BY <2>3, <2>4, Zenon
<1>7. file'[Opened] = [now |-> c, durable |-> c]
  <2>. DEFINE f == file[Opened]
              T == Seq(FCell)
              h == [f EXCEPT !.durable = c]
  <2>1. f \in [now : T, durable : T] /\ Opened \in DOMAIN file
    BY <1>1, Names, FileFields DEF File
  <2>2. file' = [file EXCEPT ![Opened] = h]
    BY <1>1
  <2>3. h = [now |-> f.now, durable |-> c]
    <3>. HIDE DEF f, T, c
    <3>1. QED
      BY <2>1
  <2>. HIDE DEF h
  <2>4. file'[Opened] = h
    BY <1>1, <2>1, <2>2 DEF FilesTyped
  <2>5. QED
    BY <2>3, <2>4
<1>8. QED
  BY <1>6, <1>7 DEF NewFile, d

\* A save in place of any file leaves the edited bytes at their offsets.
LEMMA PatchCarries ==
  ASSUME Running, SyncPatched
  PROVE  CarriesTheEdits(file'[save.path].now)
<1>. DEFINE p == save.path
            f == file[p]
            d == Content(doc.table)
<1>1. /\ save.phase = "Patch" /\ save.left = <<>>
      /\ file' = [file EXCEPT ![p].durable = f.now]
      /\ FilesTyped /\ Typed /\ Saving
  BY DEF SyncPatched, Running
<1>2. /\ CanSaveInPlace(doc.table, doc.size) /\ p \in Paths
      /\ \A i \in 1 .. doc.size : d[i][1] = "Added" => i \in 1 .. Len(f.now) /\ f.now[i] = d[i]
  <2>1. PatchOk
    BY <1>1, Shapes
  <2>2. \A i : ~ InRanges(save.left, i)
    BY <1>1 DEF InRanges
  <2>3. QED
    BY <2>1, <2>2 DEF PatchOk
<1>3. Len(d) = doc.size
  BY <1>1, <1>2, SavedDocument DEF CanSaveInPlace
<1>4. file'[p].now = f.now
  <2>. DEFINE T == Seq(FCell)
              h == [f EXCEPT !.durable = f.now]
  <2>1. f \in [now : T, durable : T] /\ p \in DOMAIN file
    BY <1>1, <1>2, FileFields DEF File, FilesTyped
  <2>2. file' = [file EXCEPT ![p] = h]
    BY <1>1
  <2>3. h.now = f.now
    <3>. HIDE DEF f, T
    <3>1. QED
      BY <2>1
  <2>. HIDE DEF h
  <2>4. file'[p] = h
    BY <1>1, <2>1, <2>2 DEF FilesTyped
  <2>5. QED
    BY <2>3, <2>4
<1>. HIDE DEF f
<1>5. QED
  BY <1>2, <1>3, <1>4 DEF CarriesTheEdits

\* A successful save leaves exactly the document in the file and on the disk when
\* it streams, or patches the source's own file; a patch of any other leaves the
\* edits there: SavesTheDocument (document/io.rs:54-55, 92-98, 172-174).
THEOREM SavesDocument == SSpec => SavesTheDocument
<1>. DEFINE A == Succeed =>
                   /\ Sourced(doc.table) \cap Overwritten = {}
                      /\ (save.phase = "Patch" => IsTheSource(save.path))
                        => file'[save.path] = NewFile(Content(doc.table))
                   /\ save.phase = "Patch" => CarriesTheEdits(file'[save.path].now)
<1>1. SInv /\ [SNext]_svars => [A]_svars
  <2>1. SUFFICES ASSUME SInv, SNext, Succeed PROVE A
    OBVIOUS
  <2>2. Running
    BY <2>1 DEF SInv, SNext
  <2>3. CASE Rename
    <3>1. save.phase = "Rename"
      BY <2>3 DEF Rename
    <3>2. Untouched => file'[save.path] = NewFile(Content(doc.table))
      BY <2>2, <2>3, RenameSaves
    <3>3. QED
      BY <3>1, <3>2 DEF Untouched
  <2>4. CASE SyncPatched
    <3>1. save.phase = "Patch"
      BY <2>4 DEF SyncPatched
    <3>2. Untouched /\ IsTheSource(save.path) => file'[save.path] = NewFile(Content(doc.table))
      BY <2>2, <2>4, PatchSaves DEF IsTheSource
    <3>3. CarriesTheEdits(file'[save.path].now)
      BY <2>2, <2>4, PatchCarries
    <3>4. QED
      BY <3>1, <3>2, <3>3 DEF Untouched
  <2>5. QED
    BY <2>1, <2>3, <2>4 DEF Succeed
<1>2. QED
  BY <1>1, SavingInvariant, PTL DEF SSpec, SavesTheDocument
=============================================================================
