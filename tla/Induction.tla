----------------------------- MODULE Induction -----------------------------
(***************************************************************************)
(* Induction over the naturals, the existence of functions defined by       *)
(* recursion on a prefix 0 .. n, and the sums of a sequence of sequences,   *)
(* stated over sets rather than over operators, so that the proofs of the   *)
(* components can cite them.                                                *)
(***************************************************************************)
EXTENDS Integers, Sequences, WellFoundedInduction, TLAPS

LT == {ss \in Nat \X Nat : ss[1] < ss[2]}

LEMMA LTWellFounded == IsWellFoundedOn(LT, Nat)
BY NatLessThanWellFounded DEF OpToRel, LT

\* A set that contains 0 and is closed under successor contains every natural.
THEOREM SetInduction ==
  ASSUME NEW S, 0 \in S, \A n \in Nat : n \in S => n + 1 \in S
  PROVE  Nat \subseteq S
<1>. DEFINE T == Nat \ S
<1>1. SUFFICES ASSUME T # {} PROVE FALSE
  OBVIOUS
<1>2. PICK x \in T : \A y \in T : ~ (<<y, x>> \in LT)
  <2>1. T \subseteq Nat
    OBVIOUS
  <2>. HIDE DEF T
  <2>2. QED
    BY LTWellFounded, <2>1, <1>1, WFMin
<1>3. x # 0 /\ x \in Nat
  OBVIOUS
<1>4. x - 1 \in Nat /\ x - 1 < x /\ x = (x - 1) + 1
  BY <1>3
<1>5. x - 1 \in S
  BY <1>2, <1>4 DEF LT
<1>6. QED
  BY <1>5, <1>4

\* The same over a bounded prefix, the form in which the components use it.
THEOREM PrefixInduction ==
  ASSUME NEW n \in Nat, NEW S, 0 \in S,
         \A k \in 1 .. n : k - 1 \in S => k \in S
  PROVE  \A k \in 0 .. n : k \in S
<1>. DEFINE T == {k \in Nat : k <= n => k \in S}
<1>1. 0 \in T
  OBVIOUS
<1>2. ASSUME NEW k \in Nat, k \in T PROVE k + 1 \in T
  <2>1. SUFFICES ASSUME k + 1 <= n PROVE k + 1 \in S
    OBVIOUS
  <2>2. k \in S /\ k + 1 \in 1 .. n /\ (k + 1) - 1 = k
    BY <1>2, <2>1
  <2>3. QED
    BY <2>2
<1>3. Nat \subseteq T
  <2>. HIDE DEF T
  <2>1. QED
    BY <1>1, <1>2, SetInduction
<1>4. QED
  BY <1>3

\* The sequences of values r[0 .. n] that start at s0 and follow the function step.
Recursions(S, n, s0, step) ==
  {r \in [0 .. n -> S] : r[0] = s0 /\ \A i \in 1 .. n : r[i] = step[<<r[i - 1], i>>]}

\* From a starting value and a step function there is a sequence of values.
THEOREM RecursionExists ==
  ASSUME NEW S, NEW n \in Nat, NEW s0 \in S, NEW step \in [S \X (1 .. n) -> S]
  PROVE  Recursions(S, n, s0, step) # {}
<1>. DEFINE Upto(m) == \E r \in [0 .. m -> S] :
              r[0] = s0 /\ \A i \in 1 .. m : r[i] = step[<<r[i - 1], i>>]
            Q == {m \in Nat : m <= n => Upto(m)}
<1>1. 0 \in Q
  <2>. DEFINE r == [i \in 0 .. 0 |-> s0]
  <2>1. r \in [0 .. 0 -> S] /\ r[0] = s0 /\ 1 .. 0 = {}
    OBVIOUS
  <2>2. QED
    BY <2>1
<1>2. ASSUME NEW m \in Nat, m \in Q PROVE m + 1 \in Q
  <2>1. SUFFICES ASSUME m + 1 <= n PROVE Upto(m + 1)
    OBVIOUS
  <2>2. PICK q \in [0 .. m -> S] :
          q[0] = s0 /\ \A i \in 1 .. m : q[i] = step[<<q[i - 1], i>>]
    BY <1>2, <2>1
  <2>. DEFINE r == [i \in 0 .. (m + 1) |-> IF i <= m THEN q[i] ELSE step[<<q[m], m + 1>>]]
  <2>3. q[m] \in S /\ m + 1 \in 1 .. n
    BY <2>1
  <2>4. step[<<q[m], m + 1>>] \in S
    BY <2>3
  <2>5. r \in [0 .. (m + 1) -> S]
    BY <2>4
  <2>6. r[0] = s0
    BY <2>2
  <2>7. ASSUME NEW i \in 1 .. (m + 1) PROVE r[i] = step[<<r[i - 1], i>>]
    <3>1. CASE i <= m
      <4>1. i - 1 \in 0 .. m /\ i \in 0 .. m /\ i - 1 <= m
        BY <3>1
      <4>2. r[i] = q[i] /\ r[i - 1] = q[i - 1]
        BY <3>1, <4>1
      <4>3. QED
        BY <4>2, <2>2, <3>1
    <3>2. CASE i = m + 1
      <4>1. ~ (i <= m) /\ i - 1 = m /\ m \in 0 .. (m + 1) /\ i \in 0 .. (m + 1)
        BY <3>2
      <4>2. r[i - 1] = q[m]
        BY <4>1
      <4>3. QED
        BY <4>1, <4>2, <3>2
    <3>3. QED
      BY <3>1, <3>2
  <2>8. QED
    BY <2>5, <2>6, <2>7
<1>3. Nat \subseteq Q
  <2>. HIDE DEF Q
  <2>1. QED
    BY <1>1, <1>2, SetInduction
<1>4. n \in Q
  <2>. HIDE DEF Q
  <2>1. QED
    BY <1>3
<1>5. n <= n => Upto(n)
  BY <1>4
<1>6. QED
  BY <1>5 DEF Recursions

\* The functions whose value at i is found from their value at some after[i] > i,
\* and is given from n on.
Forward == {after \in [Nat -> Nat] : \A i \in Nat : i < after[i]}
DownwardRecursions(S, n, base, after, step) ==
  {f \in [Nat -> S] : \A i \in Nat : f[i] = IF i < n THEN step[<<i, f[after[i]]>>] ELSE base[i]}

\* There is such a function.
THEOREM DownwardRecursionExists ==
  ASSUME NEW S, NEW n \in Nat, NEW base \in [Nat -> S], NEW after \in Forward,
         NEW step \in [Nat \X S -> S]
  PROVE  DownwardRecursions(S, n, base, after, step) # {}
<1>. DEFINE Rhs(f, i) == IF i < n THEN step[<<i, f[after[i]]>>] ELSE base[i]
            Upto(k) == \E f \in [Nat -> S] : \A i \in Nat : n <= i + k => f[i] = Rhs(f, i)
            T == {k \in Nat : Upto(k)}
<1>0. after \in [Nat -> Nat] /\ \A i \in Nat : i < after[i]
  BY DEF Forward
<1>1. 0 \in T
  <2>1. \A i \in Nat : n <= i + 0 => base[i] = Rhs(base, i)
    OBVIOUS
  <2>2. QED
    BY <2>1
<1>2. ASSUME NEW k \in Nat, k \in T PROVE k + 1 \in T
  <2>1. PICK f \in [Nat -> S] : \A i \in Nat : n <= i + k => f[i] = Rhs(f, i)
    BY <1>2
  <2>2. CASE n <= k
    <3>1. \A i \in Nat : n <= i + k
      BY <2>2
    <3>2. \A i \in Nat : f[i] = Rhs(f, i)
      BY <2>1, <3>1
    <3>. HIDE DEF Rhs
    <3>3. QED
      BY <3>2
  <2>3. CASE k < n
    <3>. DEFINE j == n - (k + 1)
                y == step[<<j, f[after[j]]>>]
                g == [f EXCEPT ![j] = y]
    <3>1. j \in Nat /\ j < n /\ after[j] \in Nat /\ j < after[j] /\ f[after[j]] \in S
      BY <1>0, <2>3
    <3>2. y \in S
      BY <3>1
    <3>. HIDE DEF y
    <3>3. g \in [Nat -> S] /\ g[j] = y /\ \A i \in Nat : i # j => g[i] = f[i]
      BY <3>1, <3>2
    <3>. HIDE DEF g
    <3>4. ASSUME NEW i \in Nat, n <= i + (k + 1) PROVE g[i] = Rhs(g, i)
      <4>1. after[i] \in Nat /\ i < after[i]
        BY <1>0
      <4>2. j <= i
        BY <3>4, <2>3
      <4>3. after[i] # j
        BY <3>1, <4>1, <4>2
      <4>. HIDE DEF j
      <4>4. g[after[i]] = f[after[i]]
        BY <3>3, <4>1, <4>3
      <4>5. CASE i = j
        <5>1. g[i] = y /\ i < n
          BY <3>1, <3>3, <4>5
        <5>2. Rhs(g, i) = step[<<i, f[after[i]]>>]
          BY <4>4, <5>1
        <5>3. QED
          BY <4>5, <5>1, <5>2 DEF y
      <4>6. CASE i # j
        <5>1. n <= i + k
          BY <2>3, <3>4, <4>2, <4>6 DEF j
        <5>2. g[i] = f[i] /\ f[i] = Rhs(f, i)
          BY <2>1, <3>3, <4>6, <5>1
        <5>3. Rhs(g, i) = Rhs(f, i)
          BY <4>4
        <5>4. QED
          BY <5>2, <5>3
      <4>7. QED
        BY <4>5, <4>6
    <3>5. QED
      <4>. HIDE DEF Rhs
      <4>1. QED
        BY <3>3, <3>4
  <2>4. QED
    BY <2>2, <2>3
<1>3. n \in T
  <2>. HIDE DEF T
  <2>1. Nat \subseteq T
    BY <1>1, <1>2, SetInduction
  <2>2. QED
    BY <2>1
<1>4. PICK f \in [Nat -> S] : \A i \in Nat : n <= i + n => f[i] = Rhs(f, i)
  BY <1>3
<1>5. \A i \in Nat : f[i] = Rhs(f, i)
  BY <1>4
<1>6. QED
  BY <1>5 DEF DownwardRecursions

\* A set of naturals below a bound has a greatest element.
THEOREM GreatestExists ==
  ASSUME NEW n \in Nat, NEW A \in SUBSET (0 .. n), A # {}
  PROVE  \E k \in A : \A j \in A : j <= k
<1>. DEFINE T == {x \in Nat : n - x \in A}
<1>1. T # {} /\ T \subseteq Nat
  <2>1. PICK k \in A : TRUE
    OBVIOUS
  <2>2. n - k \in Nat /\ n - (n - k) = k
    BY <2>1
  <2>3. QED
    BY <2>1, <2>2
<1>2. PICK x \in T : \A y \in T : ~ (<<y, x>> \in LT)
  <2>. HIDE DEF T
  <2>1. QED
    BY LTWellFounded, <1>1, WFMin
<1>3. x \in Nat /\ n - x \in A
  OBVIOUS
<1>4. ASSUME NEW j \in A PROVE j <= n - x
  <2>1. j \in Nat /\ n - j \in Nat /\ n - (n - j) = j
    OBVIOUS
  <2>2. n - j \in T
    BY <2>1
  <2>3. ~ (n - j < x)
    BY <1>2, <1>3, <2>1, <2>2 DEF LT
  <2>4. QED
    BY <1>3, <2>1, <2>3
<1>5. QED
  BY <1>3, <1>4

\* e is the sums of a concatenation from the left, if there are any; and total is
\* what such a concatenation comes to, one summand after the other.
RunningSums(ss, f) == [i \in 1 .. Len(ss) |-> IF i = 1 THEN ss[i] ELSE f[i - 1] \o ss[i]]
Chosen(ss, e) == \A g : g = RunningSums(ss, g) => e = RunningSums(ss, e)
AddsUpTo(V, ss, total) ==
  \E r \in [0 .. Len(ss) -> Seq(V)] :
    /\ r[0] = <<>> /\ r[Len(ss)] = total
    /\ \A k \in 1 .. Len(ss) : r[k] = r[k - 1] \o ss[k]

\* There are such sums, and they are sequences.
LEMMA Concatenations ==
  ASSUME NEW V, NEW ss \in Seq(Seq(V)), ss # <<>>, NEW e, Chosen(ss, e)
  PROVE  AddsUpTo(V, ss, e[Len(ss)])
<1>. DEFINE n == Len(ss)
            S == Seq(V)
            step == [x \in S \X (1 .. n) |-> x[1] \o ss[x[2]]]
<1>1. n \in Nat /\ n # 0 /\ (\A k \in 1 .. n : ss[k] \in S) /\ <<>> \in S
  OBVIOUS
<1>2. step \in [S \X (1 .. n) -> S]
  <2>1. ASSUME NEW x \in S, NEW k \in 1 .. n PROVE x \o ss[k] \in S
    <3>. DEFINE y == ss[k]
    <3>1. y \in Seq(V)
      BY <1>1
    <3>. HIDE DEF y
    <3>2. x \o y \in Seq(V)
      BY <3>1
    <3>3. QED
      BY <3>2 DEF y
  <2>. HIDE DEF S, n
  <2>2. QED
    BY <2>1
<1>3. PICK r \in [0 .. n -> S] : r[0] = <<>> /\ \A i \in 1 .. n : r[i] = step[<<r[i - 1], i>>]
  <2>. HIDE DEF S, step, n
  <2>1. Recursions(S, n, <<>>, step) # {}
    BY <1>1, <1>2, RecursionExists
  <2>2. QED
    BY <2>1 DEF Recursions
<1>4. ASSUME NEW k \in 1 .. n PROVE r[k] = r[k - 1] \o ss[k] /\ r[k - 1] \in S
  <2>. HIDE DEF S, n
  <2>1. k - 1 \in 0 .. n
    BY <1>1
  <2>2. r[k - 1] \in S
    BY <2>1
  <2>3. <<r[k - 1], k>> \in S \X (1 .. n)
    BY <2>2
  <2>4. QED
    BY <1>3, <2>2, <2>3
<1>. DEFINE Body(f) == [i \in 1 .. n |-> IF i = 1 THEN ss[i] ELSE f[i - 1] \o ss[i]]
<1>0. \A g : g = Body(g) => e = Body(e)
  BY DEF Chosen, RunningSums
<1>5. e = Body(e)
  <2>. DEFINE g == [i \in 1 .. n |-> r[i]]
  <2>1. ASSUME NEW i \in 1 .. n PROVE r[i] = IF i = 1 THEN ss[i] ELSE g[i - 1] \o ss[i]
    <3>1. CASE i = 1
      <4>1. r[1] = <<>> \o ss[1] /\ ss[1] \in Seq(V)
        <5>. HIDE DEF n, step, Body
        <5>1. 1 \in 1 .. n /\ 1 - 1 = 0
          BY <1>1
        <5>2. r[1] = r[1 - 1] \o ss[1] /\ ss[1] \in S
          BY <1>1, <1>4, <5>1
        <5>3. QED
          BY <1>3, <5>1, <5>2
      <4>. DEFINE y == ss[1]
      <4>2. y \in Seq(V) /\ r[1] = <<>> \o y
        BY <4>1
      <4>. HIDE DEF y
      <4>3. <<>> \o y = y
        BY <4>2
      <4>4. QED
        BY <3>1, <4>2, <4>3 DEF y
    <3>2. CASE i # 1
      <4>1. i - 1 \in 1 .. n
        BY <1>1, <3>2
      <4>2. g[i - 1] = r[i - 1]
        BY <4>1
      <4>3. QED
        BY <1>4, <3>2, <4>2
    <3>3. QED
      BY <3>1, <3>2
  <2>2. g = Body(g)
    <3>. HIDE DEF n
    <3>1. QED
      BY <2>1
  <2>. HIDE DEF Body, g
  <2>3. QED
    BY <1>0, <2>2
<1>6. ASSUME NEW i \in 1 .. n PROVE e[i] = IF i = 1 THEN ss[i] ELSE e[i - 1] \o ss[i]
  <2>. HIDE DEF n
  <2>1. QED
    BY <1>5
<1>. DEFINE Q == {k \in 0 .. n : k = 0 \/ e[k] = r[k]}
<1>7. \A k \in 0 .. n : k \in Q
  <2>1. 0 \in Q
    BY <1>1
  <2>2. ASSUME NEW k \in 1 .. n, k - 1 \in Q PROVE k \in Q
    <3>1. CASE k = 1
      <4>1. r[1] = <<>> \o ss[1] /\ ss[1] \in Seq(V)
        <5>. HIDE DEF n, step, Body
        <5>1. 1 \in 1 .. n /\ 1 - 1 = 0
          BY <1>1
        <5>2. r[1] = r[1 - 1] \o ss[1] /\ ss[1] \in S
          BY <1>1, <1>4, <5>1
        <5>3. QED
          BY <1>3, <5>1, <5>2
      <4>. DEFINE y == ss[1]
      <4>2. y \in Seq(V) /\ r[1] = <<>> \o y
        BY <4>1
      <4>. HIDE DEF y
      <4>3. <<>> \o y = y
        BY <4>2
      <4>4. e[1] = y
        BY <1>6, <3>1 DEF y
      <4>5. QED
        BY <1>1, <3>1, <4>2, <4>3, <4>4
    <3>2. CASE k # 1
      <4>1. k - 1 # 0 /\ e[k] = e[k - 1] \o ss[k]
        <5>. HIDE DEF n, S, step, Q
        <5>1. k \in Nat
          BY <1>1
        <5>2. e[k] = IF k = 1 THEN ss[k] ELSE e[k - 1] \o ss[k]
          BY <1>6, Zenon
        <5>3. k - 1 # 0
          BY <3>2, <5>1
        <5>4. QED
          BY <3>2, <5>2, <5>3, Zenon
      <4>2. e[k - 1] = r[k - 1]
        BY <2>2, <4>1
      <4>3. e[k] = r[k] /\ k \in 0 .. n
        <5>. HIDE DEF n, S, step, Q
        <5>1. r[k] = r[k - 1] \o ss[k]
          BY <1>4, Zenon
        <5>2. k \in 0 .. n
          BY <1>1
        <5>3. QED
          BY <4>1, <4>2, <5>1, <5>2, Zenon
      <4>4. QED
        BY <4>3
    <3>3. QED
      BY <3>1, <3>2
  <2>. HIDE DEF Q, n
  <2>3. QED
    BY <1>1, <2>1, <2>2, PrefixInduction
<1>8. e[n] = r[n]
  <2>. HIDE DEF n
  <2>1. n \in 0 .. n
    BY <1>1
  <2>2. QED
    BY <1>1, <1>7, <2>1
<1>9. QED
  BY <1>3, <1>4, <1>8 DEF AddsUpTo
=============================================================================
