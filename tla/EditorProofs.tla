---------------------------- MODULE EditorProofs ----------------------------
(***************************************************************************)
(* Theorems about the editor's window: what Editor states of the tabs, the *)
(* undo steps of the grid (hexview.rs), the dialogs (app/dialogs.rs) and   *)
(* the session (config.rs), for every number of files, every length and    *)
(* every budget of inputs.                                                 *)
(*                                                                         *)
(* The inductive invariant EInv has four parts.  TabsOk: every tab holds a *)
(* view whose undo and redo steps are each of one run of typing at most    *)
(* (UndoSteps), lead through lengths that are never negative (Chain), and  *)
(* end, while a run goes on, in a step that it may join (Continues); no    *)
(* two tabs have the same identity.  GridOk: search, hits, dialog and      *)
(* preferences have their shape.  LifeOk: so have the phases of a process. *)
(* SessionOk: what the next start is to reopen, or this one has reopened   *)
(* and still has to, is the list of the last clean end or a beginning of   *)
(* it, without the files that could not be opened in between.              *)
(***************************************************************************)
EXTENDS Window, Induction, FiniteSetTheorems, SequenceTheorems

-----------------------------------------------------------------------------
(* The invariant. *)

\* Edits that the typing of run r may join in one undo step.
Joins(by, r) ==
  \A b \in by : b[1] \notin {"inspector", "fill"} /\ (b[1] = "typing" => b[2] = r)

NoTyping(by) == \A b \in by : b[1] # "typing"

\* An undo step is of no typing, or of one run.
OneRun(by) == NoTyping(by) \/ \E r \in Nat : Joins(by, r)

UndoSteps == {s \in [by : SUBSET (Origins \X Nat), delta : Int] : OneRun(s.by)}

\* The lengths ls that the two stacks lead through; the document has that of
\* its place between them.
Leads(ls, undo, redo, len) ==
  /\ ls \in Seq(Nat) /\ Len(ls) = Len(undo) + Len(redo) + 1
  /\ ls[Len(undo) + 1] = len
  /\ \A i \in 1 .. Len(undo) : ls[i + 1] = ls[i] + undo[i].delta
  /\ \A i \in 1 .. Len(redo) : ls[Len(ls) + 1 - i] = ls[Len(ls) - i] + redo[i].delta

Chain(undo, redo, len) == \E ls \in Seq(Nat) : Leads(ls, undo, redo, len)

\* While a run of typing goes on, the last undo step is one it may join.
Continues(t) ==
  t.typingNext # None \/ t.nibble =>
    t.undo # <<>> /\ Joins(t.undo[Len(t.undo)].by, t.run)

ViewFields ==
  [len : Nat, undo : Seq(UndoSteps), redo : Seq(UndoSteps), savedDepth : Int,
   cursor : Nat, anchor : Nat \cup {None}, pane : {"hex", "text"}, insertMode : BOOLEAN,
   nibble : BOOLEAN, typingNext : Nat \cup {None}, readOnly : BOOLEAN, run : Nat]

Docs == {t \in ViewFields : Chain(t.undo, t.redo, t.len)}

Views == {t \in Docs : Continues(t)}

\* Between two runs of typing.
Quiet(t) == t.typingNext = None /\ t.nibble = FALSE

\* No run of typing goes on: nothing to join.
LEMMA QuietViews ==
  ASSUME NEW t \in Docs, Quiet(t)
  PROVE  t \in Views
BY DEF Views, Quiet, Continues

-----------------------------------------------------------------------------
(* The document behind the grid. *)

\* A commit leaves the redo stack behind: the lengths end with the new one.
LEMMA CommittedLeads ==
  ASSUME NEW undo \in Seq(UndoSteps), NEW redo \in Seq(UndoSteps), NEW len \in Nat,
         Chain(undo, redo, len), NEW step \in UndoSteps, len + step.delta \in Nat
  PROVE  Chain(Append(undo, step), <<>>, len + step.delta)
<1>1. PICK ls \in Seq(Nat) : Leads(ls, undo, redo, len)
  BY DEF Chain
<1>. DEFINE n == Len(undo)
            ks == Append(SubSeq(ls, 1, n + 1), len + step.delta)
            later == Append(undo, step)
<1>2. n \in Nat /\ Len(redo) \in Nat /\ Len(ls) = n + Len(redo) + 1 /\ ls[n + 1] = len
  BY <1>1 DEF Leads
<1>3. /\ SubSeq(ls, 1, n + 1) \in Seq(Nat)
      /\ Len(SubSeq(ls, 1, n + 1)) = n + 1
      /\ \A i \in 1 .. n + 1 : SubSeq(ls, 1, n + 1)[i] = ls[i]
  <2>. HIDE DEF n
  <2>1. n + 1 \in Nat /\ n + 1 <= Len(ls)
    BY <1>2
  <2>2. QED
    BY <2>1
<1>4. /\ ks \in Seq(Nat) /\ Len(ks) = n + 2
      /\ \A i \in 1 .. n + 1 : ks[i] = ls[i]
      /\ ks[n + 2] = len + step.delta
  BY <1>2, <1>3
<1>5. /\ later \in Seq(UndoSteps) /\ Len(later) = n + 1
      /\ \A i \in 1 .. n : later[i] = undo[i]
      /\ later[n + 1] = step
  BY <1>2
<1>. HIDE DEF ks, later
<1>6. ASSUME NEW i \in 1 .. Len(later) PROVE ks[i + 1] = ks[i] + later[i].delta
  <2>1. CASE i \in 1 .. n
    <3>1. ls[i + 1] = ls[i] + undo[i].delta
      BY <1>1, <2>1 DEF Leads, n
    <3>2. i \in 1 .. n + 1 /\ i + 1 \in 1 .. n + 1
      BY <1>2, <2>1
    <3>3. QED
      BY <1>4, <1>5, <2>1, <3>1, <3>2
  <2>2. CASE i = n + 1
    <3>1. i + 1 = n + 2 /\ i \in 1 .. n + 1
      BY <1>2, <2>2
    <3>2. ks[i] = len /\ ks[i + 1] = len + step.delta /\ later[i] = step
      BY <1>2, <1>4, <1>5, <2>2, <3>1
    <3>3. QED
      BY <3>2
  <2>3. QED
    BY <1>2, <1>5, <2>1, <2>2
<1>7. Leads(ks, later, <<>>, len + step.delta)
  <2>1. Len(<<>>) = 0
    OBVIOUS
  <2>2. n + 2 = (n + 1) + 0 + 1 /\ (n + 1) + 1 = n + 2
    BY <1>2
  <2>3. \A i \in 1 .. 0 : ks[Len(ks) + 1 - i] = ks[Len(ks) - i] + <<>>[i].delta
    OBVIOUS
  <2>4. QED
    BY <1>4, <1>5, <1>6, <2>1, <2>2, <2>3 DEF Leads
<1>8. QED
  BY <1>4, <1>7 DEF Chain, later

\* A commit of a step (document.rs) leaves a document.
LEMMA CommittedDoc ==
  ASSUME NEW t \in Docs, NEW by \in Origins, NEW delta \in Int, t.len + delta \in Nat
  PROVE  LET r == Committed(t, by, delta)
         IN  /\ r \in Docs /\ r.redo = <<>>
             /\ r.undo = Append(t.undo, [by |-> {<<by, t.run>>}, delta |-> delta])
             /\ Len(r.undo) = Len(t.undo) + 1
             /\ r.undo[Len(r.undo)].by = {<<by, t.run>>}
             /\ r.run = t.run /\ r.cursor = t.cursor /\ r.typingNext = t.typingNext
             /\ r.nibble = t.nibble
<1>. DEFINE r == Committed(t, by, delta)
            step == [by |-> {<<by, t.run>>}, delta |-> delta]
<1>1. t \in ViewFields /\ Chain(t.undo, t.redo, t.len)
  BY DEF Docs
<1>2. step \in UndoSteps /\ step.delta = delta
  <2>1. t.run \in Nat
    BY <1>1 DEF ViewFields
  <2>2. step \in [by : SUBSET (Origins \X Nat), delta : Int]
    BY <2>1
  <2>3. NoTyping(step.by) \/ Joins(step.by, t.run)
    BY DEF NoTyping, Joins, Origins
  <2>4. QED
    BY <2>1, <2>2, <2>3 DEF UndoSteps, OneRun
<1>. HIDE DEF step
<1>3. /\ r.len = t.len + delta /\ r.undo = Append(t.undo, step) /\ r.redo = <<>>
      /\ r.run = t.run /\ r.cursor = t.cursor /\ r.typingNext = t.typingNext
      /\ r.nibble = t.nibble
  BY <1>1 DEF Committed, ViewFields, step
<1>4. Append(t.undo, step) \in Seq(UndoSteps) /\ Len(Append(t.undo, step)) = Len(t.undo) + 1
      /\ Append(t.undo, step)[Len(t.undo) + 1] = step
  BY <1>1, <1>2 DEF ViewFields
<1>5. r \in ViewFields
  <2>1. <<>> \in Seq(UndoSteps) /\ Unreachable \in Int
    BY DEF Unreachable
  <2>2. QED
    BY <1>1, <1>4, <2>1 DEF Committed, ViewFields, step
<1>6. Chain(r.undo, r.redo, r.len)
  <2>1. t.undo \in Seq(UndoSteps) /\ t.redo \in Seq(UndoSteps) /\ t.len \in Nat
    BY <1>1 DEF ViewFields
  <2>2. Chain(Append(t.undo, step), <<>>, t.len + delta)
    BY <1>1, <1>2, <2>1, CommittedLeads
  <2>3. QED
    BY <1>3, <2>2
<1>7. /\ r \in Docs
      /\ Len(r.undo) = Len(t.undo) + 1
      /\ r.undo[Len(r.undo)] = step
  BY <1>3, <1>4, <1>5, <1>6 DEF Docs
<1>8. step.by = {<<by, t.run>>}
  BY DEF step
<1>. HIDE DEF r
<1>9. /\ r \in Docs /\ r.redo = <<>> /\ r.undo = Append(t.undo, step)
      /\ Len(r.undo) = Len(t.undo) + 1
      /\ r.undo[Len(r.undo)].by = {<<by, t.run>>}
      /\ r.run = t.run /\ r.cursor = t.cursor /\ r.typingNext = t.typingNext
      /\ r.nibble = t.nibble
  BY <1>3, <1>7, <1>8
<1>10. QED
  BY <1>9, Zenon DEF r, step

\* A merge leaves out the length between the last two steps.
LEMMA MergedLeads ==
  ASSUME NEW undo \in Seq(UndoSteps), NEW n \in Nat \ {0}, Len(undo) = n + 1,
         NEW len \in Nat, Chain(undo, <<>>, len), NEW both \in UndoSteps,
         both.delta = undo[n].delta + undo[n + 1].delta
  PROVE  LET later == Append(SubSeq(undo, 1, n - 1), both)
         IN  /\ later \in Seq(UndoSteps) /\ Len(later) = n /\ later[n] = both
             /\ Chain(later, <<>>, len)
<1>1. PICK ls \in Seq(Nat) : Leads(ls, undo, <<>>, len)
  BY DEF Chain
<1>. DEFINE ks == Append(SubSeq(ls, 1, n), len)
            later == Append(SubSeq(undo, 1, n - 1), both)
<1>2. /\ Len(ls) = n + 2 /\ ls[n + 2] = len
      /\ \A i \in 1 .. n + 1 : ls[i + 1] = ls[i] + undo[i].delta
  <2>1. Len(<<>>) = 0
    OBVIOUS
  <2>2. n + 1 + 0 + 1 = n + 2 /\ (n + 1) + 1 = n + 2
    OBVIOUS
  <2>3. QED
    BY <1>1, <2>1, <2>2 DEF Leads
<1>3. /\ ks \in Seq(Nat) /\ Len(ks) = n + 1
      /\ \A i \in 1 .. n : ks[i] = ls[i]
      /\ ks[n + 1] = len
  <2>1. n <= Len(ls)
    BY <1>2
  <2>2. SubSeq(ls, 1, n) \in Seq(Nat) /\ Len(SubSeq(ls, 1, n)) = n
        /\ \A i \in 1 .. n : SubSeq(ls, 1, n)[i] = ls[i]
    BY <2>1
  <2>3. QED
    BY <2>2
<1>4. /\ later \in Seq(UndoSteps) /\ Len(later) = n
      /\ \A i \in 1 .. n - 1 : later[i] = undo[i]
      /\ later[n] = both
  <2>1. n - 1 \in Nat /\ n - 1 <= Len(undo)
    OBVIOUS
  <2>2. /\ SubSeq(undo, 1, n - 1) \in Seq(UndoSteps) /\ Len(SubSeq(undo, 1, n - 1)) = n - 1
        /\ \A i \in 1 .. n - 1 : SubSeq(undo, 1, n - 1)[i] = undo[i]
    BY <2>1
  <2>3. QED
    BY <2>2
<1>. HIDE DEF ks, later
<1>5. ASSUME NEW i \in 1 .. n PROVE ks[i + 1] = ks[i] + later[i].delta
  <2>1. CASE i \in 1 .. n - 1
    <3>0. i \in 1 .. n + 1
      OBVIOUS
    <3>1. ls[i + 1] = ls[i] + undo[i].delta
      BY <1>2, <3>0
    <3>2. i \in 1 .. n /\ i + 1 \in 1 .. n
      BY <2>1
    <3>3. QED
      BY <1>3, <1>4, <2>1, <3>1, <3>2
  <2>2. CASE i = n
    <3>1. n \in 1 .. n + 1 /\ n + 1 \in 1 .. n + 1 /\ (n + 1) + 1 = n + 2 /\ n \in 1 .. n
      OBVIOUS
    <3>2. ls[n + 1] = ls[n] + undo[n].delta /\ ls[n + 2] = ls[n + 1] + undo[n + 1].delta
      BY <1>2, <3>1
    <3>3. ls[n] \in Nat /\ undo[n].delta \in Int /\ undo[n + 1].delta \in Int
      <4>1. undo[n] \in UndoSteps /\ undo[n + 1] \in UndoSteps
        OBVIOUS
      <4>2. n \in 1 .. Len(ls)
        BY <1>2
      <4>3. QED
        BY <4>1, <4>2 DEF UndoSteps
    <3>4. len = ls[n] + both.delta
      <4>. DEFINE a == ls[n]
                  d == undo[n].delta
                  e == undo[n + 1].delta
      <4>1. len = (a + d) + e /\ both.delta = d + e
        BY <1>2, <3>2
      <4>2. a \in Int /\ d \in Int /\ e \in Int
        BY <3>3
      <4>. HIDE DEF a, d, e
      <4>3. (a + d) + e = a + (d + e)
        BY <4>2
      <4>4. len = a + both.delta
        BY <4>1, <4>3
      <4>5. QED
        BY <4>4 DEF a
    <3>5. QED
      BY <1>3, <1>4, <2>2, <3>1, <3>4
  <2>3. QED
    BY <2>1, <2>2
<1>6. Leads(ks, later, <<>>, len)
  <2>1. Len(<<>>) = 0 /\ n + 1 = n + 0 + 1
    OBVIOUS
  <2>2. \A i \in 1 .. 0 : ks[Len(ks) + 1 - i] = ks[Len(ks) - i] + <<>>[i].delta
    OBVIOUS
  <2>3. QED
    BY <1>3, <1>4, <1>5, <2>1, <2>2 DEF Leads
<1>7. Chain(later, <<>>, len)
  BY <1>3, <1>6 DEF Chain
<1>8. QED
  BY <1>4, <1>7 DEF later

\* Undo takes the place between the stacks one length back, redo one on.
LEMMA UndoneLeads ==
  ASSUME NEW undo \in Seq(UndoSteps), NEW redo \in Seq(UndoSteps), NEW len \in Nat,
         Chain(undo, redo, len), NEW n \in Nat, Len(undo) = n + 1
  PROVE  LET step == undo[n + 1]
         IN  /\ step \in UndoSteps /\ len - step.delta \in Nat
             /\ SubSeq(undo, 1, n) \in Seq(UndoSteps) /\ Len(SubSeq(undo, 1, n)) = n
             /\ Append(redo, step) \in Seq(UndoSteps)
             /\ Chain(SubSeq(undo, 1, n), Append(redo, step), len - step.delta)
<1>1. PICK ls \in Seq(Nat) : Leads(ls, undo, redo, len)
  BY DEF Chain
<1>. DEFINE step == undo[n + 1]
            less == SubSeq(undo, 1, n)
            more == Append(redo, step)
            m == Len(redo)
<1>2. step \in UndoSteps
  OBVIOUS
<1>3. /\ less \in Seq(UndoSteps) /\ Len(less) = n
      /\ \A i \in 1 .. n : less[i] = undo[i]
  <2>1. n <= Len(undo)
    OBVIOUS
  <2>2. QED
    BY <2>1
<1>4. /\ more \in Seq(UndoSteps) /\ Len(more) = m + 1 /\ m \in Nat
      /\ \A i \in 1 .. m : more[i] = redo[i]
      /\ more[m + 1] = step
  BY <1>2
<1>. HIDE DEF less, more, m
<1>5. /\ Len(ls) = n + m + 2 /\ ls[n + 2] = len
      /\ \A i \in 1 .. n + 1 : ls[i + 1] = ls[i] + undo[i].delta
      /\ \A i \in 1 .. m : ls[Len(ls) + 1 - i] = ls[Len(ls) - i] + redo[i].delta
  <2>1. n + 1 + m + 1 = n + m + 2 /\ (n + 1) + 1 = n + 2
    BY <1>4
  <2>2. QED
    BY <1>1, <2>1 DEF Leads, m
<1>6. ls[n + 1] = len - step.delta /\ len - step.delta \in Nat
  <2>1. ls[(n + 1) + 1] = ls[n + 1] + step.delta
    BY <1>5
  <2>2. (n + 1) + 1 = n + 2 /\ n + 1 \in 1 .. Len(ls)
    BY <1>4, <1>5
  <2>3. ls[n + 1] \in Nat /\ step.delta \in Int
    BY <1>2, <2>2 DEF UndoSteps
  <2>4. ls[n + 2] = ls[n + 1] + step.delta
    BY ONLY <2>1, <2>2
  <2>5. len = ls[n + 1] + step.delta
    BY ONLY <1>5, <2>4
  <2>6. QED
    BY ONLY <2>3, <2>5
<1>7. Leads(ls, less, more, len - step.delta)
  <2>0. \A i \in 1 .. n : i \in 1 .. n + 1
    OBVIOUS
  <2>1. \A i \in 1 .. n : ls[i + 1] = ls[i] + less[i].delta
    BY <1>3, <1>5, <2>0
  <2>2. ASSUME NEW i \in 1 .. m + 1
        PROVE  ls[Len(ls) + 1 - i] = ls[Len(ls) - i] + more[i].delta
    <3>1. CASE i \in 1 .. m
      BY <1>4, <1>5, <3>1
    <3>2. CASE i = m + 1
      <4>1. Len(ls) + 1 - i = n + 2 /\ Len(ls) - i = n + 1
        BY <1>4, <1>5, <3>2
      <4>2. ls[n + 2] = ls[n + 1] + step.delta
        <5>1. n + 1 \in 1 .. n + 1 /\ (n + 1) + 1 = n + 2
          OBVIOUS
        <5>2. QED
          BY <1>5, <5>1
      <4>3. QED
        BY <1>4, <3>2, <4>1, <4>2
    <3>3. QED
      BY <1>4, <3>1, <3>2
  <2>3. n + m + 2 = n + (m + 1) + 1
    BY <1>4
  <2>4. QED
    BY <1>3, <1>4, <1>5, <1>6, <2>1, <2>2, <2>3 DEF Leads
<1>8. Chain(less, more, len - step.delta)
  BY <1>7 DEF Chain
<1>9. QED
  BY <1>2, <1>3, <1>4, <1>6, <1>8 DEF less, more

\* A redo moves the place back up.
LEMMA RedoneLeads ==
  ASSUME NEW undo \in Seq(UndoSteps), NEW redo \in Seq(UndoSteps), NEW len \in Nat,
         Chain(undo, redo, len), NEW n \in Nat, Len(redo) = n + 1
  PROVE  LET step == redo[n + 1]
         IN  /\ step \in UndoSteps /\ len + step.delta \in Nat
             /\ SubSeq(redo, 1, n) \in Seq(UndoSteps)
             /\ Append(undo, step) \in Seq(UndoSteps)
             /\ Len(Append(undo, step)) = Len(undo) + 1
             /\ Chain(Append(undo, step), SubSeq(redo, 1, n), len + step.delta)
<1>1. PICK ls \in Seq(Nat) : Leads(ls, undo, redo, len)
  BY DEF Chain
<1>. DEFINE step == redo[n + 1]
            less == SubSeq(redo, 1, n)
            more == Append(undo, step)
            m == Len(undo)
<1>2. step \in UndoSteps
  OBVIOUS
<1>3. /\ less \in Seq(UndoSteps) /\ Len(less) = n
      /\ \A i \in 1 .. n : less[i] = redo[i]
  <2>1. n <= Len(redo)
    OBVIOUS
  <2>2. QED
    BY <2>1
<1>4. /\ more \in Seq(UndoSteps) /\ Len(more) = m + 1 /\ m \in Nat
      /\ \A i \in 1 .. m : more[i] = undo[i]
      /\ more[m + 1] = step
  BY <1>2
<1>. HIDE DEF less, more, m
<1>5. /\ Len(ls) = n + m + 2 /\ ls[m + 1] = len
      /\ \A i \in 1 .. m : ls[i + 1] = ls[i] + undo[i].delta
      /\ \A i \in 1 .. n + 1 : ls[Len(ls) + 1 - i] = ls[Len(ls) - i] + redo[i].delta
  <2>1. m + (n + 1) + 1 = n + m + 2
    BY <1>4
  <2>2. QED
    BY <1>1, <2>1 DEF Leads, m
<1>6. ls[m + 2] = len + step.delta /\ len + step.delta \in Nat
  <2>1. n + 1 \in 1 .. n + 1
    OBVIOUS
  <2>2. Len(ls) + 1 - (n + 1) = m + 2 /\ Len(ls) - (n + 1) = m + 1
    BY <1>4, <1>5
  <2>3. ls[m + 2] = ls[m + 1] + step.delta
    BY <1>5, <2>1, <2>2
  <2>4. m + 2 \in 1 .. Len(ls)
    BY <1>4, <1>5
  <2>5. ls[m + 2] \in Nat
    BY <2>4
  <2>6. QED
    BY <1>5, <2>3, <2>5
<1>7. Leads(ls, more, less, len + step.delta)
  <2>1. ASSUME NEW i \in 1 .. n PROVE ls[Len(ls) + 1 - i] = ls[Len(ls) - i] + less[i].delta
    <3>1. i \in 1 .. n + 1 /\ less[i] = redo[i]
      BY <1>3, <1>4
    <3>2. ls[Len(ls) + 1 - i] = ls[Len(ls) - i] + redo[i].delta
      BY ONLY <1>5, <3>1
    <3>3. QED
      BY ONLY <3>1, <3>2
  <2>2. ASSUME NEW i \in 1 .. m + 1 PROVE ls[i + 1] = ls[i] + more[i].delta
    <3>1. CASE i \in 1 .. m
      BY <1>4, <1>5, <3>1
    <3>2. CASE i = m + 1
      <4>1. i + 1 = m + 2
        BY <1>4, <3>2
      <4>2. QED
        BY <1>4, <1>5, <1>6, <3>2, <4>1
    <3>3. QED
      BY <1>4, <3>1, <3>2
  <2>3. n + m + 2 = (m + 1) + n + 1 /\ (m + 1) + 1 = m + 2
    BY <1>4
  <2>4. QED
    BY <1>3, <1>4, <1>5, <1>6, <2>1, <2>2, <2>3 DEF Leads
<1>8. Chain(more, less, len + step.delta)
  BY <1>7 DEF Chain
<1>9. QED
  BY <1>2, <1>3, <1>4, <1>6, <1>8 DEF less, more, m

\* A commit merged into the last step of the same run.
LEMMA MergedDoc ==
  ASSUME NEW t \in Docs, NEW by \in Origins, NEW delta \in Int, t.len + delta \in Nat,
         t.undo # <<>> => OneRun(t.undo[Len(t.undo)].by \cup {<<by, t.run>>})
  PROVE  LET r == Merged(Committed(t, by, delta))
         IN  /\ r \in Docs /\ r.redo = <<>>
             /\ Len(r.undo) = IF t.undo = <<>> THEN 1 ELSE Len(t.undo)
             /\ r.undo[Len(r.undo)].by =
                  IF t.undo = <<>> THEN {<<by, t.run>>}
                                   ELSE t.undo[Len(t.undo)].by \cup {<<by, t.run>>}
             /\ r.run = t.run /\ r.cursor = t.cursor /\ r.typingNext = t.typingNext
             /\ r.nibble = t.nibble
<1>. DEFINE u == Committed(t, by, delta)
            r == Merged(u)
            n == Len(t.undo)
<1>1. /\ u \in Docs /\ u.redo = <<>>
      /\ u.undo = Append(t.undo, [by |-> {<<by, t.run>>}, delta |-> delta])
      /\ Len(u.undo) = n + 1 /\ u.undo[Len(u.undo)].by = {<<by, t.run>>}
      /\ u.run = t.run /\ u.cursor = t.cursor /\ u.typingNext = t.typingNext
      /\ u.nibble = t.nibble
  BY CommittedDoc
<1>2. t.undo \in Seq(UndoSteps)
  BY DEF Docs, ViewFields
<1>. HIDE DEF u
<1>3. CASE t.undo = <<>>
  <2>1. n = 0 /\ Len(u.undo) = 1
    BY <1>1, <1>3
  <2>2. r = u
    BY <2>1 DEF Merged
  <2>3. QED
    BY <1>1, <1>3, <2>1, <2>2 DEF u
<1>4. CASE t.undo # <<>>
  <2>. DEFINE both == [by |-> u.undo[n].by \cup u.undo[n + 1].by,
                       delta |-> u.undo[n].delta + u.undo[n + 1].delta]
              later == Append(SubSeq(u.undo, 1, n - 1), both)
  <2>1. n \in Nat \ {0}
    BY <1>2, <1>4
  <2>2. u \in ViewFields /\ Chain(u.undo, u.redo, u.len) /\ u.undo \in Seq(UndoSteps)
        /\ u.len \in Nat
    BY <1>1 DEF Docs, ViewFields
  <2>3. u.undo[n] = t.undo[n] /\ u.undo[n + 1].by = {<<by, t.run>>}
    <3>1. n \in 1 .. n
      BY <2>1
    <3>2. QED
      BY <1>1, <1>2, <2>1, <3>1
  <2>4. u.undo[n] \in UndoSteps /\ u.undo[n + 1] \in UndoSteps
    <3>1. n \in 1 .. Len(u.undo) /\ n + 1 \in 1 .. Len(u.undo)
      BY <1>1, <2>1
    <3>2. QED
      BY <2>2, <3>1
  <2>5. both \in UndoSteps
    <3>1. both.by = t.undo[Len(t.undo)].by \cup {<<by, t.run>>}
      BY <2>3
    <3>2. OneRun(both.by)
      BY <1>4, <3>1
    <3>3. both \in [by : SUBSET (Origins \X Nat), delta : Int]
      BY <2>4 DEF UndoSteps
    <3>4. QED
      BY <3>2, <3>3 DEF UndoSteps
  <2>6. /\ later \in Seq(UndoSteps) /\ Len(later) = n /\ later[n] = both
        /\ Chain(later, <<>>, u.len)
    <3>1. both.delta = u.undo[n].delta + u.undo[n + 1].delta
      OBVIOUS
    <3>2. Chain(u.undo, <<>>, u.len)
      BY <1>1, <2>2
    <3>. HIDE DEF n, both
    <3>3. LET lat == Append(SubSeq(u.undo, 1, n - 1), both)
          IN  /\ lat \in Seq(UndoSteps) /\ Len(lat) = n /\ lat[n] = both
              /\ Chain(lat, <<>>, u.len)
      BY <1>1, <2>1, <2>2, <2>5, <3>1, <3>2, MergedLeads
    <3>4. QED
      BY <3>3
  <2>7. Len(u.undo) - 1 = n /\ ~ (Len(u.undo) < 2)
    BY <1>1, <2>1
  <2>8. both.by = t.undo[n].by \cup {<<by, t.run>>}
    BY <2>3
  <2>9. /\ r = [u EXCEPT !.undo = later,
                         !.savedDepth = CASE @ = n     -> Unreachable
                                          [] @ = n + 1 -> n
                                          [] OTHER     -> @]
    <3>. HIDE DEF n
    <3>1. QED
      BY <2>7 DEF Merged
  <2>. HIDE DEF later, both
  <2>10. /\ r.undo = later /\ r.redo = <<>> /\ r.len = u.len
         /\ r.run = t.run /\ r.cursor = t.cursor /\ r.typingNext = t.typingNext
         /\ r.nibble = t.nibble
    <3>. HIDE DEF r, n
    <3>1. QED
      BY <1>1, <2>2, <2>9 DEF ViewFields
  <2>11. r \in ViewFields
    <3>1. (CASE u.savedDepth = n     -> Unreachable
             [] u.savedDepth = n + 1 -> n
             [] OTHER                -> u.savedDepth) \in Int
      BY <2>1, <2>2 DEF ViewFields, Unreachable
    <3>. HIDE DEF r, n
    <3>2. QED
      BY <2>2, <2>6, <2>9, <3>1 DEF ViewFields
  <2>. HIDE DEF r
  <2>12. r \in Docs
    BY <2>6, <2>10, <2>11 DEF Docs
  <2>13. r.undo[Len(r.undo)].by = t.undo[n].by \cup {<<by, t.run>>} /\ Len(r.undo) = n
    BY <2>6, <2>8, <2>10
  <2>14. QED
    BY <1>4, <2>10, <2>12, <2>13 DEF r, u
<1>5. QED
  BY <1>3, <1>4

\* A step may always take a deletion, a paste, a checksum or a replacement.
LEMMA JoinsHarmless ==
  ASSUME NEW by, NEW who \in {"deletion", "paste", "checksum", "replacement"}, NEW r
  PROVE  /\ OneRun(by) => OneRun(by \cup {<<who, r>>})
         /\ \A s : Joins(by, s) => Joins(by \cup {<<who, r>>}, s)
         /\ \A s : Joins({<<who, r>>}, s)
<1>. DEFINE both == by \cup {<<who, r>>}
<1>1. \A b \in both : b \in by \/ b[1] = who
  OBVIOUS
<1>2. who \notin {"inspector", "fill"} /\ who # "typing"
  OBVIOUS
<1>. HIDE DEF both
<1>3. \A s : Joins(by, s) => Joins(both, s)
  BY <1>1, <1>2 DEF Joins
<1>4. NoTyping(by) => NoTyping(both)
  BY <1>1, <1>2 DEF NoTyping
<1>5. \A s : Joins({<<who, r>>}, s)
  BY <1>2 DEF Joins
<1>6. QED
  BY <1>3, <1>4, <1>5 DEF OneRun, both

\* The undo step a run of typing goes on with may take its next edit.
LEMMA JoinsTyping ==
  ASSUME NEW by, NEW r \in Nat
  PROVE  /\ Joins(by, r) => Joins(by \cup {<<"typing", r>>}, r)
         /\ Joins({<<"typing", r>>}, r)
         /\ Joins(by, r) => OneRun(by)
BY DEF Joins, OneRun

-----------------------------------------------------------------------------
(* The grid. *)

\* What r may be after one operation on the grid of t.
Follows(r, t) == r \in Views /\ Len(r.undo) <= Len(t.undo) + 1

\* An operation that ends the typing and edits nothing.
Still(r, t) == r \in Docs /\ Quiet(r) /\ r.undo = t.undo

\* The fields of a document.
LEMMA ViewTypes ==
  ASSUME NEW t \in Docs
  PROVE  /\ t \in ViewFields /\ Chain(t.undo, t.redo, t.len)
         /\ t.len \in Nat /\ t.cursor \in Nat /\ t.run \in Nat
         /\ t.anchor \in Nat \cup {None} /\ t.typingNext \in Nat \cup {None}
         /\ t.undo \in Seq(UndoSteps) /\ t.redo \in Seq(UndoSteps) /\ Len(t.undo) \in Nat
         /\ t.nibble \in BOOLEAN /\ t.insertMode \in BOOLEAN /\ t.readOnly \in BOOLEAN
BY DEF Docs, ViewFields

\* What leaves length and stacks alone leaves a document.
LEMMA SameDoc ==
  ASSUME NEW t \in Docs, NEW r \in ViewFields,
         r.undo = t.undo, r.redo = t.redo, r.len = t.len
  PROVE  r \in Docs
BY DEF Docs

LEMMA StillFollows ==
  ASSUME NEW t \in Docs, NEW r, Still(r, t)
  PROVE  Follows(r, t)
BY QuietViews, ViewTypes DEF Still, Follows

LEMMA EndTypingStill ==
  ASSUME NEW t \in Docs
  PROVE  /\ Still(EndTyping(t), t)
         /\ EndTyping(t).redo = t.redo /\ EndTyping(t).len = t.len
         /\ EndTyping(t).cursor = t.cursor /\ EndTyping(t).run = t.run
         /\ EndTyping(t).savedDepth = t.savedDepth
<1>. DEFINE r == EndTyping(t)
<1>1. t \in ViewFields
  BY ViewTypes
<1>2. r \in ViewFields /\ Quiet(r)
  BY <1>1 DEF EndTyping, ViewFields, Quiet
<1>3. /\ r.undo = t.undo /\ r.redo = t.redo /\ r.len = t.len /\ r.cursor = t.cursor
      /\ r.run = t.run /\ r.savedDepth = t.savedDepth
  BY <1>1 DEF EndTyping, ViewFields
<1>. HIDE DEF r
<1>4. Still(r, t)
  BY <1>2, <1>3, SameDoc DEF Still
<1>5. QED
  BY <1>3, <1>4 DEF r

\* Cursor, selection and pane belong to no document.
LEMMA PlacedDoc ==
  ASSUME NEW t \in Docs, NEW cursor \in Nat, NEW anchor \in Nat \cup {None}
  PROVE  LET r == [t EXCEPT !.anchor = anchor, !.cursor = cursor]
         IN  r \in Docs /\ r.undo = t.undo
<1>. DEFINE r == [t EXCEPT !.anchor = anchor, !.cursor = cursor]
<1>1. t \in ViewFields
  BY ViewTypes
<1>2. r \in ViewFields
  BY <1>1 DEF ViewFields
<1>3. r.undo = t.undo /\ r.redo = t.redo /\ r.len = t.len
  BY <1>1 DEF ViewFields
<1>. HIDE DEF r
<1>4. r \in Docs
  BY <1>2, <1>3, SameDoc
<1>5. QED
  BY <1>3, <1>4 DEF r

LEMMA LesserNat ==
  ASSUME NEW a \in Nat, NEW b \in Nat
  PROVE  Lesser(a, b) \in Nat /\ Greater(a, b) \in Nat /\ Without(a, b) \in Nat
BY DEF Lesser, Greater, Without

LEMMA PlacedStill ==
  ASSUME NEW t \in Docs, NEW cursor \in Nat, NEW anchor \in Nat \cup {None}
  PROVE  Still(EndTyping([t EXCEPT !.anchor = anchor, !.cursor = cursor]), t)
<1>. DEFINE r == [t EXCEPT !.anchor = anchor, !.cursor = cursor]
<1>1. r \in Docs /\ r.undo = t.undo
  BY PlacedDoc
<1>. HIDE DEF r
<1>2. Still(EndTyping(r), t)
  BY <1>1, EndTypingStill DEF Still
<1>3. QED
  BY <1>2 DEF r

LEMMA GotoStill ==
  ASSUME NEW t \in Docs, NEW at \in Nat
  PROVE  Still(Goto(t, at), t)
<1>1. t.len \in Nat /\ t \in ViewFields
  BY ViewTypes
<1>2. Lesser(at, t.len) \in Nat /\ None \in Nat \cup {None}
  BY <1>1, LesserNat
<1>3. [t EXCEPT !.cursor = Lesser(at, t.len), !.anchor = None]
        = [t EXCEPT !.anchor = None, !.cursor = Lesser(at, t.len)]
  BY <1>1 DEF ViewFields
<1>4. QED
  BY <1>2, <1>3, PlacedStill DEF Goto

LEMMA SelectStill ==
  ASSUME NEW t \in Docs, NEW from \in Nat, NEW to \in Nat
  PROVE  Still(SelectRange(t, from, to), t) /\ Still(SelectAll(t), t)
<1>1. t.len \in Nat
  BY ViewTypes
<1>2. Lesser(from, t.len) \in Nat /\ Lesser(to, t.len) \in Nat
  BY <1>1, LesserNat
<1>3. Still(SelectRange(t, from, to), t)
  BY <1>2, PlacedStill DEF SelectRange
<1>4. Still(SelectAll(t), t)
  BY <1>1, PlacedStill DEF SelectAll
<1>5. QED
  BY <1>3, <1>4

LEMMA MoveStill ==
  ASSUME NEW t \in Docs, NEW to \in Nat, NEW extend \in BOOLEAN
  PROVE  Still(MoveCursor(t, to, extend), t)
<1>. DEFINE anchor == IF ~ extend THEN None ELSE IF t.anchor = None THEN t.cursor ELSE t.anchor
<1>1. anchor \in Nat \cup {None}
  BY ViewTypes
<1>2. MoveCursor(t, to, extend) = EndTyping([t EXCEPT !.anchor = anchor, !.cursor = to])
  BY DEF MoveCursor
<1>. HIDE DEF anchor
<1>3. QED
  BY <1>1, <1>2, PlacedStill

LEMMA BoundaryStill ==
  ASSUME NEW t, NEW r, Still(r, t)
  PROVE  Still(Boundary(r), t)
<1>. DEFINE u == [r EXCEPT !.run = @ + 1]
<1>1. r \in Docs /\ Quiet(r) /\ r.undo = t.undo /\ r \in ViewFields
  BY ViewTypes DEF Still
<1>2. u \in ViewFields
  <2>1. r.run + 1 \in Nat
    BY <1>1 DEF ViewFields
  <2>2. QED
    BY <1>1, <2>1 DEF ViewFields
<1>3. u.undo = r.undo /\ u.redo = r.redo /\ u.len = r.len /\ u.typingNext = r.typingNext
      /\ u.nibble = r.nibble
  BY <1>1 DEF ViewFields
<1>4. Boundary(r) = u \/ Boundary(r) = r
  BY DEF Boundary
<1>. HIDE DEF u
<1>5. u \in Docs
  BY <1>1, <1>2, <1>3, SameDoc
<1>6. Still(u, t)
  BY <1>1, <1>3, <1>5 DEF Still, Quiet
<1>7. QED
  BY <1>4, <1>6

LEMMA KeyTargetsNat ==
  ASSUME NEW t \in Docs
  PROVE  KeyTargets(t) \subseteq Nat
<1>. DEFINE c == t.cursor
            row == c - (c % Columns)
<1>1. c \in Nat /\ t.len \in Nat /\ Columns \in Nat \ {0}
  BY ViewTypes, ColumnsAssumption
<1>2. c % Columns \in 0 .. Columns - 1 /\ c % Columns <= c
  <2>. HIDE DEF c
  <2>1. QED
    BY <1>1
<1>3. row \in Nat
  BY <1>1, <1>2
<1>4. c + 1 \in Nat /\ c + Columns \in Nat /\ row + Columns - 1 \in Nat /\ 1 \in Nat /\ 0 \in Nat
  BY <1>1, <1>3
<1>. HIDE DEF c, row
<1>5. /\ Without(c, 1) \in Nat /\ Lesser(c + 1, t.len) \in Nat /\ Without(c, Columns) \in Nat
      /\ Lesser(c + Columns, t.len) \in Nat /\ Lesser(row + Columns - 1, t.len) \in Nat
  BY <1>1, <1>4, LesserNat
<1>6. QED
  BY <1>1, <1>3, <1>4, <1>5 DEF KeyTargets, c, row

\* What an edit that does not end the typing leaves a run to go on with.
LEMMA TypingOn ==
  ASSUME NEW r \in Docs, r.undo # <<>>, Joins(r.undo[Len(r.undo)].by, r.run),
         NEW q \in ViewFields, q.undo = r.undo, q.redo = r.redo, q.len = r.len, q.run = r.run
  PROVE  q \in Views
<1>1. q \in Docs
  BY ViewTypes DEF Docs
<1>2. QED
  BY <1>1 DEF Views, Continues

LEMMA CursorDoc ==
  ASSUME NEW t \in Docs, NEW cursor \in Nat
  PROVE  LET r == [t EXCEPT !.cursor = cursor]
         IN  r \in Docs /\ r.undo = t.undo
<1>. DEFINE r == [t EXCEPT !.cursor = cursor]
<1>1. t \in ViewFields
  BY ViewTypes
<1>2. r \in ViewFields
  BY <1>1 DEF ViewFields
<1>3. r.undo = t.undo /\ r.redo = t.redo /\ r.len = t.len
  BY <1>1 DEF ViewFields
<1>. HIDE DEF r
<1>4. QED
  BY <1>2, <1>3, SameDoc DEF r

LEMMA AnchorView ==
  ASSUME NEW t \in Views
  PROVE  LET u == [t EXCEPT !.anchor = None]
         IN  /\ u \in Views /\ u.undo = t.undo /\ u.cursor = t.cursor /\ u.len = t.len
             /\ u.nibble = t.nibble
<1>. DEFINE u == [t EXCEPT !.anchor = None]
<1>1. t \in ViewFields /\ t \in Docs /\ Continues(t)
  BY ViewTypes DEF Views
<1>2. u \in ViewFields
  BY <1>1 DEF ViewFields
<1>3. /\ u.undo = t.undo /\ u.redo = t.redo /\ u.len = t.len /\ u.cursor = t.cursor
      /\ u.typingNext = t.typingNext /\ u.nibble = t.nibble /\ u.run = t.run
  BY <1>1 DEF ViewFields
<1>. HIDE DEF u
<1>4. u \in Views
  BY <1>1, <1>2, <1>3, SameDoc DEF Views, Continues
<1>5. QED
  BY <1>3, <1>4 DEF u

\* Typing joins the step before it when it goes on where that ended, and is a
\* step of its own otherwise.
LEMMA TypedDoc ==
  ASSUME NEW t \in Views, NEW delta \in Int, t.len + delta \in Nat, NEW next \in Nat
  PROVE  LET r == CommitTyping(Committed(t, "typing", delta), next)
         IN  /\ r \in Docs /\ r.undo # <<>> /\ Len(r.undo) <= Len(t.undo) + 1
             /\ Joins(r.undo[Len(r.undo)].by, r.run)
<1>. DEFINE u == Committed(t, "typing", delta)
            w == Merged(u)
<1>1. t \in Docs /\ Continues(t) /\ t.cursor \in Nat /\ t.run \in Nat /\ Len(t.undo) \in Nat
  BY ViewTypes DEF Views
<1>2. "typing" \in Origins
  BY DEF Origins
<1>3. /\ u \in Docs /\ Len(u.undo) = Len(t.undo) + 1
      /\ u.undo[Len(u.undo)].by = {<<"typing", t.run>>}
      /\ u.run = t.run /\ u.cursor = t.cursor /\ u.typingNext = t.typingNext
  BY <1>1, <1>2, CommittedDoc
<1>4. /\ u.undo # <<>> /\ Len(u.undo) <= Len(t.undo) + 1
      /\ Joins(u.undo[Len(u.undo)].by, u.run)
  <2>. HIDE DEF u
  <2>1. Len(<<>>) = 0
    OBVIOUS
  <2>2. Joins({<<"typing", t.run>>}, t.run)
    BY <1>1, JoinsTyping
  <2>3. u.undo # <<>>
    BY <1>1, <1>3, <2>1
  <2>4. QED
    BY <1>1, <1>3, <2>2, <2>3
<1>5. ASSUME t.typingNext = t.cursor
      PROVE  /\ w \in Docs /\ w.undo # <<>> /\ Len(w.undo) <= Len(t.undo) + 1
             /\ Joins(w.undo[Len(w.undo)].by, w.run)
  <2>1. t.typingNext # None
    BY <1>1, <1>5 DEF None
  <2>2. t.undo # <<>> /\ Joins(t.undo[Len(t.undo)].by, t.run)
    BY <1>1, <2>1 DEF Continues
  <2>. DEFINE both == t.undo[Len(t.undo)].by \cup {<<"typing", t.run>>}
  <2>3. Joins(both, t.run) /\ OneRun(both)
    BY <1>1, <2>2, JoinsTyping
  <2>4. /\ w \in Docs /\ Len(w.undo) = Len(t.undo) /\ w.undo[Len(w.undo)].by = both
        /\ w.run = t.run
    BY <1>1, <1>2, <2>2, <2>3, MergedDoc
  <2>. HIDE DEF both, w
  <2>5. w.undo # <<>>
    BY <1>1, <2>2, <2>4, ViewTypes
  <2>6. QED
    BY <1>1, <2>3, <2>4, <2>5
<1>. HIDE DEF u, w
<1>6. PICK v : /\ v = IF u.typingNext = u.cursor THEN w ELSE u
               /\ CommitTyping(u, next) = [v EXCEPT !.typingNext = next]
  BY DEF CommitTyping, w
<1>7. /\ v \in Docs /\ v.undo # <<>> /\ Len(v.undo) <= Len(t.undo) + 1
      /\ Joins(v.undo[Len(v.undo)].by, v.run)
  BY <1>3, <1>4, <1>5, <1>6
<1>. DEFINE r == [v EXCEPT !.typingNext = next]
<1>8. v \in ViewFields
  BY <1>7, ViewTypes
<1>9. r \in ViewFields
  BY <1>8 DEF ViewFields
<1>10. r.undo = v.undo /\ r.redo = v.redo /\ r.len = v.len /\ r.run = v.run
  BY <1>8 DEF ViewFields
<1>. HIDE DEF r
<1>11. r \in Docs
  BY <1>7, <1>9, <1>10, SameDoc
<1>12. CommitTyping(u, next) = r
  BY <1>6 DEF r
<1>13. QED
  BY <1>7, <1>10, <1>11, <1>12 DEF u

\* The first digit of a byte (hexview.rs, type_hex_digit).
LEMMA HighNibbleFollows ==
  ASSUME NEW t \in Views
  PROVE  Follows(HighNibble(t), t)
<1>1. t \in Docs /\ t.cursor \in Nat /\ t.len \in Nat /\ Len(t.undo) \in Nat
  BY ViewTypes DEF Views
<1>2. CASE ~ CanOverwrite(t, t.cursor, 1)
  BY <1>1, <1>2 DEF HighNibble, Follows
<1>3. CASE CanOverwrite(t, t.cursor, 1)
  <2>1. PICK delta \in Nat :
          (IF t.insertMode THEN Inserted(t, "typing", t.cursor, 1)
                           ELSE Overwritten(t, "typing", t.cursor, 1))
            = Committed(t, "typing", delta)
    <3>0. t.cursor + 1 \in Nat
      BY <1>1
    <3>1. Without(t.cursor + 1, t.len) \in Nat
      BY <1>1, <3>0, LesserNat
    <3>2. QED
      BY <3>1 DEF Inserted, Overwritten
  <2>. DEFINE r == CommitTyping(Committed(t, "typing", delta), t.cursor)
              q == [r EXCEPT !.nibble = TRUE]
  <2>2. t.len + delta \in Nat /\ delta \in Int
    BY <1>1
  <2>3. /\ r \in Docs /\ r.undo # <<>> /\ Len(r.undo) <= Len(t.undo) + 1
        /\ Joins(r.undo[Len(r.undo)].by, r.run)
    BY <1>1, <2>2, TypedDoc
  <2>. HIDE DEF r
  <2>4. r \in ViewFields
    BY <2>3, ViewTypes
  <2>5. q \in ViewFields
    BY <2>4 DEF ViewFields
  <2>6. q.undo = r.undo /\ q.redo = r.redo /\ q.len = r.len /\ q.run = r.run
    BY <2>4 DEF ViewFields
  <2>. HIDE DEF q
  <2>7. q \in Views
    BY <2>3, <2>5, <2>6, TypingOn
  <2>8. HighNibble(t) = q
    BY <1>3, <2>1 DEF HighNibble, q, r
  <2>9. QED
    BY <2>3, <2>6, <2>7, <2>8 DEF Follows
<1>4. QED
  BY <1>2, <1>3

\* The second digit of a byte.
LEMMA LowNibbleFollows ==
  ASSUME NEW t \in Views, t.nibble
  PROVE  Follows(LowNibble(t), t)
<1>1. /\ t \in Docs /\ Continues(t) /\ t.cursor \in Nat /\ t.len \in Nat /\ t.run \in Nat
      /\ Len(t.undo) \in Nat
  BY ViewTypes DEF Views
<1>2. t.undo # <<>> /\ Joins(t.undo[Len(t.undo)].by, t.run)
  BY <1>1 DEF Continues
<1>. DEFINE delta == Without(t.cursor + 1, t.len)
            both == t.undo[Len(t.undo)].by \cup {<<"typing", t.run>>}
            w == Merged(Committed(t, "typing", delta))
            q == [w EXCEPT !.nibble = FALSE, !.cursor = @ + 1, !.typingNext = t.cursor + 1]
<1>3. delta \in Int /\ t.len + delta \in Nat /\ "typing" \in Origins
  <2>1. t.cursor + 1 \in Nat
    BY <1>1
  <2>2. delta \in Nat
    BY <1>1, <2>1, LesserNat
  <2>. HIDE DEF delta
  <2>3. QED
    BY <1>1, <2>2 DEF Origins
<1>4. Joins(both, t.run) /\ OneRun(both)
  BY <1>1, <1>2, JoinsTyping
<1>5. LowNibble(t) = q
  BY DEF LowNibble, Overwritten
<1>. HIDE DEF delta
<1>6. /\ w \in Docs /\ Len(w.undo) = Len(t.undo) /\ w.undo[Len(w.undo)].by = both
      /\ w.run = t.run
  BY <1>1, <1>2, <1>3, <1>4, MergedDoc
<1>. HIDE DEF w, both
<1>7. w \in ViewFields /\ w.undo # <<>> /\ w.cursor + 1 \in Nat /\ t.cursor + 1 \in Nat
  BY <1>1, <1>2, <1>6, ViewTypes
<1>8. q \in ViewFields
  BY <1>7 DEF ViewFields
<1>9. q.undo = w.undo /\ q.redo = w.redo /\ q.len = w.len /\ q.run = w.run
  BY <1>7 DEF ViewFields
<1>. HIDE DEF q
<1>10. q \in Views
  BY <1>4, <1>6, <1>7, <1>8, <1>9, TypingOn
<1>11. QED
  BY <1>1, <1>5, <1>6, <1>9, <1>10 DEF Follows

LEMMA TypeHexDigitFollows ==
  ASSUME NEW t \in Views
  PROVE  Follows(TypeHexDigit(t), t)
<1>1. t \in Docs /\ Len(t.undo) \in Nat
  BY ViewTypes DEF Views
<1>. DEFINE u == [t EXCEPT !.anchor = None]
<1>2. u \in Views /\ u.undo = t.undo /\ u.nibble = t.nibble
  BY AnchorView
<1>3. TypeHexDigit(t) = IF t.readOnly THEN t ELSE IF t.nibble THEN LowNibble(u) ELSE HighNibble(u)
  BY DEF TypeHexDigit
<1>. HIDE DEF u
<1>4. t.nibble => Follows(LowNibble(u), u)
  BY <1>2, LowNibbleFollows
<1>5. Follows(HighNibble(u), u)
  BY <1>2, HighNibbleFollows
<1>6. QED
  BY <1>1, <1>2, <1>3, <1>4, <1>5 DEF Follows

\* A character typed in the text pane (hexview.rs, type_text).
LEMMA TypeTextFollows ==
  ASSUME NEW t \in Views, NEW n \in Nat
  PROVE  Follows(TypeText(t, n), t)
<1>. DEFINE u == [t EXCEPT !.anchor = None]
            c == t.cursor
<1>1. /\ u \in Views /\ u.undo = t.undo /\ u.cursor = t.cursor /\ u.len = t.len
      /\ t \in Docs /\ t.cursor \in Nat /\ t.len \in Nat /\ Len(t.undo) \in Nat
  BY AnchorView, ViewTypes DEF Views
<1>2. CASE t.readOnly
  BY <1>1, <1>2 DEF TypeText, Follows
<1>3. CASE ~ t.readOnly /\ ~ CanInsert(u, c, n)
  <2>1. TypeText(t, n) = u
    BY <1>3 DEF TypeText
  <2>. HIDE DEF u
  <2>2. QED
    BY <1>1, <2>1 DEF Follows
<1>4. CASE ~ t.readOnly /\ CanInsert(u, c, n)
  <2>1. PICK delta \in Nat :
          (IF t.insertMode THEN Inserted(u, "typing", c, n)
                           ELSE Overwritten(u, "typing", c, n))
            = Committed(u, "typing", delta)
    <3>1. c + n \in Nat
      BY <1>1
    <3>2. Without(c + n, u.len) \in Nat
      BY <1>1, <3>1, LesserNat
    <3>3. QED
      BY <3>2 DEF Inserted, Overwritten
  <2>. DEFINE r == CommitTyping(Committed(u, "typing", delta), c + n)
              q == [r EXCEPT !.cursor = c + n]
  <2>2. TypeText(t, n) = q
    BY <1>4, <2>1 DEF TypeText
  <2>3. c + n \in Nat /\ u.len + delta \in Nat /\ delta \in Int
    BY <1>1
  <2>. HIDE DEF u, c
  <2>4. /\ r \in Docs /\ r.undo # <<>> /\ Len(r.undo) <= Len(u.undo) + 1
        /\ Joins(r.undo[Len(r.undo)].by, r.run)
    BY <1>1, <2>3, TypedDoc
  <2>. HIDE DEF r
  <2>5. r \in ViewFields
    BY <2>4, ViewTypes
  <2>6. q \in ViewFields
    BY <2>3, <2>5 DEF ViewFields
  <2>7. q.undo = r.undo /\ q.redo = r.redo /\ q.len = r.len /\ q.run = r.run
    BY <2>5 DEF ViewFields
  <2>. HIDE DEF q
  <2>8. q \in Views
    BY <2>4, <2>6, <2>7, TypingOn
  <2>9. QED
    BY <1>1, <2>2, <2>4, <2>7, <2>8 DEF Follows
<1>5. QED
  BY <1>2, <1>3, <1>4

\* A deletion of a range, by a key or before a paste.
LEMMA DeleteRangeFollows ==
  ASSUME NEW t \in Views, NEW by \in {"deletion", "paste"}, NEW from \in Nat, NEW to \in Nat
  PROVE  Follows(DeleteRange(t, by, from, to), t)
<1>1. t \in Docs /\ t.len \in Nat /\ Len(t.undo) \in Nat
  BY ViewTypes DEF Views
<1>2. CASE t.readOnly \/ ~ CanDelete(t, from, to - from)
  BY <1>1, <1>2 DEF DeleteRange, Follows
<1>3. CASE ~ (t.readOnly \/ ~ CanDelete(t, from, to - from))
  <2>. DEFINE u == Committed(t, by, -(to - from))
              q == EndTyping([u EXCEPT !.anchor = None, !.cursor = from])
  <2>1. -(to - from) \in Int /\ t.len + -(to - from) \in Nat /\ by \in Origins
    BY <1>1, <1>3 DEF CanDelete, Origins
  <2>2. u \in Docs /\ Len(u.undo) = Len(t.undo) + 1
    BY <1>1, <2>1, CommittedDoc
  <2>3. DeleteRange(t, by, from, to) = EndTyping([u EXCEPT !.cursor = from, !.anchor = None])
    BY <1>3 DEF DeleteRange, Deleted
  <2>. HIDE DEF u
  <2>4. [u EXCEPT !.cursor = from, !.anchor = None] = [u EXCEPT !.anchor = None, !.cursor = from]
    BY <2>2, ViewTypes DEF ViewFields
  <2>5. Still(q, u)
    <3>1. None \in Nat \cup {None}
      OBVIOUS
    <3>2. QED
      BY <2>2, <3>1, PlacedStill
  <2>6. DeleteRange(t, by, from, to) = q
    BY <2>3, <2>4
  <2>. HIDE DEF q
  <2>7. q \in Views /\ q.undo = u.undo
    BY <2>5, QuietViews DEF Still
  <2>8. QED
    BY <1>1, <2>2, <2>6, <2>7 DEF Follows
<1>4. QED
  BY <1>2, <1>3

LEMMA SelectionNat ==
  ASSUME NEW t \in Docs, Selected(t)
  PROVE  SelStart(t) \in Nat /\ SelEnd(t) \in Nat
<1>1. t.anchor \in Nat /\ t.cursor \in Nat
  BY ViewTypes DEF Selected
<1>2. QED
  BY <1>1, LesserNat DEF SelStart, SelEnd

\* The deletion of what is pasted over and the insertion are one step.
LEMMA PasteFollows ==
  ASSUME NEW t \in Views, NEW n \in Nat, NEW inserting \in BOOLEAN
  PROVE  Follows(Paste(t, n, inserting), t)
<1>. DEFINE cut == IF Selected(t) THEN DeleteRange(t, "paste", SelStart(t), SelEnd(t)) ELSE t
            c == cut.cursor
            u == IF Selected(t)    THEN Merged(Inserted(cut, "paste", c, n))
                 ELSE IF inserting THEN Inserted(cut, "paste", c, n)
                 ELSE Overwritten(cut, "paste", c, n)
            q == EndTyping([u EXCEPT !.cursor = c + n])
<1>1. t \in Docs /\ Len(t.undo) \in Nat
  BY ViewTypes DEF Views
<1>2. Follows(t, t)
  BY <1>1 DEF Follows
<1>3. Follows(cut, t)
  BY <1>1, <1>2, SelectionNat, DeleteRangeFollows
<1>4. /\ cut \in Docs /\ cut \in Views /\ Len(cut.undo) \in Nat /\ cut.len \in Nat /\ c \in Nat
      /\ Len(cut.undo) <= Len(t.undo) + 1
      /\ cut.undo \in Seq(UndoSteps) /\ cut.run \in Nat
  BY <1>3, ViewTypes DEF Views, Follows
<1>5. Paste(t, n, inserting) = IF t.readOnly THEN t ELSE IF ~ CanInsert(cut, c, n) THEN cut ELSE q
  BY DEF Paste
<1>6. ~ Selected(t) => cut = t
  OBVIOUS
<1>. HIDE DEF cut, c
<1>7. n \in Int /\ cut.len + n \in Nat /\ "paste" \in Origins /\ c + n \in Nat
  BY <1>4 DEF Origins
<1>8. Without(c + n, cut.len) \in Int /\ cut.len + Without(c + n, cut.len) \in Nat
  <2>1. Without(c + n, cut.len) \in Nat
    BY <1>4, <1>7, LesserNat
  <2>2. QED
    BY <1>4, <2>1
<1>9. u \in Docs /\ Len(u.undo) <= Len(t.undo) + 1
  <2>1. CASE Selected(t)
    <3>. DEFINE w == Merged(Committed(cut, "paste", n))
    <3>1. ASSUME cut.undo # <<>>
          PROVE  OneRun(cut.undo[Len(cut.undo)].by \cup {<<"paste", cut.run>>})
      <4>1. cut.undo[Len(cut.undo)] \in UndoSteps
        BY <1>4, <3>1
      <4>2. OneRun(cut.undo[Len(cut.undo)].by)
        BY <4>1 DEF UndoSteps
      <4>3. QED
        BY <4>2, JoinsHarmless
    <3>2. w \in Docs /\ Len(w.undo) = IF cut.undo = <<>> THEN 1 ELSE Len(cut.undo)
      BY <1>4, <1>7, <3>1, MergedDoc
    <3>3. u = w
      BY <2>1 DEF Inserted
    <3>. HIDE DEF u, w
    <3>4. QED
      BY <1>1, <1>4, <3>2, <3>3
  <2>2. CASE ~ Selected(t)
    <3>1. PICK delta \in Int : cut.len + delta \in Nat /\ u = Committed(cut, "paste", delta)
      BY <1>7, <1>8, <2>2 DEF Inserted, Overwritten
    <3>. HIDE DEF u
    <3>2. u \in Docs /\ Len(u.undo) = Len(cut.undo) + 1
      BY <1>4, <1>7, <3>1, CommittedDoc
    <3>3. QED
      BY <1>6, <2>2, <3>2, <1>1
  <2>3. QED
    BY <2>1, <2>2
<1>. HIDE DEF u
<1>10. Follows(q, t)
  <2>. DEFINE v == [u EXCEPT !.cursor = c + n]
  <2>1. v \in Docs /\ v.undo = u.undo
    BY <1>7, <1>9, CursorDoc
  <2>. HIDE DEF v
  <2>2. Still(EndTyping(v), v)
    BY <2>1, EndTypingStill
  <2>3. EndTyping(v) \in Views /\ EndTyping(v).undo = u.undo
    BY <2>1, <2>2, QuietViews DEF Still
  <2>4. q = EndTyping(v)
    BY DEF v
  <2>. HIDE DEF q
  <2>5. QED
    BY <1>9, <2>3, <2>4 DEF Follows
<1>. HIDE DEF q
<1>11. QED
  BY <1>2, <1>3, <1>5, <1>10

\* Backspace, Delete and cut.
LEMMA DeletionsFollow ==
  ASSUME NEW t \in Views
  PROVE  Follows(Backspace(t), t) /\ Follows(DeleteKey(t), t) /\ Follows(Cut(t), t)
<1>1. t \in Docs /\ Len(t.undo) \in Nat /\ t.cursor \in Nat
  BY ViewTypes DEF Views
<1>2. Follows(t, t)
  BY <1>1 DEF Follows
<1>3. Selected(t) => Follows(DeleteRange(t, "deletion", SelStart(t), SelEnd(t)), t)
  BY <1>1, SelectionNat, DeleteRangeFollows
<1>4. t.cursor + 1 \in Nat /\ (t.cursor # 0 => t.cursor - 1 \in Nat)
  BY <1>1
<1>5. Follows(DeleteRange(t, "deletion", t.cursor, t.cursor + 1), t)
  BY <1>1, <1>4, DeleteRangeFollows
<1>6. t.cursor # 0 =>
        /\ Follows(DeleteRange(t, "deletion", t.cursor - 1, t.cursor), t)
        /\ Follows(MoveCursor(t, t.cursor - 1, FALSE), t)
  BY <1>1, <1>4, DeleteRangeFollows, MoveStill, StillFollows
<1>7. QED
  BY <1>2, <1>3, <1>5, <1>6 DEF Backspace, DeleteKey, Cut

LEMMA SwitchPaneFollows ==
  ASSUME NEW t \in Views
  PROVE  Follows(SwitchPane(t), t)
<1>. DEFINE u == [t EXCEPT !.pane = IF @ = "hex" THEN "text" ELSE "hex"]
<1>1. t \in Docs /\ t \in ViewFields
  BY ViewTypes DEF Views
<1>2. u \in ViewFields
  BY <1>1 DEF ViewFields
<1>3. u.undo = t.undo /\ u.redo = t.redo /\ u.len = t.len
  BY <1>1 DEF ViewFields
<1>4. SwitchPane(t) = EndTyping(u)
  BY DEF SwitchPane
<1>. HIDE DEF u
<1>5. u \in Docs
  BY <1>1, <1>2, <1>3, SameDoc
<1>6. Still(EndTyping(u), t)
  BY <1>3, <1>5, EndTypingStill DEF Still
<1>7. QED
  BY <1>1, <1>4, <1>6, StillFollows

\* A commit between two runs of typing stays there.
LEMMA QuietCommit ==
  ASSUME NEW t \in Docs, Quiet(t), NEW by \in Origins, NEW delta \in Nat
  PROVE  Follows(Committed(t, by, delta), t)
<1>. DEFINE r == Committed(t, by, delta)
<1>1. delta \in Int /\ t.len + delta \in Nat /\ Len(t.undo) \in Nat
  BY ViewTypes
<1>2. /\ r \in Docs /\ Len(r.undo) = Len(t.undo) + 1
      /\ r.typingNext = t.typingNext /\ r.nibble = t.nibble
  BY <1>1, CommittedDoc
<1>. HIDE DEF r
<1>3. r \in Views
  BY <1>2, QuietViews DEF Quiet
<1>4. QED
  BY <1>1, <1>2, <1>3 DEF Follows, r

\* A checksum and a replacement leave a run of typing as it was.
LEMMA HarmlessCommit ==
  ASSUME NEW t \in Views, NEW by \in {"checksum", "replacement"}, NEW delta \in Int,
         t.len + delta \in Nat
  PROVE  /\ Follows(Committed(t, by, delta), t)
         /\ Follows(Merged(Committed(t, by, delta)), t)
<1>1. /\ t \in Docs /\ t.run \in Nat /\ Len(t.undo) \in Nat /\ t.undo \in Seq(UndoSteps)
      /\ by \in Origins /\ Continues(t)
  BY ViewTypes DEF Views, Origins
<1>2. Joins({<<by, t.run>>}, t.run)
  BY JoinsHarmless
<1>3. Follows(Committed(t, by, delta), t)
  <2>. DEFINE r == Committed(t, by, delta)
  <2>1. /\ r \in Docs /\ Len(r.undo) = Len(t.undo) + 1 /\ r.run = t.run
        /\ r.undo[Len(r.undo)].by = {<<by, t.run>>}
    BY <1>1, CommittedDoc
  <2>. HIDE DEF r
  <2>2. r \in ViewFields /\ r.undo # <<>>
    <3>1. Len(<<>>) = 0
      OBVIOUS
    <3>2. QED
      BY <1>1, <2>1, <3>1, ViewTypes
  <2>3. r \in Views
    BY <1>2, <2>1, <2>2, TypingOn
  <2>4. QED
    BY <1>1, <2>1, <2>3 DEF Follows, r
<1>4. Follows(Merged(Committed(t, by, delta)), t)
  <2>. DEFINE w == Merged(Committed(t, by, delta))
              last == t.undo[Len(t.undo)].by
  <2>1. ASSUME t.undo # <<>> PROVE OneRun(last \cup {<<by, t.run>>})
    <3>1. t.undo[Len(t.undo)] \in UndoSteps
      BY <1>1, <2>1
    <3>2. OneRun(last)
      BY <3>1 DEF UndoSteps
    <3>. HIDE DEF last
    <3>3. by \in {"deletion", "paste", "checksum", "replacement"}
      OBVIOUS
    <3>4. QED
      BY ONLY <3>2, <3>3, JoinsHarmless
  <2>2. /\ w \in Docs /\ w.run = t.run /\ w.typingNext = t.typingNext /\ w.nibble = t.nibble
        /\ Len(w.undo) = IF t.undo = <<>> THEN 1 ELSE Len(t.undo)
        /\ w.undo[Len(w.undo)].by =
             IF t.undo = <<>> THEN {<<by, t.run>>} ELSE last \cup {<<by, t.run>>}
    BY <1>1, <2>1, MergedDoc
  <2>3. Joins(last, t.run) => Joins(last \cup {<<by, t.run>>}, t.run)
    <3>. HIDE DEF last
    <3>1. by \in {"deletion", "paste", "checksum", "replacement"}
      OBVIOUS
    <3>2. QED
      BY ONLY <3>1, JoinsHarmless
  <2>4. w.undo # <<>> /\ Len(w.undo) <= Len(t.undo) + 1
    <3>. HIDE DEF w
    <3>1. Len(<<>>) = 0
      OBVIOUS
    <3>2. t.undo # <<>> => Len(t.undo) # 0
      BY <1>1
    <3>3. QED
      BY <1>1, <2>2, <3>1, <3>2
  <2>. HIDE DEF w, last
  <2>5. Continues(w)
    BY <1>1, <1>2, <2>2, <2>3, <2>4 DEF Continues, last
  <2>6. w \in Views
    BY <2>2, <2>5 DEF Views
  <2>7. QED
    BY <2>4, <2>6 DEF Follows, w
<1>5. QED
  BY <1>3, <1>4

\* A write of the Data Inspector, a fill and the fix of a checksum.
LEMMA PanelsFollow ==
  ASSUME NEW t \in Views
  PROVE  /\ Follows(InspectorWrites(t, 1), t) /\ Follows(FillSelection(t), t)
         /\ Follows(FixChecksum(t), t)
<1>1. t \in Docs /\ Len(t.undo) \in Nat /\ t.cursor \in Nat /\ t.len \in Nat
  BY ViewTypes DEF Views
<1>2. Follows(t, t)
  BY <1>1 DEF Follows
<1>. DEFINE u == EndTyping(t)
<1>3. u \in Docs /\ Quiet(u) /\ u.undo = t.undo /\ u.len = t.len
  BY <1>1, EndTypingStill DEF Still
<1>4. Follows(u, t)
  BY <1>1, EndTypingStill, StillFollows
<1>. HIDE DEF u
<1>5. Follows(InspectorWrites(t, 1), t)
  <2>. DEFINE d == Without(t.cursor + 1, u.len)
  <2>1. d \in Nat
    <3>1. t.cursor + 1 \in Nat
      BY <1>1
    <3>2. QED
      BY <1>1, <1>3, <3>1, LesserNat
  <2>2. Follows(Committed(u, "inspector", d), u)
    BY <1>3, <2>1, QuietCommit DEF Origins
  <2>3. Follows(Committed(u, "inspector", d), t)
    BY <1>3, <2>2 DEF Follows
  <2>. QED
    BY <1>2, <2>3 DEF InspectorWrites, Overwritten, u
<1>6. Follows(FillSelection(t), t)
  <2>1. ASSUME Selected(t)
        PROVE  LET n == SelEnd(t) - SelStart(t)
               IN  CanDelete(u, SelStart(t), n) => Follows(Overwritten(u, "fill", SelStart(t), n), t)
    <3>. DEFINE n == SelEnd(t) - SelStart(t)
                d == Without(SelStart(t) + n, u.len)
    <3>1. SelStart(t) + n \in Nat
      <4>1. SelStart(t) \in Nat /\ SelEnd(t) \in Nat
        BY <1>1, <2>1, SelectionNat
      <4>2. QED
        BY <4>1
    <3>2. d \in Nat
      <4>. HIDE DEF n
      <4>1. QED
        BY <1>1, <1>3, <3>1, LesserNat
    <3>. HIDE DEF d
    <3>3. Follows(Committed(u, "fill", d), u)
      BY <1>3, <3>2, QuietCommit DEF Origins
    <3>4. Follows(Committed(u, "fill", d), t)
      BY <1>3, <3>3 DEF Follows
    <3>5. QED
      BY <3>4 DEF Overwritten, d
  <2>2. QED
    BY <1>2, <1>4, <2>1 DEF FillSelection, u
<1>7. Follows(FixChecksum(t), t)
  <2>. DEFINE d == Without(0 + 1, t.len)
  <2>1. d \in Nat
    <3>1. 0 + 1 \in Nat
      OBVIOUS
    <3>2. QED
      BY <1>1, <3>1, LesserNat
  <2>. HIDE DEF d
  <2>2. d \in Int /\ t.len + d \in Nat
    BY <1>1, <2>1
  <2>3. Follows(Committed(t, "checksum", d), t)
    BY <2>2, HarmlessCommit
  <2>4. QED
    BY <1>2, <2>3 DEF FixChecksum, Overwritten, d
<1>8. QED
  BY <1>5, <1>6, <1>7

\* Undo and redo of the menu, between two runs.
LEMMA MenuStill ==
  ASSUME NEW t \in Views
  PROVE  Follows(Boundary(MenuUndo(t)), t) /\ Follows(Boundary(MenuRedo(t)), t)
<1>1. t \in Docs /\ Len(t.undo) \in Nat
  BY ViewTypes DEF Views
<1>. DEFINE u == EndTyping(t)
<1>2. u \in Docs /\ Quiet(u) /\ u.undo = t.undo
  BY <1>1, EndTypingStill DEF Still
<1>. HIDE DEF u
<1>3. /\ u \in ViewFields /\ Chain(u.undo, u.redo, u.len) /\ u.len \in Nat
      /\ u.undo \in Seq(UndoSteps) /\ u.redo \in Seq(UndoSteps)
  BY <1>2, ViewTypes
\* A document between two runs, with at most one more step to undo.
<1>. DEFINE Fine(r) == r \in Docs /\ Quiet(r) /\ Len(r.undo) <= Len(t.undo) + 1
<1>4. ASSUME NEW r, Fine(r) PROVE Follows(Boundary(r), t)
  <2>1. Still(Boundary(r), r)
    BY <1>4, BoundaryStill DEF Still
  <2>2. Boundary(r) \in Views /\ Boundary(r).undo = r.undo
    BY <2>1, QuietViews DEF Still
  <2>3. QED
    BY <1>4, <2>2 DEF Follows
<1>5. Fine(Undone(u))
  <2>1. CASE u.undo = <<>>
    BY <1>1, <1>2, <2>1 DEF Undone
  <2>2. CASE u.undo # <<>>
    <3>1. PICK n \in Nat : Len(u.undo) = n + 1
      <4>1. Len(u.undo) \in Nat /\ Len(u.undo) # 0
        BY <1>3, <2>2
      <4>2. Len(u.undo) - 1 \in Nat /\ Len(u.undo) = (Len(u.undo) - 1) + 1
        BY <4>1
      <4>3. QED
        BY <4>2
    <3>. DEFINE one == u.undo[n + 1]
                less == SubSeq(u.undo, 1, n)
                more == Append(u.redo, one)
                r == [u EXCEPT !.len = @ - one.delta, !.undo = less, !.redo = more]
    <3>2. /\ u.len - one.delta \in Nat /\ less \in Seq(UndoSteps) /\ Len(less) = n
          /\ more \in Seq(UndoSteps) /\ Chain(less, more, u.len - one.delta)
      BY <1>3, <3>1, UndoneLeads
    <3>3. Undone(u) = r
      <4>1. Len(u.undo) - 1 = n
        BY <3>1
      <4>2. QED
        BY <2>2, <3>1, <4>1 DEF Undone
    <3>. HIDE DEF less, more, one
    <3>4. r \in ViewFields
      BY <1>3, <3>2 DEF ViewFields
    <3>5. /\ r.undo = less /\ r.redo = more /\ r.len = u.len - one.delta
          /\ r.typingNext = u.typingNext /\ r.nibble = u.nibble
      BY <1>3 DEF ViewFields
    <3>. HIDE DEF r
    <3>6. r \in Docs
      BY <3>2, <3>4, <3>5 DEF Docs
    <3>7. QED
      BY <1>1, <1>2, <3>1, <3>2, <3>3, <3>5, <3>6 DEF Quiet
  <2>3. QED
    BY <2>1, <2>2
<1>6. Fine(Redone(u))
  <2>1. CASE u.redo = <<>>
    BY <1>1, <1>2, <2>1 DEF Redone
  <2>2. CASE u.redo # <<>>
    <3>1. PICK n \in Nat : Len(u.redo) = n + 1
      <4>1. Len(u.redo) \in Nat /\ Len(u.redo) # 0
        BY <1>3, <2>2
      <4>2. Len(u.redo) - 1 \in Nat /\ Len(u.redo) = (Len(u.redo) - 1) + 1
        BY <4>1
      <4>3. QED
        BY <4>2
    <3>. DEFINE one == u.redo[n + 1]
                less == SubSeq(u.redo, 1, n)
                more == Append(u.undo, one)
                r == [u EXCEPT !.len = @ + one.delta, !.redo = less, !.undo = more]
    <3>2. /\ u.len + one.delta \in Nat /\ less \in Seq(UndoSteps)
          /\ Len(more) = Len(u.undo) + 1
          /\ more \in Seq(UndoSteps) /\ Chain(more, less, u.len + one.delta)
      BY <1>3, <3>1, RedoneLeads
    <3>3. Redone(u) = r
      <4>1. Len(u.redo) - 1 = n
        BY <3>1
      <4>2. QED
        BY <2>2, <3>1, <4>1 DEF Redone
    <3>. HIDE DEF less, more, one
    <3>4. r \in ViewFields
      BY <1>3, <3>2 DEF ViewFields
    <3>5. /\ r.undo = more /\ r.redo = less /\ r.len = u.len + one.delta
          /\ r.typingNext = u.typingNext /\ r.nibble = u.nibble
      BY <1>3 DEF ViewFields
    <3>. HIDE DEF r
    <3>6. r \in Docs
      BY <3>2, <3>4, <3>5 DEF Docs
    <3>7. QED
      BY <1>1, <1>2, <3>1, <3>2, <3>3, <3>5, <3>6 DEF Quiet
  <2>3. QED
    BY <2>1, <2>2
<1>. HIDE DEF Fine
<1>7. QED
  BY <1>4, <1>5, <1>6 DEF MenuUndo, MenuRedo, u

LEMMA NewTabDoc ==
  ASSUME NEW n \in Nat
  PROVE  NewTab(n) \in Docs /\ Quiet(NewTab(n)) /\ Len(NewTab(n).undo) = 0
<1>1. /\ NewTab(n).undo = <<>> /\ NewTab(n).redo = <<>> /\ NewTab(n).len = n
      /\ Quiet(NewTab(n))
  BY DEF NewTab, Quiet
<1>2. NewTab(n) \in ViewFields
  <2>1. <<>> \in Seq(UndoSteps)
    OBVIOUS
  <2>2. QED
    BY <2>1 DEF NewTab, ViewFields, None
<1>3. Leads(<<n>>, <<>>, <<>>, n)
  <2>1. <<n>> \in Seq(Nat) /\ Len(<<n>>) = 1 /\ <<n>>[1] = n /\ Len(<<>>) = 0
    OBVIOUS
  <2>2. 0 + 0 + 1 = 1 /\ 0 + 1 = 1 /\ 1 .. 0 = {}
    OBVIOUS
  <2>3. QED
    BY <2>1, <2>2 DEF Leads
<1>4. Chain(<<>>, <<>>, n)
  <2>1. <<n>> \in Seq(Nat)
    OBVIOUS
  <2>2. QED
    BY <1>3, <2>1 DEF Chain
<1>5. Len(<<>>) = 0
  OBVIOUS
<1>6. QED
  BY <1>1, <1>2, <1>4, <1>5 DEF Docs

\* A change of mode, pane or selection that ends no typing.
LEMMA ModesFollow ==
  ASSUME NEW t \in Views
  PROVE  /\ Follows([t EXCEPT !.anchor = None], t)
         /\ Follows([t EXCEPT !.insertMode = ~ @], t)
         /\ Follows([t EXCEPT !.readOnly = ~ @], t)
<1>1. t \in Docs /\ t \in ViewFields /\ Continues(t) /\ Len(t.undo) \in Nat
  BY ViewTypes DEF Views
<1>2. ASSUME NEW r \in ViewFields, r.undo = t.undo, r.redo = t.redo, r.len = t.len,
             r.typingNext = t.typingNext, r.nibble = t.nibble, r.run = t.run
      PROVE  Follows(r, t)
  <2>1. r \in Docs
    BY <1>1, <1>2, SameDoc
  <2>2. Continues(r)
    BY <1>1, <1>2 DEF Continues
  <2>3. QED
    BY <1>1, <1>2, <2>1, <2>2 DEF Follows, Views
<1>3. Follows([t EXCEPT !.anchor = None], t)
  <2>. DEFINE r == [t EXCEPT !.anchor = None]
  <2>1. r \in ViewFields
    BY <1>1 DEF ViewFields
  <2>2. /\ r.undo = t.undo /\ r.redo = t.redo /\ r.len = t.len
        /\ r.typingNext = t.typingNext /\ r.nibble = t.nibble /\ r.run = t.run
    BY <1>1 DEF ViewFields
  <2>. HIDE DEF r
  <2>3. QED
    BY <1>2, <2>1, <2>2 DEF r
<1>4. Follows([t EXCEPT !.insertMode = ~ @], t)
  <2>. DEFINE r == [t EXCEPT !.insertMode = ~ @]
  <2>1. r \in ViewFields
    BY <1>1 DEF ViewFields
  <2>2. /\ r.undo = t.undo /\ r.redo = t.redo /\ r.len = t.len
        /\ r.typingNext = t.typingNext /\ r.nibble = t.nibble /\ r.run = t.run
    BY <1>1 DEF ViewFields
  <2>. HIDE DEF r
  <2>3. QED
    BY <1>2, <2>1, <2>2 DEF r
<1>5. Follows([t EXCEPT !.readOnly = ~ @], t)
  <2>. DEFINE r == [t EXCEPT !.readOnly = ~ @]
  <2>1. r \in ViewFields
    BY <1>1 DEF ViewFields
  <2>2. /\ r.undo = t.undo /\ r.redo = t.redo /\ r.len = t.len
        /\ r.typingNext = t.typingNext /\ r.nibble = t.nibble /\ r.run = t.run
    BY <1>1 DEF ViewFields
  <2>. HIDE DEF r
  <2>3. QED
    BY <1>2, <2>1, <2>2 DEF r
<1>6. QED
  BY <1>3, <1>4, <1>5

\* A field of a document that is none of its content.
LEMMA PaneDoc ==
  ASSUME NEW r \in Docs, NEW pane \in {"hex", "text"}, NEW readOnly \in BOOLEAN
  PROVE  /\ [r EXCEPT !.pane = pane] \in Docs
         /\ [r EXCEPT !.readOnly = readOnly] \in Docs
         /\ [r EXCEPT !.pane = pane].undo = r.undo
         /\ [r EXCEPT !.readOnly = readOnly].undo = r.undo
         /\ Quiet(r) => Quiet([r EXCEPT !.pane = pane]) /\ Quiet([r EXCEPT !.readOnly = readOnly])
<1>1. r \in ViewFields
  BY ViewTypes
<1>. DEFINE p == [r EXCEPT !.pane = pane]
            q == [r EXCEPT !.readOnly = readOnly]
<1>2. p \in ViewFields /\ q \in ViewFields
  BY <1>1 DEF ViewFields
<1>3. /\ p.undo = r.undo /\ p.redo = r.redo /\ p.len = r.len
      /\ p.typingNext = r.typingNext /\ p.nibble = r.nibble
      /\ q.undo = r.undo /\ q.redo = r.redo /\ q.len = r.len
      /\ q.typingNext = r.typingNext /\ q.nibble = r.nibble
  BY <1>1 DEF ViewFields
<1>. HIDE DEF p, q
<1>4. p \in Docs /\ q \in Docs
  BY <1>2, <1>3, SameDoc
<1>5. QED
  BY <1>3, <1>4 DEF p, q, Quiet

\* A reload after a change on the disk.
LEMMA ReloadedFollows ==
  ASSUME NEW t \in Views, NEW n \in Nat
  PROVE  Follows(ReloadedView(t, n), t)
<1>1. t \in Docs /\ t.cursor \in Nat /\ t.readOnly \in BOOLEAN /\ Len(t.undo) \in Nat
  BY ViewTypes DEF Views
<1>. DEFINE u == NewTab(n)
            v == [u EXCEPT !.readOnly = t.readOnly]
            w == [v EXCEPT !.pane = "hex"]
<1>2. u \in Docs /\ Len(u.undo) = 0
  BY NewTabDoc
<1>3. [u EXCEPT !.readOnly = t.readOnly, !.pane = "hex"] = w
  OBVIOUS
<1>. HIDE DEF u
<1>4. v \in Docs /\ v.undo = u.undo
  BY <1>1, <1>2, PaneDoc
<1>. HIDE DEF v
<1>5. w \in Docs /\ w.undo = v.undo
  BY <1>4, PaneDoc
<1>. HIDE DEF w
<1>6. Lesser(t.cursor, n) \in Nat
  BY <1>1, LesserNat
<1>7. Still(Goto(w, Lesser(t.cursor, n)), w)
  BY <1>5, <1>6, GotoStill
<1>8. ReloadedView(t, n) = Goto(w, Lesser(t.cursor, n))
  BY <1>3 DEF ReloadedView, u
<1>9. ReloadedView(t, n) \in Views /\ Len(ReloadedView(t, n).undo) = 0
  BY <1>2, <1>4, <1>5, <1>7, <1>8, QuietViews DEF Still
<1>10. QED
  BY <1>1, <1>9 DEF Follows

\* One replacement of a search over all, and the Replace button.
LEMMA ReplacementFollows ==
  ASSUME NEW t \in Views, NEW delta \in Int, t.len + delta \in Nat, NEW count
  PROVE  Follows(Replacement(t, delta, count), t)
BY HarmlessCommit DEF Replacement

\* One replacement of the running search.
LEMMA ReplaceOneFollows ==
  ASSUME NEW t \in Views, Selected(t)
  PROVE  Follows(Boundary(Goto(Committed(EndTyping(t), "replacement", 0), SelEnd(t))), t)
<1>1. t \in Docs /\ SelEnd(t) \in Nat /\ Len(t.undo) \in Nat
  BY SelectionNat, ViewTypes DEF Views
<1>. DEFINE u == EndTyping(t)
            r == Committed(u, "replacement", 0)
<1>2. u \in Docs /\ Quiet(u) /\ u.undo = t.undo
  BY <1>1, EndTypingStill DEF Still
<1>. HIDE DEF u
<1>3. Follows(r, u)
  <2>1. PICK z \in Nat : z = 0
    OBVIOUS
  <2>2. Follows(Committed(u, "replacement", z), u)
    BY <1>2, QuietCommit DEF Origins
  <2>3. QED
    BY <2>1, <2>2
<1>. HIDE DEF r
<1>4. r \in Docs
  BY <1>3 DEF Follows, Views
<1>5. Still(Boundary(Goto(r, SelEnd(t))), r)
  BY <1>1, <1>4, GotoStill, BoundaryStill
<1>6. QED
  BY <1>2, <1>3, <1>5, QuietViews DEF Follows, Still, r, u

-----------------------------------------------------------------------------
(* The list of tabs. *)

TabRecords == [view : Views, path : Paths \cup {NoPath}, id : Nat, changed : BOOLEAN]

\* A list of tabs told apart by their identities, all before the next one.
ListOk(list, next) ==
  /\ list \in Seq(TabRecords)
  /\ \A i \in 1 .. Len(list) : list[i].id < next
  /\ \A i, j \in 1 .. Len(list) : list[i].id = list[j].id => i = j

\* Every tab that is still there has at most one more step to undo.
OneStepOn(old, new) ==
  \A i \in 1 .. Len(old), j \in 1 .. Len(new) :
    old[i].id = new[j].id => Len(new[j].view.undo) <= Len(old[i].view.undo) + 1

\* The tabs of new are tabs of old.
Among(new, old) == \A j \in 1 .. Len(new) : \E k \in 1 .. Len(old) : new[j] = old[k]

\* What the tabs of a list are.
LEMMA ListTypes ==
  ASSUME NEW list, NEW next, ListOk(list, next), NEW i \in 1 .. Len(list)
  PROVE  /\ list[i] \in TabRecords /\ list[i].view \in Views /\ list[i].view \in Docs
         /\ list[i].id \in Nat /\ list[i].path \in Paths \cup {NoPath}
         /\ Len(list[i].view.undo) \in Nat
<1>1. list[i] \in TabRecords
  BY DEF ListOk
<1>2. list[i].view \in Docs
  BY <1>1 DEF TabRecords, Views
<1>3. QED
  BY <1>1, <1>2, ViewTypes DEF TabRecords

\* A list that stays.
LEMMA SameList ==
  ASSUME NEW list, NEW next, ListOk(list, next)
  PROVE  OneStepOn(list, list)
<1>1. ASSUME NEW i \in 1 .. Len(list), NEW j \in 1 .. Len(list), list[i].id = list[j].id
      PROVE  Len(list[j].view.undo) <= Len(list[i].view.undo) + 1
  <2>1. i = j
    BY <1>1 DEF ListOk
  <2>2. Len(list[i].view.undo) \in Nat
    BY ListTypes
  <2>3. QED
    BY <2>1, <2>2
<1>2. QED
  BY <1>1 DEF OneStepOn

LEMMA AmongOneStep ==
  ASSUME NEW old, NEW mid, NEW new, OneStepOn(old, mid), Among(new, mid)
  PROVE  OneStepOn(old, new)
BY DEF OneStepOn, Among

LEMMA EditList ==
  ASSUME NEW list, NEW next, ListOk(list, next), NEW i \in 1 .. Len(list),
         NEW tab \in TabRecords, tab.id = list[i].id,
         Len(tab.view.undo) <= Len(list[i].view.undo) + 1
  PROVE  LET new == [list EXCEPT ![i] = tab]
         IN  /\ ListOk(new, next) /\ OneStepOn(list, new) /\ Ids(new) = Ids(list)
             /\ Len(new) = Len(list) /\ new[i] = tab
             /\ \A k \in 1 .. Len(list) : k # i => new[k] = list[k]
<1>. DEFINE new == [list EXCEPT ![i] = tab]
<1>1. list \in Seq(TabRecords)
  BY DEF ListOk
<1>2. /\ new \in Seq(TabRecords) /\ Len(new) = Len(list) /\ new[i] = tab
      /\ \A k \in 1 .. Len(list) : k # i => new[k] = list[k]
  BY <1>1
<1>. HIDE DEF new
<1>3. \A k \in 1 .. Len(list) : new[k].id = list[k].id
  BY <1>2
<1>4. ListOk(new, next)
  BY <1>2, <1>3 DEF ListOk
<1>5. Ids(new) = Ids(list)
  BY <1>2, <1>3 DEF Ids
<1>6. OneStepOn(list, new)
  <2>1. ASSUME NEW k \in 1 .. Len(list), NEW j \in 1 .. Len(new), list[k].id = new[j].id
        PROVE  Len(new[j].view.undo) <= Len(list[k].view.undo) + 1
    <3>1. k = j
      BY <1>2, <1>3, <2>1 DEF ListOk
    <3>2. Len(list[k].view.undo) \in Nat
      BY ListTypes
    <3>3. QED
      BY <1>2, <3>1, <3>2
  <2>2. QED
    BY <2>1 DEF OneStepOn
<1>7. QED
  BY <1>2, <1>4, <1>5, <1>6 DEF new

LEMMA ViewInTab ==
  ASSUME NEW tab \in TabRecords, NEW t \in Views
  PROVE  /\ [tab EXCEPT !.view = t] \in TabRecords
         /\ [tab EXCEPT !.view = t].id = tab.id
         /\ [tab EXCEPT !.view = t].view = t
BY DEF TabRecords

\* An operation on the grid of one tab.
LEMMA ShowList ==
  ASSUME NEW list, NEW next, ListOk(list, next), NEW i \in 1 .. Len(list),
         NEW t, Follows(t, list[i].view)
  PROVE  LET new == [list EXCEPT ![i].view = t]
         IN  ListOk(new, next) /\ OneStepOn(list, new) /\ Ids(new) = Ids(list)
<1>. DEFINE tab == [list[i] EXCEPT !.view = t]
<1>1. list[i] \in TabRecords /\ t \in Views /\ Len(t.undo) <= Len(list[i].view.undo) + 1
  BY ListTypes DEF Follows
<1>2. tab \in TabRecords /\ tab.id = list[i].id /\ tab.view = t
  BY <1>1, ViewInTab
<1>3. [list EXCEPT ![i].view = t] = [list EXCEPT ![i] = tab]
  OBVIOUS
<1>. HIDE DEF tab
<1>4. QED
  BY <1>1, <1>2, <1>3, EditList

\* The banner of a file that changed on the disk.
LEMMA ChangedList ==
  ASSUME NEW list, NEW next, ListOk(list, next), NEW i \in 1 .. Len(list), NEW changed \in BOOLEAN
  PROVE  LET new == [list EXCEPT ![i].changed = changed]
         IN  ListOk(new, next) /\ OneStepOn(list, new) /\ Ids(new) = Ids(list)
<1>. DEFINE tab == [list[i] EXCEPT !.changed = changed]
<1>1. list[i] \in TabRecords /\ Len(list[i].view.undo) \in Nat
  BY ListTypes
<1>2. tab \in TabRecords /\ tab.id = list[i].id /\ tab.view = list[i].view
  BY <1>1 DEF TabRecords
<1>3. [list EXCEPT ![i].changed = changed] = [list EXCEPT ![i] = tab]
  OBVIOUS
<1>4. Len(tab.view.undo) <= Len(list[i].view.undo) + 1
  BY <1>1, <1>2
<1>. HIDE DEF tab
<1>5. QED
  BY <1>2, <1>3, <1>4, EditList

LEMMA ReloadList ==
  ASSUME NEW list, NEW next, ListOk(list, next), NEW i \in 1 .. Len(list),
         NEW t, Follows(t, list[i].view)
  PROVE  LET new == [list EXCEPT ![i].view = t, ![i].changed = FALSE]
         IN  ListOk(new, next) /\ OneStepOn(list, new) /\ Ids(new) = Ids(list)
<1>. DEFINE tab == [list[i] EXCEPT !.view = t, !.changed = FALSE]
<1>1. list[i] \in TabRecords /\ t \in Views /\ Len(t.undo) <= Len(list[i].view.undo) + 1
  BY ListTypes DEF Follows
<1>2. tab \in TabRecords /\ tab.id = list[i].id /\ tab.view = t
  BY <1>1 DEF TabRecords
<1>3. [list EXCEPT ![i].view = t, ![i].changed = FALSE] = [list EXCEPT ![i] = tab]
  <2>1. list \in Seq(TabRecords)
    BY DEF ListOk
  <2>. DEFINE one == [list EXCEPT ![i].view = t]
  <2>2. one[i] = [list[i] EXCEPT !.view = t]
    BY <2>1
  <2>3. [list EXCEPT ![i].view = t, ![i].changed = FALSE]
          = [one EXCEPT ![i] = [one[i] EXCEPT !.changed = FALSE]]
    OBVIOUS
  <2>4. [one[i] EXCEPT !.changed = FALSE] = tab
    BY <2>2
  <2>5. \A u : [one EXCEPT ![i] = u] = [list EXCEPT ![i] = u]
    BY <2>1
  <2>. HIDE DEF one, tab
  <2>6. QED
    BY <2>3, <2>4, <2>5
<1>. HIDE DEF tab
<1>4. QED
  BY <1>1, <1>2, <1>3, EditList

\* One tab more, with a new identity.
LEMMA AppendList ==
  ASSUME NEW list, NEW next \in Nat, ListOk(list, next),
         NEW tab \in TabRecords, tab.id = next
  PROVE  LET new == Append(list, tab)
         IN  ListOk(new, next + 1) /\ OneStepOn(list, new) /\ Ids(list) \subseteq Ids(new)
<1>. DEFINE new == Append(list, tab)
            n == Len(list)
<1>1. list \in Seq(TabRecords)
  BY DEF ListOk
<1>2. /\ new \in Seq(TabRecords) /\ Len(new) = n + 1 /\ new[n + 1] = tab /\ n \in Nat
      /\ \A k \in 1 .. n : new[k] = list[k]
  BY <1>1
<1>3. \A k \in 1 .. n : list[k].id \in Nat /\ list[k].id < next
  BY ListTypes DEF ListOk
<1>. HIDE DEF new
<1>4. \A k \in 1 .. n + 1 : k \in 1 .. n \/ k = n + 1
  BY <1>2
<1>5. \A k \in 1 .. Len(new) : new[k].id < next + 1
  BY <1>2, <1>3, <1>4
<1>6. \A i, j \in 1 .. Len(new) : new[i].id = new[j].id => i = j
  BY <1>2, <1>3, <1>4 DEF ListOk
<1>7. ListOk(new, next + 1)
  BY <1>2, <1>5, <1>6 DEF ListOk
<1>8. Ids(list) \subseteq Ids(new)
  <2>1. \A k \in 1 .. n : k \in 1 .. Len(new) /\ new[k].id = list[k].id
    BY <1>2
  <2>2. QED
    BY <2>1 DEF Ids
<1>9. OneStepOn(list, new)
  <2>1. ASSUME NEW i \in 1 .. n, NEW j \in 1 .. Len(new), list[i].id = new[j].id
        PROVE  Len(new[j].view.undo) <= Len(list[i].view.undo) + 1
    <3>1. j # n + 1
      BY <1>2, <1>3, <2>1
    <3>2. j \in 1 .. n
      BY <1>2, <1>4, <3>1
    <3>3. new[j] = list[j] /\ i = j
      BY <1>2, <2>1, <3>2 DEF ListOk
    <3>4. Len(list[i].view.undo) \in Nat
      BY ListTypes
    <3>5. QED
      BY <3>3, <3>4
  <2>2. QED
    BY <2>1 DEF OneStepOn
<1>10. QED
  BY <1>7, <1>8, <1>9 DEF new

\* One tab less.
LEMMA RemoveList ==
  ASSUME NEW list, NEW next, ListOk(list, next), NEW i \in 1 .. Len(list)
  PROVE  LET new == RemoveAt(list, i)
         IN  /\ ListOk(new, next) /\ Among(new, list) /\ Len(new) = Len(list) - 1
             /\ \A k \in 1 .. Len(list) : k # i => list[k].id \in Ids(new)
<1>. DEFINE n == Len(list)
            a == SubSeq(list, 1, i - 1)
            b == SubSeq(list, i + 1, n)
            new == a \o b
            From(j) == IF j < i THEN j ELSE j + 1
<1>1. list \in Seq(TabRecords) /\ n \in Nat /\ i \in Nat /\ 1 <= i /\ i <= n
  BY DEF ListOk
<1>2. /\ a \in Seq(TabRecords) /\ Len(a) = i - 1
      /\ \A j \in 1 .. i - 1 : a[j] = list[j]
  <2>. HIDE DEF n
  <2>1. i - 1 \in Nat /\ i - 1 <= Len(list)
    BY <1>1 DEF n
  <2>2. QED
    BY <1>1, <2>1
<1>3. /\ b \in Seq(TabRecords) /\ Len(b) = n - i
      /\ \A j \in 1 .. n - i : b[j] = list[i + j]
  BY <1>1
<1>. HIDE DEF a, b, n
<1>4. /\ new \in Seq(TabRecords) /\ Len(new) = n - 1
      /\ \A j \in 1 .. n - 1 : new[j] = IF j <= i - 1 THEN a[j] ELSE b[j - (i - 1)]
  <2>1. /\ new \in Seq(TabRecords) /\ Len(new) = Len(a) + Len(b)
        /\ \A j \in 1 .. Len(a) + Len(b) : new[j] = IF j <= Len(a) THEN a[j] ELSE b[j - Len(a)]
    BY <1>2, <1>3
  <2>. HIDE DEF new
  <2>2. Len(a) + Len(b) = n - 1
    BY <1>1, <1>2, <1>3
  <2>3. QED
    BY <1>2, <2>1, <2>2
<1>. HIDE DEF new
<1>5. ASSUME NEW j \in 1 .. n - 1 PROVE From(j) \in 1 .. n /\ new[j] = list[From(j)]
  <2>1. CASE j < i
    <3>1. j \in 1 .. i - 1 /\ j <= i - 1
      BY <1>1, <2>1
    <3>2. QED
      BY <1>1, <1>2, <1>4, <2>1, <3>1
  <2>2. CASE ~ (j < i)
    <3>1. j - (i - 1) \in 1 .. n - i /\ ~ (j <= i - 1) /\ i + (j - (i - 1)) = j + 1
      BY <1>1, <2>2
    <3>2. QED
      BY <1>1, <1>3, <1>4, <2>2, <3>1
  <2>3. QED
    BY <2>1, <2>2
<1>6. \A j, k \in 1 .. n - 1 : From(j) = From(k) => j = k
  BY <1>1
<1>. HIDE DEF From
<1>7. ListOk(new, next)
  <2>1. \A j \in 1 .. Len(new) : new[j].id < next
    BY <1>4, <1>5 DEF ListOk, n
  <2>2. \A j, k \in 1 .. Len(new) : new[j].id = new[k].id => j = k
    BY <1>4, <1>5, <1>6 DEF ListOk, n
  <2>3. QED
    BY <1>4, <2>1, <2>2 DEF ListOk
<1>8. Among(new, list)
  BY <1>4, <1>5 DEF Among, n
<1>9. ASSUME NEW k \in 1 .. n, k # i PROVE list[k].id \in Ids(new)
  <2>1. PICK j \in 1 .. n - 1 : From(j) = k
    <3>1. CASE k < i
      <4>1. k \in 1 .. n - 1 /\ From(k) = k
        BY <1>1, <3>1 DEF From
      <4>2. QED
        BY <4>1
    <3>2. CASE ~ (k < i)
      <4>1. k - 1 \in 1 .. n - 1 /\ ~ (k - 1 < i) /\ (k - 1) + 1 = k
        BY <1>1, <1>9, <3>2
      <4>2. From(k - 1) = k
        BY <4>1 DEF From
      <4>3. QED
        BY <4>1, <4>2
    <3>3. QED
      BY <3>1, <3>2
  <2>2. new[j].id = list[k].id /\ j \in 1 .. Len(new)
    BY <1>4, <1>5, <2>1
  <2>3. QED
    BY <2>2 DEF Ids
<1>10. QED
  BY <1>4, <1>7, <1>8, <1>9 DEF new, a, b, n, RemoveAt

-----------------------------------------------------------------------------
(* The paths of the tabs, in their order. *)

\* One path, or one tab, more.
WithPath(paths, path, out) == IF path \in out THEN paths ELSE Append(paths, path)

\* What of the first k paths is left, for each k.
Collects(e, list, out) ==
  /\ e[0] = <<>>
  /\ \A k \in 1 .. Len(list) : e[k] = WithPath(e[k - 1], list[k], out)

\* A list without some paths, path by path.
LEMMA OtherPathsIs ==
  ASSUME NEW P, NEW list \in Seq(P), NEW out
  PROVE  \E e : /\ Collects(e, list, out) /\ OtherPaths(list, out) = e[Len(list)]
                /\ e \in [0 .. Len(list) -> Seq(P \ out)]
<1>. DEFINE n == Len(list)
            S == Seq(P \ out)
            step == [x \in S \X (1 .. n) |-> WithPath(x[1], list[x[2]], out)]
            Body(f) == [k \in 0 .. n |->
                          IF k = 0 THEN <<>>
                          ELSE IF list[k] \in out THEN f[k - 1]
                          ELSE Append(f[k - 1], list[k])]
            e == CHOOSE f : f = Body(f)
<1>1. n \in Nat /\ <<>> \in S
  OBVIOUS
<1>2. \A k \in 1 .. n : list[k] \in P
  OBVIOUS
<1>3. \A x \in S, k \in 1 .. n : WithPath(x, list[k], out) \in S
  BY <1>2 DEF WithPath
<1>4. step \in [S \X (1 .. n) -> S]
  <2>. HIDE DEF S, n
  <2>1. \A x \in S \X (1 .. n) : x[1] \in S /\ x[2] \in 1 .. n
    OBVIOUS
  <2>2. QED
    BY <1>3, <2>1
<1>5. PICK r \in [0 .. n -> S] : r[0] = <<>> /\ \A i \in 1 .. n : r[i] = step[<<r[i - 1], i>>]
  <2>. HIDE DEF S, step, n
  <2>1. Recursions(S, n, <<>>, step) # {}
    BY <1>1, <1>4, RecursionExists
  <2>2. QED
    BY <2>1 DEF Recursions
<1>6. ASSUME NEW k \in 1 .. n PROVE r[k] = WithPath(r[k - 1], list[k], out)
  <2>. HIDE DEF S, n
  <2>1. k - 1 \in 0 .. n
    BY <1>1
  <2>2. <<r[k - 1], k>> \in S \X (1 .. n)
    BY <2>1
  <2>3. QED
    BY <1>5, <2>2
<1>7. r = Body(r)
  <2>. HIDE DEF n, S
  <2>1. \A k \in 0 .. n : k # 0 => k \in 1 .. n
    BY <1>1
  <2>2. ASSUME NEW k \in 0 .. n
        PROVE  r[k] = IF k = 0 THEN <<>>
                      ELSE IF list[k] \in out THEN r[k - 1]
                      ELSE Append(r[k - 1], list[k])
    BY <1>5, <1>6, <2>1 DEF WithPath
  <2>3. QED
    BY <2>2
<1>8. e = Body(e)
  <2>. HIDE DEF Body
  <2>1. QED
    BY <1>7
<1>. HIDE DEF e
<1>9. /\ e[0] = <<>> /\ \A k \in 1 .. n : e[k] = WithPath(e[k - 1], list[k], out)
      /\ DOMAIN e = 0 .. n /\ e = [k \in 0 .. n |-> e[k]]
  <2>. HIDE DEF n
  <2>1. 0 \in 0 .. n /\ \A k \in 1 .. n : k \in 0 .. n /\ k # 0
    BY <1>1
  <2>2. \A k \in 0 .. n : e[k] = IF k = 0 THEN <<>>
                                ELSE IF list[k] \in out THEN e[k - 1]
                                ELSE Append(e[k - 1], list[k])
    <3>. DEFINE b == Body(e)
    <3>1. \A k \in 0 .. n : b[k] = IF k = 0 THEN <<>>
                                ELSE IF list[k] \in out THEN e[k - 1]
                                ELSE Append(e[k - 1], list[k])
      OBVIOUS
    <3>2. e = b
      BY <1>8
    <3>. HIDE DEF b
    <3>3. QED
      BY <3>1, <3>2
  <2>3. e[0] = <<>>
    BY <2>1, <2>2
  <2>4. \A k \in 1 .. n : e[k] = WithPath(e[k - 1], list[k], out)
    BY <2>1, <2>2 DEF WithPath
  <2>5. DOMAIN e = 0 .. n /\ e = [k \in 0 .. n |-> e[k]]
    BY <1>8
  <2>6. QED
    BY <2>3, <2>4, <2>5
<1>10. \A k \in 0 .. n : e[k] \in S
  <2>. DEFINE T == {k \in 0 .. n : e[k] \in S}
  <2>. HIDE DEF n, S
  <2>1. 0 \in T
    BY <1>1, <1>9
  <2>2. ASSUME NEW k \in 1 .. n, k - 1 \in T PROVE k \in T
    <3>1. k \in 0 .. n /\ e[k - 1] \in S
      BY <2>2
    <3>2. QED
      BY <1>3, <1>9, <3>1
  <2>3. \A k \in 0 .. n : k \in T
    <3>. HIDE DEF T
    <3>1. QED
      BY <1>1, <2>1, <2>2, PrefixInduction
  <2>4. QED
    BY <2>3
<1>11. e \in [0 .. n -> S]
  <2>. HIDE DEF n, S
  <2>1. QED
    BY <1>9, <1>10
<1>12. Collects(e, list, out)
  BY <1>9 DEF Collects
<1>13. OtherPaths(list, out) = e[n]
  BY DEF OtherPaths, e
<1>14. QED
  BY <1>11, <1>12, <1>13

LEMMA OtherPathsPaths ==
  ASSUME NEW P, NEW list \in Seq(P), NEW out
  PROVE  OtherPaths(list, out) \in Seq(P \ out) /\ OtherPaths(<<>>, out) = <<>>
<1>1. PICK e : /\ Collects(e, list, out) /\ OtherPaths(list, out) = e[Len(list)]
               /\ e \in [0 .. Len(list) -> Seq(P \ out)]
  BY OtherPathsIs
<1>2. OtherPaths(list, out) \in Seq(P \ out)
  <2>1. Len(list) \in 0 .. Len(list)
    OBVIOUS
  <2>2. QED
    BY <1>1, <2>1
<1>3. OtherPaths(<<>>, out) = <<>>
  <2>1. <<>> \in Seq(P) /\ Len(<<>>) = 0
    OBVIOUS
  <2>2. PICK d : Collects(d, <<>>, out) /\ OtherPaths(<<>>, out) = d[Len(<<>>)]
    BY <2>1, OtherPathsIs
  <2>3. QED
    BY <2>1, <2>2 DEF Collects
<1>4. QED
  BY <1>2, <1>3

LEMMA OtherPathsAppend ==
  ASSUME NEW P, NEW list \in Seq(P), NEW path \in P, NEW out
  PROVE  OtherPaths(Append(list, path), out) = WithPath(OtherPaths(list, out), path, out)
<1>. DEFINE n == Len(list)
            more == Append(list, path)
<1>1. /\ more \in Seq(P) /\ Len(more) = n + 1 /\ more[n + 1] = path
      /\ \A k \in 1 .. n : more[k] = list[k]
      /\ n \in Nat
  OBVIOUS
<1>2. PICK e : Collects(e, list, out) /\ OtherPaths(list, out) = e[n]
  BY OtherPathsIs
<1>. HIDE DEF more, n
<1>3. PICK d : Collects(d, more, out) /\ OtherPaths(more, out) = d[n + 1]
  <2>1. PICK d : Collects(d, more, out) /\ OtherPaths(more, out) = d[Len(more)]
    BY <1>1, OtherPathsIs
  <2>2. QED
    BY <1>1, <2>1
<1>. DEFINE T == {k \in 0 .. n : d[k] = e[k]}
<1>4. 0 \in T
  BY <1>1, <1>2, <1>3 DEF Collects
<1>5. ASSUME NEW k \in 1 .. n, k - 1 \in T PROVE k \in T
  <2>1. k \in 0 .. n /\ d[k - 1] = e[k - 1] /\ k \in 1 .. n + 1
    BY <1>1, <1>5
  <2>2. d[k] = WithPath(d[k - 1], more[k], out) /\ e[k] = WithPath(e[k - 1], list[k], out)
    BY <1>1, <1>2, <1>3, <2>1 DEF Collects, n
  <2>3. QED
    BY <1>1, <2>1, <2>2
<1>6. \A k \in 0 .. n : k \in T
  <2>. HIDE DEF T
  <2>1. QED
    BY <1>1, <1>4, <1>5, PrefixInduction
<1>7. d[n] = e[n]
  <2>1. n \in 0 .. n
    BY <1>1
  <2>2. QED
    BY <1>6, <2>1
<1>8. d[n + 1] = WithPath(d[n], path, out)
  <2>1. n + 1 \in 1 .. n + 1 /\ (n + 1) - 1 = n
    BY <1>1
  <2>2. QED
    BY <1>1, <1>3, <2>1 DEF Collects
<1>9. QED
  BY <1>2, <1>3, <1>7, <1>8 DEF more

\* One path after the other.
LEMMA PrefixGrows ==
  ASSUME NEW P, NEW list \in Seq(P), NEW k \in 1 .. Len(list)
  PROVE  /\ list[k] \in P /\ SubSeq(list, 1, k - 1) \in Seq(P)
         /\ SubSeq(list, 1, k) = Append(SubSeq(list, 1, k - 1), list[k])
OBVIOUS

\* What is left out twice.
LEMMA OtherPathsTwice ==
  ASSUME NEW P, NEW list \in Seq(P), NEW out, NEW more
  PROVE  OtherPaths(OtherPaths(list, out), more) = OtherPaths(list, out \cup more)
<1>. DEFINE n == Len(list)
            Some(k) == SubSeq(list, 1, k)
            T == {k \in 0 .. n : OtherPaths(OtherPaths(Some(k), out), more)
                                  = OtherPaths(Some(k), out \cup more)}
<1>1. n \in Nat /\ Some(0) = <<>> /\ Some(n) = list
  OBVIOUS
<1>7. \A k \in 1 .. n : /\ list[k] \in P /\ Some(k - 1) \in Seq(P)
                        /\ Some(k) = Append(Some(k - 1), list[k])
  BY PrefixGrows
<1>. HIDE DEF Some
<1>2. 0 \in T
  <2>1. <<>> \in Seq(P)
    OBVIOUS
  <2>2. OtherPaths(<<>>, out) = <<>> /\ OtherPaths(<<>>, more) = <<>> /\ OtherPaths(<<>>, out \cup more) = <<>>
    BY <2>1, OtherPathsPaths
  <2>3. QED
    BY <1>1, <2>2
<1>3. ASSUME NEW k \in 1 .. n, k - 1 \in T PROVE k \in T
  <2>. DEFINE s == Some(k - 1)
              x == list[k]
              s1 == OtherPaths(s, out)
  <2>1. x \in P /\ s \in Seq(P) /\ Some(k) = Append(s, x)
    BY <1>7
  <2>2. OtherPaths(s1, more) = OtherPaths(s, out \cup more)
    BY <1>3
  <2>. HIDE DEF s, x
  <2>3. s1 \in Seq(P \ out)
    BY <2>1, OtherPathsPaths
  <2>4. OtherPaths(Append(s, x), out) = WithPath(s1, x, out)
    BY <2>1, OtherPathsAppend
  <2>5. OtherPaths(Append(s, x), out \cup more) = WithPath(OtherPaths(s, out \cup more), x, out \cup more)
    BY <2>1, OtherPathsAppend
  <2>6. x \notin out => OtherPaths(Append(s1, x), more) = WithPath(OtherPaths(s1, more), x, more)
    <3>1. x \notin out => x \in P \ out
      BY <2>1
    <3>. HIDE DEF s1
    <3>2. QED
      BY <2>3, <3>1, OtherPathsAppend
  <2>. HIDE DEF s1
  <2>7. OtherPaths(OtherPaths(Some(k), out), more) = OtherPaths(Some(k), out \cup more)
    BY <2>1, <2>2, <2>4, <2>5, <2>6 DEF WithPath
  <2>8. QED
    BY <1>1, <2>7
<1>4. \A k \in 0 .. n : k \in T
  <2>. HIDE DEF T
  <2>1. QED
    BY <1>1, <1>2, <1>3, PrefixInduction
<1>5. n \in T
  <2>. HIDE DEF T
  <2>1. QED
    BY <1>1, <1>4
<1>6. QED
  BY <1>1, <1>5

LEMMA ConcatAppend ==
  ASSUME NEW P, NEW p \in Seq(P), NEW q \in Seq(P), NEW z \in P
  PROVE  p \o Append(q, z) = Append(p \o q, z)
<1>. DEFINE u == p \o Append(q, z)
            v == Append(p \o q, z)
<1>1. u \in Seq(P) /\ Len(u) = Len(p) + Len(q) + 1
  OBVIOUS
<1>2. v \in Seq(P) /\ Len(v) = Len(p) + Len(q) + 1
  OBVIOUS
<1>3. ASSUME NEW i \in 1 .. Len(p) + Len(q) + 1 PROVE u[i] = v[i]
  <2>1. CASE i \in 1 .. Len(p)
    BY <2>1
  <2>2. CASE i \in Len(p) + 1 .. Len(p) + Len(q)
    BY <2>2
  <2>3. CASE i = Len(p) + Len(q) + 1
    BY <2>3
  <2>4. QED
    BY <2>1, <2>2, <2>3
<1>. HIDE DEF u, v
<1>4. u = v
  BY <1>1, <1>2, <1>3
<1>5. QED
  BY <1>4 DEF u, v

LEMMA AppendedSame ==
  ASSUME NEW P, NEW a \in Seq(P), NEW b \in Seq(P), NEW x \in P, NEW y \in P,
         Append(a, y) = Append(b, x)
  PROVE  a = b
<1>1. Len(a) = Len(b)
  <2>1. Len(Append(a, y)) = Len(a) + 1 /\ Len(Append(b, x)) = Len(b) + 1
    OBVIOUS
  <2>2. QED
    BY <2>1
<1>2. \A i \in 1 .. Len(a) : a[i] = Append(a, y)[i] /\ b[i] = Append(b, x)[i]
  BY <1>1
<1>3. QED
  BY <1>1, <1>2

\* A beginning of what is left is what is left of a beginning.
LEMMA OtherPathsBegins ==
  ASSUME NEW P, NEW list \in Seq(P), NEW out, NEW done \in Seq(P), NEW rest \in Seq(P),
         done \o rest = OtherPaths(list, out)
  PROVE  \E m \in 0 .. Len(list) : done = OtherPaths(SubSeq(list, 1, m), out)
<1>. DEFINE n == Len(list)
            Some(k) == SubSeq(list, 1, k)
            Begins(d, k) == \E m \in 0 .. k : d = OtherPaths(Some(m), out)
            T == {k \in 0 .. n : \A d, r \in Seq(P) :
                                    d \o r = OtherPaths(Some(k), out) => Begins(d, k)}
<1>1. n \in Nat /\ Some(0) = <<>> /\ Some(n) = list
  OBVIOUS
<1>7. \A k \in 1 .. n : /\ list[k] \in P /\ Some(k - 1) \in Seq(P)
                        /\ Some(k) = Append(Some(k - 1), list[k])
  BY PrefixGrows
<1>. HIDE DEF Some
<1>2. 0 \in T
  <2>1. <<>> \in Seq(P)
    OBVIOUS
  <2>2. OtherPaths(Some(0), out) = <<>>
    BY <1>1, <2>1, OtherPathsPaths
  <2>3. ASSUME NEW d \in Seq(P), NEW r \in Seq(P), d \o r = <<>> PROVE d = <<>>
    BY <2>3
  <2>4. QED
    BY <1>1, <2>2, <2>3
<1>3. ASSUME NEW k \in 1 .. n, k - 1 \in T PROVE k \in T
  <2>. DEFINE s == Some(k - 1)
              x == list[k]
              s1 == OtherPaths(s, out)
  <2>1. x \in P /\ s \in Seq(P) /\ Some(k) = Append(s, x)
    BY <1>7
  <2>2. \A d, r \in Seq(P) : d \o r = s1 => Begins(d, k - 1)
    BY <1>3
  <2>3. OtherPaths(Some(k), out) = WithPath(s1, x, out) /\ s1 \in Seq(P)
    <3>. HIDE DEF s, x
    <3>1. s1 \in Seq(P \ out)
      BY <2>1, OtherPathsPaths
    <3>2. OtherPaths(Some(k), out) = WithPath(s1, x, out)
      BY <2>1, OtherPathsAppend
    <3>. HIDE DEF s1
    <3>3. QED
      BY <3>1, <3>2
  <2>4. \A d : Begins(d, k - 1) => Begins(d, k)
    BY <1>1
  <2>5. ASSUME NEW d \in Seq(P), NEW r \in Seq(P), d \o r = OtherPaths(Some(k), out)
        PROVE  Begins(d, k)
    <3>1. CASE x \in out
      <4>1. d \o r = s1
        BY <2>3, <2>5, <3>1 DEF WithPath
      <4>. HIDE DEF s1, Begins
      <4>2. QED
        BY <2>2, <2>4, <4>1
    <3>2. CASE x \notin out /\ r = <<>>
      <4>1. d \o r = d
        BY <3>2
      <4>2. k \in 0 .. k
        BY <1>1
      <4>3. QED
        BY <2>5, <4>1, <4>2
    <3>3. CASE x \notin out /\ r # <<>>
      <4>. DEFINE front == SubSeq(r, 1, Len(r) - 1)
      <4>1. d \o r = Append(s1, x)
        BY <2>3, <2>5, <3>3 DEF WithPath
      <4>. HIDE DEF s1, s, x, Begins
      <4>2. front \in Seq(P) /\ r = Append(front, r[Len(r)])
        BY <3>3
      <4>3. d \o front = s1
        <5>. DEFINE y == r[Len(r)]
                    a == d \o front
        <5>1. y \in P /\ r = Append(front, y) /\ front \in Seq(P)
          BY <4>2, <3>3
        <5>. HIDE DEF y, front
        <5>2. d \o Append(front, y) = Append(d \o front, y)
          BY ONLY <2>5, <5>1, ConcatAppend
        <5>3. a \in Seq(P) /\ Append(a, y) = Append(s1, x)
          <6>1. a \in Seq(P)
            BY <5>1
          <6>2. d \o r = d \o Append(front, y)
            BY <5>1
          <6>3. QED
            BY <4>1, <5>2, <6>1, <6>2
        <5>. HIDE DEF a
        <5>4. a = s1
          BY ONLY <2>1, <2>3, <5>1, <5>3, AppendedSame
        <5>5. QED
          BY <5>4 DEF a
      <4>. HIDE DEF front
      <4>4. QED
        BY <2>2, <2>4, <4>2, <4>3
    <3>4. QED
      BY <3>1, <3>2, <3>3
  <2>. HIDE DEF Begins, Some
  <2>6. k \in 0 .. n
    BY <1>1
  <2>7. \A d, r \in Seq(P) : d \o r = OtherPaths(Some(k), out) => Begins(d, k)
    BY <2>5
  <2>8. QED
    BY <2>6, <2>7
<1>4. \A k \in 0 .. n : k \in T
  <2>. HIDE DEF T
  <2>1. QED
    BY <1>1, <1>2, <1>3, PrefixInduction
<1>5. n \in T
  <2>. HIDE DEF T
  <2>1. QED
    BY <1>1, <1>4
<1>6. Begins(done, n)
  <2>1. done \o rest = OtherPaths(Some(n), out)
    BY <1>1
  <2>. HIDE DEF Begins
  <2>2. QED
    BY <1>5, <2>1
<1>8. QED
  BY <1>6 DEF Some

LEMMA OtherPathsAll ==
  ASSUME NEW P, NEW list \in Seq(P)
  PROVE  OtherPaths(list, {}) = list
<1>. DEFINE n == Len(list)
            Some(k) == SubSeq(list, 1, k)
            T == {k \in 0 .. n : OtherPaths(Some(k), {}) = Some(k)}
<1>1. n \in Nat /\ Some(0) = <<>> /\ Some(n) = list
  OBVIOUS
<1>7. \A k \in 1 .. n : /\ list[k] \in P /\ Some(k - 1) \in Seq(P)
                        /\ Some(k) = Append(Some(k - 1), list[k])
  BY PrefixGrows
<1>. HIDE DEF Some
<1>2. 0 \in T
  <2>1. <<>> \in Seq(P)
    OBVIOUS
  <2>2. OtherPaths(<<>>, {}) = <<>>
    BY ONLY <2>1, OtherPathsPaths
  <2>3. QED
    BY <1>1, <2>2
<1>3. ASSUME NEW k \in 1 .. n, k - 1 \in T PROVE k \in T
  <2>. DEFINE s == Some(k - 1)
              x == list[k]
  <2>1. x \in P /\ s \in Seq(P) /\ Some(k) = Append(s, x)
    BY <1>7
  <2>2. OtherPaths(s, {}) = s
    BY <1>3
  <2>. HIDE DEF s, x
  <2>3. OtherPaths(Append(s, x), {}) = WithPath(OtherPaths(s, {}), x, {})
    BY ONLY <2>1, OtherPathsAppend
  <2>4. OtherPaths(Append(s, x), {}) = Append(s, x)
    BY <2>2, <2>3 DEF WithPath
  <2>5. OtherPaths(Some(k), {}) = Some(k)
    BY <2>1, <2>4
  <2>6. QED
    BY <1>1, <2>5
<1>4. \A k \in 0 .. n : k \in T
  <2>. HIDE DEF T
  <2>1. QED
    BY <1>1, <1>2, <1>3, PrefixInduction
<1>5. n \in T
  <2>. HIDE DEF T
  <2>1. QED
    BY <1>1, <1>4
<1>6. QED
  BY <1>1, <1>5

\* The paths of tabs as a list.
PathList(list) == [k \in 1 .. Len(list) |-> list[k].path]

LEMMA PathListIs ==
  ASSUME NEW list \in Seq(TabRecords)
  PROVE  PathList(list) \in Seq(Paths \cup {NoPath}) /\ PathsOf(list) = OtherPaths(PathList(list), {NoPath})
<1>1. \A k \in 1 .. Len(list) : list[k].path \in Paths \cup {NoPath}
  <2>1. \A k \in 1 .. Len(list) : list[k] \in TabRecords
    OBVIOUS
  <2>2. QED
    BY <2>1 DEF TabRecords
<1>2. PathList(list) \in [1 .. Len(list) -> Paths \cup {NoPath}] /\ Len(list) \in Nat
  BY <1>1 DEF PathList
<1>3. QED
  BY <1>2 DEF PathsOf, PathList

LEMMA PathsOfPaths ==
  ASSUME NEW list \in Seq(TabRecords)
  PROVE  PathsOf(list) \in Seq(Paths) /\ PathsOf(<<>>) = <<>>
<1>. DEFINE P == Paths \cup {NoPath}
            l == PathList(list)
<1>1. l \in Seq(P) /\ PathsOf(list) = OtherPaths(l, {NoPath})
  BY PathListIs
<1>2. P \ {NoPath} = Paths
  BY EditorAssumption
<1>3. PathsOf(<<>>) = OtherPaths(<<>>, {NoPath})
  <2>1. <<>> \in Seq(TabRecords) /\ PathList(<<>>) = <<>>
    BY DEF PathList
  <2>2. QED
    BY <2>1, PathListIs
<1>. HIDE DEF P, l
<1>4. QED
  BY <1>1, <1>2, <1>3, OtherPathsPaths

LEMMA PathsOfAppend ==
  ASSUME NEW list \in Seq(TabRecords), NEW tab \in TabRecords
  PROVE  PathsOf(Append(list, tab)) = WithPath(PathsOf(list), tab.path, {NoPath})
<1>. DEFINE P == Paths \cup {NoPath}
            l == PathList(list)
            m == PathList(Append(list, tab))
<1>1. /\ l \in Seq(P) /\ PathsOf(list) = OtherPaths(l, {NoPath})
      /\ PathsOf(Append(list, tab)) = OtherPaths(m, {NoPath})
  <2>1. Append(list, tab) \in Seq(TabRecords)
    OBVIOUS
  <2>2. QED
    BY <2>1, PathListIs
<1>2. tab.path \in P
  BY DEF TabRecords
<1>3. m = Append(l, tab.path)
  BY <1>2 DEF PathList
<1>. HIDE DEF P, l, m
<1>4. QED
  BY <1>1, <1>2, <1>3, OtherPathsAppend

-----------------------------------------------------------------------------
(* What a save makes of a tab. *)

\* What a save may make of a tab (app/files.rs).
LEMMA SaveOutcomesAre ==
  ASSUME NEW tab \in TabRecords, NEW saveAs \in BOOLEAN, NEW o \in SaveOutcomes(tab, saveAs)
  PROVE  /\ o.tab \in TabRecords /\ o.tab.id = tab.id /\ o.tab.view.undo = tab.view.undo
         /\ o.saved \in BOOLEAN
         /\ o.saved => o.tab.path \in Paths
         /\ ~ o.saved => (Dirty(o.tab.view) <=> Dirty(tab.view))
<1>. DEFINE t == tab.view
<1>1. /\ t \in Views /\ t \in Docs /\ tab.path \in Paths \cup {NoPath}
      /\ t \in ViewFields
  BY ViewTypes DEF TabRecords, Views
\* A tab whose view keeps what a boundary keeps.
<1>2. ASSUME NEW r, Still(r, t)
      PROVE  /\ Boundary(r) \in Views /\ Boundary(r).undo = t.undo
             /\ Boundary(r).savedDepth = r.savedDepth
  <2>1. Still(Boundary(r), t)
    BY <1>2, BoundaryStill
  <2>2. r \in ViewFields
    BY <1>2, ViewTypes DEF Still
  <2>3. Boundary(r).savedDepth = r.savedDepth
    BY <2>2 DEF Boundary, ViewFields
  <2>4. QED
    BY <2>1, <2>3, QuietViews DEF Still
<1>3. ASSUME o = [tab |-> tab, saved |-> FALSE]
      PROVE  /\ o.tab \in TabRecords /\ o.tab.id = tab.id /\ o.tab.view.undo = tab.view.undo
             /\ o.saved = FALSE /\ (Dirty(o.tab.view) <=> Dirty(tab.view))
  BY <1>3
<1>4. ASSUME o = [tab |-> Bounded(Refused(tab)), saved |-> FALSE]
      PROVE  /\ o.tab \in TabRecords /\ o.tab.id = tab.id /\ o.tab.view.undo = tab.view.undo
             /\ o.saved = FALSE /\ (Dirty(o.tab.view) <=> Dirty(tab.view))
  <2>. DEFINE r == EndTyping(t)
              b == Boundary(r)
  <2>1. Still(r, t) /\ r.savedDepth = t.savedDepth
    BY <1>1, EndTypingStill
  <2>2. b \in Views /\ b.undo = t.undo /\ b.savedDepth = t.savedDepth
    BY <1>2, <2>1
  <2>3. Bounded(Refused(tab)) = [tab EXCEPT !.view = b]
    <3>. DEFINE w == [tab EXCEPT !.view = r]
    <3>1. Refused(tab) = w
      BY DEF Refused
    <3>2. w.view = r /\ \A v : [w EXCEPT !.view = v] = [tab EXCEPT !.view = v]
      BY DEF TabRecords
    <3>3. Bounded(w) = [w EXCEPT !.view = Boundary(w.view)]
      BY DEF Bounded
    <3>. HIDE DEF w, r
    <3>4. QED
      BY <3>1, <3>2, <3>3
  <2>. HIDE DEF b
  <2>4. o.tab = [tab EXCEPT !.view = b] /\ o.saved = FALSE
    BY <1>4, <2>3
  <2>5. o.tab \in TabRecords /\ o.tab.id = tab.id /\ o.tab.view = b
    BY <2>2, <2>4, ViewInTab
  <2>6. QED
    BY <2>2, <2>4, <2>5 DEF Dirty
<1>5. ASSUME NEW p \in Paths, o = [tab |-> Bounded(SavedAs(tab, p)), saved |-> TRUE]
      PROVE  /\ o.tab \in TabRecords /\ o.tab.id = tab.id /\ o.tab.view.undo = tab.view.undo
             /\ o.saved = TRUE /\ o.tab.path = p
  <2>. DEFINE s == [t EXCEPT !.savedDepth = Len(t.undo)]
              r == EndTyping(s)
              b == Boundary(r)
  <2>1. s \in Docs /\ s.undo = t.undo
    <3>0. Len(t.undo) \in Int
      BY <1>1, ViewTypes
    <3>1. s \in ViewFields
      BY <1>1, <3>0 DEF ViewFields
    <3>2. s.undo = t.undo /\ s.redo = t.redo /\ s.len = t.len
      BY <1>1 DEF ViewFields
    <3>. HIDE DEF s
    <3>3. QED
      BY <1>1, <3>1, <3>2, SameDoc
  <2>. HIDE DEF s
  <2>2. Still(r, t)
    BY <2>1, EndTypingStill DEF Still
  <2>3. b \in Views /\ b.undo = t.undo
    BY <1>2, <2>2
  <2>. HIDE DEF r
  <2>4. Bounded(SavedAs(tab, p)) = [tab EXCEPT !.view = b, !.path = p, !.changed = FALSE]
    <3>. DEFINE w == [tab EXCEPT !.view = r, !.path = p, !.changed = FALSE]
    <3>1. SavedAs(tab, p) = w
      BY DEF SavedAs, r, s
    <3>2. w.view = r
          /\ \A v : [w EXCEPT !.view = v] = [tab EXCEPT !.view = v, !.path = p, !.changed = FALSE]
      BY DEF TabRecords
    <3>3. Bounded(w) = [w EXCEPT !.view = Boundary(w.view)]
      BY DEF Bounded
    <3>. HIDE DEF w
    <3>4. QED
      BY <3>1, <3>2, <3>3
  <2>. HIDE DEF b
  <2>5. o.tab = [tab EXCEPT !.view = b, !.path = p, !.changed = FALSE] /\ o.saved = TRUE
    BY <1>5, <2>4
  <2>6. o.tab \in TabRecords /\ o.tab.id = tab.id /\ o.tab.view = b /\ o.tab.path = p
    BY <2>3, <2>5 DEF TabRecords
  <2>7. QED
    BY <2>3, <2>5, <2>6
<1>6. SaveTargets(tab, saveAs) \subseteq Paths
  BY <1>1 DEF SaveTargets
<1>7. \/ o = [tab |-> tab, saved |-> FALSE]
      \/ o = [tab |-> Bounded(Refused(tab)), saved |-> FALSE]
      \/ \E p \in Paths : o = [tab |-> Bounded(SavedAs(tab, p)), saved |-> TRUE]
  BY <1>6, Zenon DEF SaveOutcomes
<1>8. QED
  BY <1>3, <1>4, <1>5, <1>7

-----------------------------------------------------------------------------
(* The invariant. *)

Indices == Nat \ {0}

TabsOk == ListOk(tabs, known.nextId)

SearchOk ==
  \/ search = NoSearch
  \/ search \in [kind : {"next", "all", "replace"}, tab : Indices, queue : Seq(Indices),
                 count : Nat, target : Nat]

HitsOk == hits \in Seq([tab : Indices, at : Nat])

PendingOk ==
  pending \in [kind : {"none", "quit"}, tab : {0}, of : {0}]
               \cup [kind : {"tab"}, tab : Indices, of : Nat]

PrefsShape(p) == p = [session |-> p.session, recent |-> p.recent] /\ p.session \in Seq(Paths)

LeftOk == left \in [DOMAIN left -> Int] /\ "kills" \in DOMAIN left

GridOk ==
  active \in Indices /\ SearchOk /\ HitsOk /\ PendingOk /\ PrefsShape(prefs) /\ LeftOk

KnownShape(k) ==
  /\ k = [nextId |-> k.nextId, atQuit |-> k.atQuit, answer |-> k.answer,
          missing |-> k.missing, reopening |-> k.reopening, dropped |-> k.dropped]
  /\ k.nextId \in Nat /\ k.missing \subseteq Paths /\ k.reopening \in {"whole", "cut"}

LifeOk ==
  /\ closing \in BOOLEAN
  /\ life \in {"restoring", "restored", "running", "panicked", "closed"}
  /\ restoring \in Seq(Paths)
  /\ KnownShape(known)

\* A list that may be what the next start is to reopen.
Owed(k, list) ==
  /\ list \in Seq(Paths) /\ k.atQuit \in Seq(Paths)
  /\ \E n \in IF k.reopening = "whole" THEN {Len(k.atQuit)} ELSE 1 .. Len(k.atQuit) :
       list = OtherPaths(SubSeq(k.atQuit, 1, n), k.dropped)

\* What was to be reopened is so up to `rest`: those are the paths of the tabs,
\* and the stored session once there are any.
Reopened(k, paths, session, rest) ==
  \E done \in Seq(Paths) :
    /\ Owed(k, done \o rest)
    /\ paths = OtherPaths(done, k.missing)
    /\ session = IF paths = <<>> THEN done \o rest ELSE paths

SessionOk ==
  /\ life = "restoring" => restoring # <<>>
  /\ known.atQuit # NotQuit =>
       /\ life = "closed" => Owed(known, prefs.session)
       /\ life = "restoring" => Reopened(known, PathsOf(tabs), prefs.session, restoring)
       /\ life = "restored" => Reopened(known, PathsOf(tabs), prefs.session, <<>>)

EInv == TabsOk /\ GridOk /\ LifeOk /\ SessionOk

-----------------------------------------------------------------------------
(* One input. *)

\* What every input but an opening and the end of the window leaves.
Worked ==
  /\ ListOk(tabs', known.nextId) /\ OneStepOn(tabs, tabs') /\ UnsavedIds(tabs) \subseteq Ids(tabs')
  /\ GridOk'

\* Unsaved tabs are tabs.
LEMMA UnsavedAreOpen ==
  ASSUME NEW list
  PROVE  UnsavedIds(list) \subseteq Ids(list)
BY DEF UnsavedIds, Ids

\* An input spends of its budget.
LEMMA Spent ==
  ASSUME LeftOk, NEW class, Spend(class)
  PROVE  LeftOk' /\ (class = "kills" => left'.kills # left.kills)
<1>. DEFINE new == [left EXCEPT ![class] = left[class] - 1]
<1>1. left' = new
  BY DEF Spend
<1>2. DOMAIN new = DOMAIN left
  OBVIOUS
<1>3. new \in [DOMAIN left -> Int]
  <2>1. \A x \in DOMAIN left : left[x] \in Int
    BY DEF LeftOk
  <2>2. \A x \in DOMAIN left : new[x] \in Int
    BY <2>1 DEF LeftOk
  <2>3. new = [x \in DOMAIN left |-> new[x]]
    BY DEF LeftOk
  <2>. HIDE DEF new
  <2>4. QED
    BY <2>2, <2>3
<1>4. class = "kills" => new["kills"] # left["kills"]
  BY DEF LeftOk
<1>. HIDE DEF new
<1>5. QED
  BY <1>1, <1>2, <1>3, <1>4 DEF LeftOk

LEMMA SavedPrefs ==
  ASSUME NEW p, PrefsShape(p), NEW list \in Seq(TabRecords), NEW r
  PROVE  /\ PrefsShape(SavePrefs(p, list)) /\ SavePrefs(p, list).session = PathsOf(list)
         /\ PrefsShape([p EXCEPT !.recent = r])
<1>. DEFINE s == p.session
            q == p.recent
            ps == PathsOf(list)
<1>1. p = [session |-> s, recent |-> q] /\ s \in Seq(Paths)
  BY DEF PrefsShape
<1>2. ps \in Seq(Paths)
  BY PathsOfPaths
<1>. HIDE DEF s, q, ps
<1>3. [p EXCEPT !.session = ps] = [session |-> ps, recent |-> q]
  BY <1>1
<1>4. [p EXCEPT !.recent = r] = [session |-> s, recent |-> r]
  BY <1>1
<1>5. QED
  BY <1>1, <1>2, <1>3, <1>4 DEF PrefsShape, SavePrefs, ps

LEMMA RestKept ==
  ASSUME EInv, UNCHANGED <<pending, search, hits, prefs>>
  PROVE  SearchOk' /\ HitsOk' /\ PendingOk' /\ PrefsShape(prefs')
BY DEF EInv, GridOk, SearchOk, HitsOk, PendingOk

LEMMA ViewIs ==
  ASSUME EInv, HasTab
  PROVE  /\ active \in 1 .. Len(tabs) /\ View \in Views /\ View \in Docs
         /\ View = tabs[active].view /\ tabs[active].id \in Nat
<1>1. active \in 1 .. Len(tabs)
  BY DEF EInv, GridOk, Indices, HasTab, TabsOk, ListOk
<1>2. QED
  BY <1>1, ListTypes DEF EInv, TabsOk, View

\* The active tab after one operation on its grid.
LEMMA ShowsWorks ==
  ASSUME EInv, HasTab, NEW t, Follows(t, View), Shows(t), LeftOk'
  PROVE  Worked
<1>1. active \in 1 .. Len(tabs) /\ View = tabs[active].view
  BY ViewIs
<1>. DEFINE new == [tabs EXCEPT ![active].view = t]
<1>2. ListOk(new, known.nextId) /\ OneStepOn(tabs, new) /\ Ids(new) = Ids(tabs)
  BY <1>1, ShowList DEF EInv, TabsOk
<1>3. tabs' = new /\ UNCHANGED <<active, pending, search, hits, prefs>>
  BY DEF Shows
<1>. HIDE DEF new
<1>4. active' \in Indices
  BY <1>3 DEF EInv, GridOk
<1>5. QED
  BY <1>2, <1>3, <1>4, RestKept, UnsavedAreOpen DEF Worked, GridOk

LEMMA MovesWork ==
  ASSUME EInv, Moves
  PROVE  Worked
<1>1. HasTab /\ Spend("moves") /\ LeftOk'
  BY Spent DEF Moves, EInv, GridOk
<1>2. View \in Views /\ View \in Docs /\ View.cursor \in Nat /\ View.len \in Nat
  BY <1>1, ViewIs, ViewTypes
<1>3. ASSUME NEW r, Still(r, View) PROVE Follows(Boundary(r), View)
  BY <1>2, <1>3, BoundaryStill, StillFollows
<1>4. PICK t : Shows(t) /\ Follows(t, View)
  <2>1. CASE \E to \in KeyTargets(View), extend \in BOOLEAN :
               to # View.cursor /\ Shows(Boundary(MoveCursor(View, to, extend)))
    <3>1. PICK to \in KeyTargets(View), extend \in BOOLEAN :
                 Shows(Boundary(MoveCursor(View, to, extend)))
      BY <2>1
    <3>2. to \in Nat
      BY <1>2, KeyTargetsNat
    <3>3. Still(MoveCursor(View, to, extend), View)
      BY <1>2, <3>2, MoveStill
    <3>4. QED
      BY <1>3, <3>1, <3>3
  <2>2. CASE \E to \in 0 .. View.len, extend \in BOOLEAN, pane \in {"hex", "text"} :
               Shows(Boundary([MoveCursor(View, to, extend) EXCEPT !.pane = pane]))
    <3>1. PICK to \in 0 .. View.len, extend \in BOOLEAN, pane \in {"hex", "text"} :
                 Shows(Boundary([MoveCursor(View, to, extend) EXCEPT !.pane = pane]))
      BY <2>2
    <3>. DEFINE r == MoveCursor(View, to, extend)
    <3>2. Still(r, View)
      <4>1. to \in Nat
        BY <1>2
      <4>2. QED
        BY <1>2, <4>1, MoveStill
    <3>. HIDE DEF r
    <3>3. Still([r EXCEPT !.pane = pane], View)
      <4>1. FALSE \in BOOLEAN
        OBVIOUS
      <4>2. QED
        BY <3>2, <4>1, PaneDoc DEF Still
    <3>4. QED
      BY <1>3, <3>1, <3>3 DEF r
  <2>3. CASE \E to \in 0 .. View.len : Shows(Boundary(Goto(View, to)))
    <3>1. PICK to \in 0 .. View.len : Shows(Boundary(Goto(View, to)))
      BY <2>3
    <3>2. to \in Nat
      BY <1>2
    <3>3. Still(Goto(View, to), View)
      BY <1>2, <3>2, GotoStill
    <3>4. QED
      BY <1>3, <3>1, <3>3
  <2>4. CASE \E from \in 0 .. View.len, to \in 1 .. MaxLength :
               from < to /\ Shows(Boundary(SelectRange(View, from, to)))
    <3>1. PICK from \in 0 .. View.len, to \in 1 .. MaxLength :
                 Shows(Boundary(SelectRange(View, from, to)))
      BY <2>4
    <3>2. from \in Nat /\ to \in Nat
      BY <1>2, LengthsAssumption
    <3>3. Still(SelectRange(View, from, to), View)
      BY <1>2, <3>2, SelectStill
    <3>4. QED
      BY <1>3, <3>1, <3>3
  <2>5. CASE Shows(Boundary(SelectAll(View)))
    <3>1. 0 \in Nat
      OBVIOUS
    <3>2. Still(SelectAll(View), View)
      BY <1>2, <3>1, SelectStill
    <3>3. QED
      BY <1>3, <2>5, <3>2
  <2>6. CASE Shows(SwitchPane(View))
    BY <1>2, <2>6, SwitchPaneFollows
  <2>7. CASE Shows([View EXCEPT !.anchor = None])
    BY <1>2, <2>7, ModesFollow
  <2>8. CASE Shows([View EXCEPT !.insertMode = ~ @])
    BY <1>2, <2>8, ModesFollow
  <2>9. CASE Shows([View EXCEPT !.readOnly = ~ @])
    BY <1>2, <2>9, ModesFollow
  <2>10. QED
    BY <2>1, <2>2, <2>3, <2>4, <2>5, <2>6, <2>7, <2>8, <2>9 DEF Moves
<1>5. QED
  BY <1>1, <1>4, ShowsWorks

LEMMA TypesWork ==
  ASSUME EInv, Types
  PROVE  Worked
<1>1. HasTab /\ Spend("edits") /\ LeftOk'
  BY Spent DEF Types, EInv, GridOk
<1>2. View \in Views /\ Len(View.undo) \in Nat
  BY <1>1, ViewIs, ViewTypes
<1>3. CASE UNCHANGED <<tabs, active, pending, search, hits, prefs>>
  <2>1. ListOk(tabs, known.nextId) /\ OneStepOn(tabs, tabs) /\ active \in Indices
    BY SameList DEF EInv, TabsOk, GridOk
  <2>2. UnsavedIds(tabs) \subseteq Ids(tabs)
    BY UnsavedAreOpen
  <2>3. QED
    BY <1>1, <1>3, <2>1, <2>2, RestKept DEF Worked, GridOk
<1>4. CASE Shows(TypeHexDigit(View))
  BY <1>1, <1>2, <1>4, TypeHexDigitFollows, ShowsWorks
<1>5. CASE \E n \in 1 .. MaxTyped : Shows(TypeText(View, n))
  <2>1. PICK n \in 1 .. MaxTyped : Shows(TypeText(View, n))
    BY <1>5
  <2>2. n \in Nat
    BY LengthsAssumption
  <2>3. QED
    BY <1>1, <1>2, <2>1, <2>2, TypeTextFollows, ShowsWorks
<1>6. QED
  BY <1>3, <1>4, <1>5 DEF Types

LEMMA EditsWork ==
  ASSUME EInv, Edits
  PROVE  Worked
<1>1. HasTab /\ Spend("edits") /\ LeftOk'
  BY Spent DEF Edits, EInv, GridOk
<1>2. View \in Views
  BY <1>1, ViewIs
<1>3. PICK t : Shows(t) /\ Follows(t, View)
  <2>1. CASE \E n \in 1 .. MaxTyped, inserting \in BOOLEAN : Shows(Paste(View, n, inserting))
    <3>1. PICK n \in 1 .. MaxTyped, inserting \in BOOLEAN : Shows(Paste(View, n, inserting))
      BY <2>1
    <3>2. n \in Nat
      BY LengthsAssumption
    <3>3. QED
      BY <1>2, <3>1, <3>2, PasteFollows
  <2>2. CASE Shows(Backspace(View)) \/ Shows(DeleteKey(View)) \/ Shows(Cut(View))
    BY <1>2, <2>2, DeletionsFollow
  <2>3. CASE \/ Shows(InspectorWrites(View, 1)) \/ Shows(FillSelection(View))
             \/ Shows(FixChecksum(View))
    BY <1>2, <2>3, PanelsFollow
  <2>4. CASE Shows(Boundary(MenuUndo(View))) \/ Shows(Boundary(MenuRedo(View)))
    BY <1>2, <2>4, MenuStill
  <2>5. QED
    BY <2>1, <2>2, <2>3, <2>4 DEF Edits
<1>4. QED
  BY <1>1, <1>3, ShowsWorks

LEMMA SavesWork ==
  ASSUME EInv, Saves
  PROVE  Worked
<1>1. HasTab /\ LeftOk' /\ UNCHANGED <<active, pending, search, hits>>
  BY Spent DEF Saves, EInv, GridOk
<1>2. PICK saveAs \in BOOLEAN : \E o \in SaveOutcomes(tabs[active], saveAs) :
        /\ tabs' = [tabs EXCEPT ![active] = o.tab]
        /\ prefs' = IF o.saved THEN AfterSave(prefs, tabs', o.tab.path) ELSE prefs
  BY DEF Saves
<1>3. PICK o \in SaveOutcomes(tabs[active], saveAs) :
        /\ tabs' = [tabs EXCEPT ![active] = o.tab]
        /\ prefs' = IF o.saved THEN AfterSave(prefs, tabs', o.tab.path) ELSE prefs
  BY <1>2
<1>4. /\ active \in 1 .. Len(tabs) /\ ListOk(tabs, known.nextId)
      /\ tabs[active] \in TabRecords /\ Len(tabs[active].view.undo) \in Nat
  BY <1>1, ViewIs, ListTypes DEF EInv, TabsOk
<1>5. /\ o.tab \in TabRecords /\ o.tab.id = tabs[active].id
      /\ o.tab.view.undo = tabs[active].view.undo
  BY <1>4, SaveOutcomesAre
<1>6. ListOk(tabs', known.nextId) /\ OneStepOn(tabs, tabs') /\ Ids(tabs') = Ids(tabs)
  <2>1. Len(o.tab.view.undo) <= Len(tabs[active].view.undo) + 1
    BY <1>4, <1>5
  <2>. DEFINE tab == o.tab
              new == [tabs EXCEPT ![active] = tab]
  <2>2. /\ tab \in TabRecords /\ tab.id = tabs[active].id
        /\ Len(tab.view.undo) <= Len(tabs[active].view.undo) + 1
        /\ tabs' = new
    BY <1>3, <1>5, <2>1
  <2>. DEFINE next == known.nextId
  <2>. HIDE DEF tab
  <2>3. ListOk(new, next) /\ OneStepOn(tabs, new) /\ Ids(new) = Ids(tabs)
    <3>1. ListOk(tabs, next)
      BY <1>4
    <3>. HIDE DEF next
    <3>2. QED
      BY ONLY <1>4, <2>2, <3>1, EditList
  <2>. HIDE DEF new
  <2>4. QED
    BY <2>2, <2>3
<1>7. PrefsShape(prefs')
  <2>1. PrefsShape(prefs) /\ tabs' \in Seq(TabRecords)
    BY <1>6 DEF EInv, GridOk, ListOk
  <2>. DEFINE p == [prefs EXCEPT !.recent = AddRecent(@, o.tab.path)]
  <2>2. PrefsShape(p)
    BY <2>1, SavedPrefs
  <2>3. AfterSave(prefs, tabs', o.tab.path) = SavePrefs(p, tabs')
    BY DEF AfterSave
  <2>. HIDE DEF p
  <2>4. PrefsShape(SavePrefs(p, tabs'))
    BY <2>1, <2>2, SavedPrefs
  <2>5. QED
    BY <1>3, <2>1, <2>3, <2>4
<1>8. SearchOk' /\ HitsOk' /\ PendingOk' /\ active' \in Indices
  BY <1>1 DEF EInv, GridOk, SearchOk, HitsOk, PendingOk
<1>9. QED
  BY <1>1, <1>6, <1>7, <1>8, UnsavedAreOpen DEF Worked, GridOk

LEMMA ClampedIs ==
  ASSUME NEW i \in Int, NEW n \in Int
  PROVE  Clamped(i, n) \in Indices
BY DEF Clamped, Indices, Lesser, Greater

\* Only a tab without changes is closed at once.
LEMMA RemovedWork ==
  ASSUME NEW list, NEW next, ListOk(list, next), NEW i \in 1 .. Len(list), ~ Dirty(list[i].view)
  PROVE  LET new == RemoveAt(list, i)
         IN  /\ ListOk(new, next) /\ OneStepOn(list, new)
             /\ UnsavedIds(list) \subseteq Ids(new)
<1>. DEFINE new == RemoveAt(list, i)
<1>1. /\ ListOk(new, next) /\ Among(new, list)
      /\ \A k \in 1 .. Len(list) : k # i => list[k].id \in Ids(new)
  BY RemoveList
<1>. HIDE DEF new
<1>2. OneStepOn(list, new)
  BY <1>1, SameList, AmongOneStep
<1>3. UnsavedIds(list) \subseteq Ids(new)
  BY <1>1 DEF UnsavedIds
<1>4. QED
  BY <1>1, <1>2, <1>3 DEF new

LEMMA ClosesWork ==
  ASSUME EInv, Closes
  PROVE  Worked
<1>1. HasTab /\ LeftOk' /\ UNCHANGED <<search, hits, prefs>>
  BY Spent DEF Closes, EInv, GridOk
<1>2. active \in 1 .. Len(tabs) /\ ListOk(tabs, known.nextId) /\ active \in Int /\ Len(tabs) \in Int
  BY <1>1, ViewIs DEF EInv, TabsOk, ListOk
<1>3. SearchOk' /\ HitsOk' /\ PrefsShape(prefs')
  BY <1>1 DEF EInv, GridOk, SearchOk, HitsOk
<1>4. CASE Dirty(tabs[active].view)
  <2>1. pending' = TabPending(active) /\ UNCHANGED <<tabs, active>>
    BY <1>4 DEF Closes, RequestCloseTab
  <2>2. PendingOk' /\ active' \in Indices
    <3>1. tabs[active].id \in Nat
      <4>1. tabs[active] \in TabRecords
        BY <1>2 DEF ListOk
      <4>2. QED
        BY <4>1 DEF TabRecords
    <3>2. QED
      BY <2>1, <3>1 DEF PendingOk, TabPending, EInv, GridOk
  <2>3. ListOk(tabs', known.nextId) /\ OneStepOn(tabs, tabs') /\ UnsavedIds(tabs) \subseteq Ids(tabs')
    BY <1>2, <2>1, SameList, UnsavedAreOpen
  <2>4. QED
    BY <1>1, <1>3, <2>2, <2>3 DEF Worked, GridOk
<1>5. CASE ~ Dirty(tabs[active].view)
  <2>1. /\ tabs' = RemoveAt(tabs, active) /\ active' = Clamped(active, Len(tabs) - 1)
        /\ UNCHANGED pending
    BY <1>5 DEF Closes, RequestCloseTab, CloseTab
  <2>2. ListOk(tabs', known.nextId) /\ OneStepOn(tabs, tabs') /\ UnsavedIds(tabs) \subseteq Ids(tabs')
    BY <1>2, <1>5, <2>1, RemovedWork
  <2>3. active' \in Indices
    <3>1. Len(tabs) - 1 \in Int
      BY <1>2
    <3>2. QED
      BY <1>2, <2>1, <3>1, ClampedIs
  <2>4. PendingOk'
    BY <2>1 DEF PendingOk, EInv, GridOk
  <2>5. QED
    BY <1>1, <1>3, <2>2, <2>3, <2>4 DEF Worked, GridOk
<1>6. QED
  BY <1>4, <1>5

LEMMA SameTabsWork ==
  ASSUME EInv, UNCHANGED tabs, GridOk'
  PROVE  Worked
BY SameList, UnsavedAreOpen DEF EInv, TabsOk, Worked

LEMMA SwitchTabWorks ==
  ASSUME EInv, SwitchTab
  PROVE  Worked
<1>1. LeftOk' /\ UNCHANGED <<tabs, pending, search, hits, prefs>> /\ active' \in 1 .. Len(tabs)
  BY Spent DEF SwitchTab, EInv, GridOk
<1>2. active' \in Indices
  BY <1>1 DEF Indices, EInv, TabsOk, ListOk
<1>3. QED
  BY <1>1, <1>2, RestKept, SameTabsWork DEF GridOk

LEMMA ExternalChangeWorks ==
  ASSUME EInv, ExternalChange
  PROVE  Worked
<1>1. LeftOk' /\ UNCHANGED <<active, pending, search, hits, prefs>>
  BY Spent DEF ExternalChange, EInv, GridOk
<1>2. PICK i \in 1 .. Len(tabs) : tabs' = [tabs EXCEPT ![i].changed = TRUE]
  BY DEF ExternalChange
<1>3. ListOk(tabs', known.nextId) /\ OneStepOn(tabs, tabs') /\ Ids(tabs') = Ids(tabs)
  BY <1>2, ChangedList DEF EInv, TabsOk
<1>4. active' \in Indices
  BY <1>1 DEF EInv, GridOk
<1>5. QED
  BY <1>1, <1>3, <1>4, RestKept, UnsavedAreOpen DEF Worked, GridOk

LEMMA BannerWorks ==
  ASSUME EInv, Banner
  PROVE  Worked
<1>1. HasTab /\ UNCHANGED <<active, pending, search, hits, prefs, left>>
  BY DEF Banner
<1>2. active \in 1 .. Len(tabs) /\ View \in Views /\ View = tabs[active].view
  BY <1>1, ViewIs
<1>3. ListOk(tabs', known.nextId) /\ OneStepOn(tabs, tabs') /\ Ids(tabs') = Ids(tabs)
  <2>1. CASE \E n \in Lengths :
               tabs' = [tabs EXCEPT ![active].view = ReloadedView(@, n), ![active].changed = FALSE]
    <3>1. PICK n \in Lengths :
               tabs' = [tabs EXCEPT ![active].view = ReloadedView(@, n), ![active].changed = FALSE]
      BY <2>1
    <3>. DEFINE t == ReloadedView(tabs[active].view, n)
    <3>2. Follows(t, tabs[active].view)
      BY <1>2, ReloadedFollows, EditorAssumption
    <3>3. tabs' = [tabs EXCEPT ![active].view = t, ![active].changed = FALSE]
      BY <3>1
    <3>. HIDE DEF t
    <3>4. QED
      BY <1>2, <3>2, <3>3, ReloadList DEF EInv, TabsOk
  <2>2. CASE tabs' = [tabs EXCEPT ![active].changed = FALSE]
    BY <1>2, <2>2, ChangedList DEF EInv, TabsOk
  <2>3. QED
    BY <2>1, <2>2 DEF Banner
<1>4. active' \in Indices /\ LeftOk'
  BY <1>1 DEF EInv, GridOk, LeftOk
<1>5. QED
  BY <1>1, <1>3, <1>4, RestKept, UnsavedAreOpen DEF Worked, GridOk

LEMMA ClickHitWorks ==
  ASSUME EInv, ClickHit
  PROVE  Worked
<1>1. LeftOk' /\ UNCHANGED <<pending, search, hits, prefs>>
  BY Spent DEF ClickHit, EInv, GridOk
<1>2. PICK k \in 1 .. Len(hits) :
        /\ hits[k].tab <= Len(tabs)
        /\ active' = hits[k].tab
        /\ tabs' = [tabs EXCEPT ![hits[k].tab].view =
                      Boundary(SelectRange(@, hits[k].at, hits[k].at + 1))]
  BY DEF ClickHit
<1>. DEFINE i == hits[k].tab
            at == hits[k].at
            t == Boundary(SelectRange(tabs[i].view, at, at + 1))
<1>3. i \in Indices /\ at \in Nat /\ at + 1 \in Nat
  <2>1. hits[k] \in [tab : Indices, at : Nat]
    <3>. DEFINE R == [tab : Indices, at : Nat]
    <3>1. hits \in Seq(R)
      BY DEF EInv, GridOk, HitsOk
    <3>. HIDE DEF R
    <3>2. hits[k] \in R
      BY ONLY <3>1, k \in 1 .. Len(hits)
    <3>3. QED
      BY <3>2 DEF R
  <2>2. QED
    BY <2>1
<1>4. i \in 1 .. Len(tabs)
  BY <1>2, <1>3 DEF Indices, EInv, TabsOk, ListOk
<1>5. tabs' = [tabs EXCEPT ![i].view = t]
  BY <1>2
<1>. HIDE DEF i, at
<1>6. Follows(t, tabs[i].view)
  <2>1. tabs[i].view \in Docs
    BY <1>4, ListTypes DEF EInv, TabsOk
  <2>2. QED
    BY <1>3, <2>1, SelectStill, BoundaryStill, StillFollows
<1>. HIDE DEF t
<1>7. ListOk(tabs', known.nextId) /\ OneStepOn(tabs, tabs') /\ Ids(tabs') = Ids(tabs)
  BY <1>4, <1>5, <1>6, ShowList DEF EInv, TabsOk
<1>8. active' \in Indices
  BY <1>2, <1>3 DEF i
<1>9. QED
  BY <1>1, <1>7, <1>8, RestKept, UnsavedAreOpen DEF Worked, GridOk

LEMMA CancelSearchWorks ==
  ASSUME EInv, CancelSearch
  PROVE  Worked
<1>1. UNCHANGED <<tabs, active, pending, hits, prefs, left>> /\ search' = NoSearch
  BY DEF CancelSearch
<1>2. GridOk'
  BY <1>1 DEF EInv, GridOk, SearchOk, HitsOk, PendingOk, LeftOk
<1>3. QED
  BY <1>1, <1>2, SameTabsWork

\* A search that starts in the active tab.
LEMMA SearchOfOk ==
  ASSUME EInv, HasTab, NEW kind \in {"next", "all", "replace"}, NEW queue \in {<<>>, OtherTabs}
  PROVE  SearchOf(kind, queue) \in [kind : {"next", "all", "replace"}, tab : Indices,
                                    queue : Seq(Indices), count : Nat, target : Nat]
<1>1. active \in 1 .. Len(tabs) /\ active \in Indices /\ tabs[active].id \in Nat
  BY ViewIs DEF EInv, GridOk
<1>2. queue \in Seq(Indices)
  <2>1. <<>> \in Seq(Indices)
    OBVIOUS
  <2>2. OtherTabs \in Seq(Indices)
    <3>. DEFINE n == Len(tabs) - 1
    <3>1. n \in Nat
      BY <1>1 DEF EInv, TabsOk, ListOk
    <3>2. \A k \in 1 .. n : (IF k < active THEN k ELSE k + 1) \in Indices
      BY <3>1 DEF Indices
    <3>3. OtherTabs = [k \in 1 .. n |-> IF k < active THEN k ELSE k + 1]
      BY DEF OtherTabs
    <3>. HIDE DEF n
    <3>4. OtherTabs \in [1 .. n -> Indices]
      BY <3>2, <3>3
    <3>5. QED
      BY <3>1, <3>4
  <2>3. QED
    BY <2>1, <2>2
<1>3. QED
  BY <1>1, <1>2 DEF SearchOf

LEMMA StartSearchWorks ==
  ASSUME EInv, StartSearch
  PROVE  Worked
<1>1. HasTab /\ LeftOk' /\ UNCHANGED <<active, pending, prefs>>
  BY Spent DEF StartSearch, EInv, GridOk
<1>2. PendingOk' /\ PrefsShape(prefs') /\ active' \in Indices
  BY <1>1 DEF EInv, GridOk, PendingOk
<1>3. \E kind \in {"next", "all", "replace"}, queue \in {<<>>, OtherTabs} :
        search' = SearchOf(kind, queue)
  BY DEF StartSearch
<1>4. SearchOk'
  BY <1>1, <1>3, SearchOfOk DEF SearchOk
<1>5. hits' = <<>> \/ hits' = hits
  BY DEF StartSearch
<1>6. HitsOk'
  <2>1. <<>> \in Seq([tab : Indices, at : Nat])
    OBVIOUS
  <2>2. QED
    BY <1>5, <2>1 DEF HitsOk, EInv, GridOk
<1>7. GridOk'
  BY <1>1, <1>2, <1>4, <1>6 DEF GridOk
<1>8. CASE UNCHANGED tabs
  BY <1>7, <1>8, SameTabsWork
<1>9. CASE tabs' # tabs
  <2>1. /\ Selected(View)
        /\ tabs' = [tabs EXCEPT ![active].view =
                      Boundary(Goto(Committed(EndTyping(@), "replacement", 0), SelEnd(@)))]
    BY <1>9 DEF StartSearch
  <2>. DEFINE t == Boundary(Goto(Committed(EndTyping(View), "replacement", 0), SelEnd(View)))
  <2>2. active \in 1 .. Len(tabs) /\ View \in Views /\ View = tabs[active].view
    BY <1>1, ViewIs
  <2>3. Follows(t, View)
    BY <2>1, <2>2, ReplaceOneFollows
  <2>4. tabs' = [tabs EXCEPT ![active].view = t]
    BY <2>1, <2>2
  <2>. HIDE DEF t
  <2>5. ListOk(tabs', known.nextId) /\ OneStepOn(tabs, tabs') /\ Ids(tabs') = Ids(tabs)
    BY <2>2, <2>3, <2>4, ShowList DEF EInv, TabsOk
  <2>6. QED
    BY <1>7, <2>5, UnsavedAreOpen DEF Worked
<1>10. QED
  BY <1>8, <1>9

-----------------------------------------------------------------------------
(* One step of the window. *)

\* The formula of UnsavedWorkIsKept.
KeptStep ==
  life = "running" /\ life' \in {"running", "closed"} /\ left'.kills = left.kills =>
     /\ Lost # {} => /\ Answered({"discard", "saved"}) /\ pending.kind = "tab"
                     /\ Lost = {IF Shifted THEN tabs[pending.tab].id ELSE pending.of}
     /\ (closing' /\ ~ closing) => Answered({"discard", "saved"})
     /\ (life' = "closed" /\ ~ closing) => UnsavedIds(tabs) = {}

StepGood == EInv' /\ OneStepOn(tabs, tabs') /\ KeptStep

Known(n, q, a, g, d, r) ==
  [nextId |-> n, atQuit |-> q, answer |-> a, missing |-> g, reopening |-> d, dropped |-> r]

LEMMA KnownFields ==
  ASSUME NEW n \in Nat, NEW q, NEW a, NEW g \in SUBSET Paths, NEW d \in {"whole", "cut"}, NEW r
  PROVE  LET j == Known(n, q, a, g, d, r)
         IN  /\ KnownShape(j) /\ j.nextId = n /\ j.atQuit = q /\ j.answer = a
             /\ j.missing = g /\ j.reopening = d /\ j.dropped = r
BY DEF KnownShape, Known

LEMMA KnownOpened ==
  ASSUME NEW k, KnownShape(k)
  PROVE  LET new == [k EXCEPT !.nextId = @ + 1]
         IN  KnownShape(new) /\ new.nextId = k.nextId + 1
             /\ new.atQuit = k.atQuit /\ new.reopening = k.reopening /\ new.missing = k.missing
             /\ new.dropped = k.dropped
<1>. DEFINE n == k.nextId
            q == k.atQuit
            a == k.answer
            g == k.missing
            d == k.reopening
            r == k.dropped
            new == [k EXCEPT !.nextId = @ + 1]
<1>1. k = Known(n, q, a, g, d, r) /\ n \in Nat /\ g \subseteq Paths /\ d \in {"whole", "cut"} /\ n + 1 \in Nat
  BY DEF KnownShape, Known
<1>. HIDE DEF n, q, a, g, d, r
<1>2. new = Known(n + 1, q, a, g, d, r)
  BY <1>1 DEF Known
<1>3. k.nextId = n /\ k.atQuit = q /\ k.reopening = d /\ k.missing = g /\ k.dropped = r
  BY <1>1 DEF Known
<1>. HIDE DEF new
<1>4. n + 1 \in Nat /\ g \in SUBSET Paths
  BY <1>1
<1>5. /\ KnownShape(new) /\ new.nextId = n + 1 /\ new.atQuit = q /\ new.answer = a
      /\ new.missing = g /\ new.reopening = d /\ new.dropped = r
  BY ONLY <1>1, <1>2, <1>4, KnownFields
<1>6. QED
  BY <1>3, <1>5, Zenon DEF new

LEMMA KnownSaid ==
  ASSUME NEW k, KnownShape(k), NEW x
  PROVE  LET new == [k EXCEPT !.answer = x]
         IN  KnownShape(new) /\ new.nextId = k.nextId /\ new.answer = x
<1>. DEFINE n == k.nextId
            q == k.atQuit
            a == k.answer
            g == k.missing
            d == k.reopening
            r == k.dropped
            new == [k EXCEPT !.answer = x]
<1>1. k = Known(n, q, a, g, d, r) /\ n \in Nat /\ g \subseteq Paths /\ d \in {"whole", "cut"} /\ n + 1 \in Nat
  BY DEF KnownShape, Known
<1>. HIDE DEF n, q, a, g, d, r
<1>2. new = Known(n, q, x, g, d, r)
  BY <1>1 DEF Known
<1>3. k.nextId = n /\ k.atQuit = q /\ k.reopening = d /\ k.missing = g /\ k.dropped = r
  BY <1>1 DEF Known
<1>. HIDE DEF new
<1>4. n \in Nat /\ g \in SUBSET Paths
  BY <1>1
<1>5. /\ KnownShape(new) /\ new.nextId = n /\ new.atQuit = q /\ new.answer = x
      /\ new.missing = g /\ new.reopening = d /\ new.dropped = r
  BY ONLY <1>1, <1>2, <1>4, KnownFields
<1>6. QED
  BY <1>3, <1>5, Zenon DEF new

Ended(k, x) == [k EXCEPT !.atQuit = x, !.reopening = "whole", !.dropped = {}]

LEMMA KnownEnded ==
  ASSUME NEW k, KnownShape(k), NEW x
  PROVE  /\ KnownShape(Ended(k, x)) /\ Ended(k, x).nextId = k.nextId /\ Ended(k, x).atQuit = x
         /\ Ended(k, x).reopening = "whole" /\ Ended(k, x).dropped = {}
<1>. DEFINE n == k.nextId
            q == k.atQuit
            a == k.answer
            g == k.missing
            d == k.reopening
            r == k.dropped
            new == Ended(k, x)
<1>1. k = Known(n, q, a, g, d, r) /\ n \in Nat /\ g \subseteq Paths /\ d \in {"whole", "cut"} /\ n + 1 \in Nat
  BY DEF KnownShape, Known
<1>. HIDE DEF n, q, a, g, d, r
<1>2. new = Known(n, x, a, g, "whole", {})
  <2>. DEFINE mid == [k EXCEPT !.atQuit = x]
  <2>1. mid = Known(n, x, a, g, d, r)
    BY <1>1 DEF Known
  <2>2. new = [[mid EXCEPT !.reopening = "whole"] EXCEPT !.dropped = {}]
    BY DEF Ended
  <2>. HIDE DEF mid, new
  <2>3. QED
    BY <2>1, <2>2 DEF Known
<1>3. k.nextId = n /\ k.atQuit = q /\ k.reopening = d /\ k.missing = g /\ k.dropped = r
  BY <1>1 DEF Known
<1>. DEFINE none == {}
            whole == "whole"
<1>4. n \in Nat /\ g \in SUBSET Paths /\ whole \in {"whole", "cut"} /\ new = Known(n, x, a, g, whole, none)
  BY <1>1, <1>2
<1>. HIDE DEF new, whole, none
<1>5. /\ KnownShape(new) /\ new.nextId = n /\ new.atQuit = x
      /\ new.reopening = whole /\ new.dropped = none
  BY ONLY <1>4, KnownFields
<1>6. QED
  BY <1>3, <1>5 DEF new, whole, none

LEMMA KnownKilled ==
  ASSUME NEW k, KnownShape(k), NEW x
  PROVE  LET new == [k EXCEPT !.atQuit = x]
         IN  KnownShape(new) /\ new.nextId = k.nextId /\ new.atQuit = x
<1>. DEFINE n == k.nextId
            q == k.atQuit
            a == k.answer
            g == k.missing
            d == k.reopening
            r == k.dropped
            new == [k EXCEPT !.atQuit = x]
<1>1. k = Known(n, q, a, g, d, r) /\ n \in Nat /\ g \subseteq Paths /\ d \in {"whole", "cut"} /\ n + 1 \in Nat
  BY DEF KnownShape, Known
<1>. HIDE DEF n, q, a, g, d, r
<1>2. new = Known(n, x, a, g, d, r)
  BY <1>1 DEF Known
<1>3. k.nextId = n /\ k.atQuit = q /\ k.reopening = d /\ k.missing = g /\ k.dropped = r
  BY <1>1 DEF Known
<1>. HIDE DEF new
<1>4. n \in Nat /\ g \in SUBSET Paths
  BY <1>1
<1>5. /\ KnownShape(new) /\ new.nextId = n /\ new.atQuit = x /\ new.answer = a
      /\ new.missing = g /\ new.reopening = d /\ new.dropped = r
  BY ONLY <1>1, <1>2, <1>4, KnownFields
<1>6. QED
  BY <1>3, <1>5, Zenon DEF new

CutShort(k, x) == [k EXCEPT !.reopening = "cut", !.dropped = x]

LEMMA KnownCut ==
  ASSUME NEW k, KnownShape(k), NEW x
  PROVE  /\ KnownShape(CutShort(k, x)) /\ CutShort(k, x).nextId = k.nextId
         /\ CutShort(k, x).atQuit = k.atQuit
         /\ CutShort(k, x).reopening = "cut" /\ CutShort(k, x).dropped = x
<1>. DEFINE n == k.nextId
            q == k.atQuit
            a == k.answer
            g == k.missing
            d == k.reopening
            r == k.dropped
            new == CutShort(k, x)
<1>1. k = Known(n, q, a, g, d, r) /\ n \in Nat /\ g \subseteq Paths
  BY DEF KnownShape, Known
<1>. HIDE DEF n, q, a, g, d, r
<1>2. new = Known(n, q, a, g, "cut", x)
  <2>. DEFINE mid == [k EXCEPT !.reopening = "cut"]
  <2>1. mid = Known(n, q, a, g, "cut", r)
    BY <1>1 DEF Known
  <2>2. new = [mid EXCEPT !.dropped = x]
    BY DEF CutShort
  <2>. HIDE DEF mid, new
  <2>3. QED
    BY <2>1, <2>2 DEF Known
<1>3. k.nextId = n /\ k.atQuit = q
  BY <1>1 DEF Known
<1>. DEFINE cut == "cut"
<1>4. n \in Nat /\ g \in SUBSET Paths /\ cut \in {"whole", "cut"} /\ new = Known(n, q, a, g, cut, x)
  BY <1>1, <1>2
<1>. HIDE DEF new, cut
<1>5. /\ KnownShape(new) /\ new.nextId = n /\ new.atQuit = q /\ new.answer = a
      /\ new.missing = g /\ new.reopening = cut /\ new.dropped = x
  BY ONLY <1>4, KnownFields
<1>6. QED
  BY <1>3, <1>5 DEF new, cut

Begun(k, x, m) == [k EXCEPT !.atQuit = x, !.missing = m]

LEMMA KnownBegun ==
  ASSUME NEW k, KnownShape(k), NEW x, NEW m, m \subseteq Paths
  PROVE  /\ KnownShape(Begun(k, x, m)) /\ Begun(k, x, m).atQuit = x
         /\ Begun(k, x, m).reopening = k.reopening /\ Begun(k, x, m).dropped = k.dropped
<1>. DEFINE n == k.nextId
            q == k.atQuit
            a == k.answer
            g == k.missing
            d == k.reopening
            r == k.dropped
            new == Begun(k, x, m)
<1>1. k = Known(n, q, a, g, d, r) /\ n \in Nat /\ g \subseteq Paths /\ d \in {"whole", "cut"} /\ n + 1 \in Nat
  BY DEF KnownShape, Known
<1>. HIDE DEF n, q, a, g, d, r
<1>2. new = Known(n, x, a, m, d, r)
  <2>. DEFINE mid == [k EXCEPT !.atQuit = x]
  <2>1. mid = Known(n, x, a, g, d, r)
    BY <1>1 DEF Known
  <2>2. new = [mid EXCEPT !.missing = m]
    BY DEF Begun
  <2>. HIDE DEF mid, new
  <2>3. QED
    BY <2>1, <2>2 DEF Known
<1>3. k.nextId = n /\ k.atQuit = q /\ k.reopening = d /\ k.missing = g /\ k.dropped = r
  BY <1>1 DEF Known
<1>. HIDE DEF new
<1>4. n \in Nat /\ m \in SUBSET Paths
  BY <1>1
<1>5. /\ KnownShape(new) /\ new.nextId = n /\ new.atQuit = x /\ new.answer = a
      /\ new.missing = m /\ new.reopening = d /\ new.dropped = r
  BY ONLY <1>1, <1>2, <1>4, KnownFields
<1>6. QED
  BY <1>3, <1>5, Zenon DEF new

\* What is owed to the next start depends on the last clean end alone.
LEMMA OwedStays ==
  ASSUME NEW k, NEW j, j.atQuit = k.atQuit, j.reopening = k.reopening, j.dropped = k.dropped,
         NEW list, Owed(k, list)
  PROVE  Owed(j, list)
BY DEF Owed

\* A clean end owes all that is open.
LEMMA OwedWhole ==
  ASSUME NEW k, k.atQuit \in Seq(Paths), k.reopening = "whole", k.dropped = {}
  PROVE  Owed(k, k.atQuit)
<1>. DEFINE q == k.atQuit
<1>1. q \in Seq(Paths)
  OBVIOUS
<1>. HIDE DEF q
<1>2. SubSeq(q, 1, Len(q)) = q
  BY <1>1
<1>3. OtherPaths(q, {}) = q
  BY ONLY <1>1, OtherPathsAll
<1>4. QED
  BY <1>1, <1>2, <1>3 DEF Owed, q

\* A start cut short owes a beginning.
LEMMA OwedCut ==
  ASSUME NEW k, NEW j, NEW paths, NEW session, NEW rest \in Seq(Paths),
         Reopened(k, paths, session, rest), paths # <<>>,
         j.atQuit = k.atQuit, j.reopening = "cut", j.dropped = k.dropped \cup k.missing
  PROVE  Owed(j, session)
<1>. DEFINE q == k.atQuit
            out == k.dropped
            gone == k.missing
<1>1. PICK done \in Seq(Paths) :
        /\ Owed(k, done \o rest) /\ paths = OtherPaths(done, gone) /\ session = paths
  BY DEF Reopened
<1>2. q \in Seq(Paths)
  BY <1>1 DEF Owed
<1>3. PICK n \in 0 .. Len(q) : done \o rest = OtherPaths(SubSeq(q, 1, n), out)
  BY <1>1, <1>2 DEF Owed
<1>. HIDE DEF q, out, gone
<1>. DEFINE l == SubSeq(q, 1, n)
<1>4. l \in Seq(Paths) /\ Len(l) = n
  BY <1>2
<1>5. \A m \in 0 .. n : SubSeq(l, 1, m) = SubSeq(q, 1, m)
  BY <1>2, <1>4
<1>6. done \o rest = OtherPaths(l, out)
  BY <1>3
<1>. HIDE DEF l
<1>7. PICK m \in 0 .. n : done = OtherPaths(SubSeq(l, 1, m), out)
  <2>1. l \in Seq(Paths) /\ done \in Seq(Paths) /\ rest \in Seq(Paths)
    BY <1>4
  <2>2. \E m \in 0 .. Len(l) : done = OtherPaths(SubSeq(l, 1, m), out)
    BY ONLY <1>6, <2>1, OtherPathsBegins
  <2>3. QED
    BY <1>4, <2>2
<1>. DEFINE s == SubSeq(q, 1, m)
<1>8. s \in Seq(Paths) /\ done = OtherPaths(s, out) /\ (m = 0 => s = <<>>)
  <2>1. s \in Seq(Paths) /\ (m = 0 => s = <<>>)
    BY <1>2
  <2>2. SubSeq(l, 1, m) = s
    BY <1>5
  <2>. HIDE DEF s
  <2>3. QED
    BY <1>7, <2>1, <2>2
<1>. HIDE DEF s
<1>9. paths = OtherPaths(s, out \cup gone)
  BY <1>1, <1>8, OtherPathsTwice
<1>10. m # 0
  <2>1. OtherPaths(<<>>, out \cup gone) = <<>>
    BY <1>2, OtherPathsPaths
  <2>2. QED
    BY <1>8, <1>9, <2>1
<1>11. paths \in Seq(Paths)
  <2>1. paths \in Seq(Paths \ (out \cup gone))
    BY <1>8, <1>9, OtherPathsPaths
  <2>2. QED
    BY <2>1
<1>12. m \in 1 .. Len(q)
  BY <1>2, <1>10
<1>13. QED
  BY <1>1, <1>2, <1>9, <1>11, <1>12 DEF Owed, s, q, out, gone

\* A start begins with nothing open and all of what is owed ahead.
LEMMA ReopenedNone ==
  ASSUME NEW k, NEW list, Owed(k, list)
  PROVE  Reopened(k, <<>>, list, list)
<1>1. list \in Seq(Paths)
  BY DEF Owed
<1>2. <<>> \in Seq(Paths) /\ <<>> \o list = list
  BY <1>1
<1>3. OtherPaths(<<>>, k.missing) = <<>>
  BY <1>2, OtherPathsPaths
<1>4. QED
  BY <1>2, <1>3 DEF Reopened

\* One path after the other.
LEMMA ReopenedOne ==
  ASSUME NEW k, NEW paths, NEW session, NEW path \in Paths, NEW rest \in Seq(Paths),
         Reopened(k, paths, session, <<path>> \o rest), NEW later, NEW stored,
         later = WithPath(paths, path, k.missing),
         stored = IF path \in k.missing THEN session ELSE later
  PROVE  Reopened(k, later, stored, rest)
<1>1. PICK done \in Seq(Paths) :
        /\ Owed(k, done \o (<<path>> \o rest)) /\ paths = OtherPaths(done, k.missing)
        /\ session = IF paths = <<>> THEN done \o (<<path>> \o rest) ELSE paths
  BY DEF Reopened
<1>. DEFINE more == Append(done, path)
<1>2. more \in Seq(Paths) /\ more \o rest = done \o (<<path>> \o rest)
  <2>1. more = done \o <<path>>
    OBVIOUS
  <2>2. (done \o <<path>>) \o rest = done \o (<<path>> \o rest)
    <3>1. <<path>> \in Seq(Paths)
      OBVIOUS
    <3>. DEFINE one == <<path>>
    <3>. HIDE DEF one
    <3>2. one \in Seq(Paths)
      BY <3>1 DEF one
    <3>3. (done \o one) \o rest = done \o (one \o rest)
      BY <3>2, ConcatAssociative
    <3>4. QED
      BY <3>3 DEF one
  <2>3. more \in Seq(Paths)
    OBVIOUS
  <2>. HIDE DEF more
  <2>4. QED
    BY <2>1, <2>2, <2>3
<1>3. OtherPaths(more, k.missing) = later
  BY <1>1, OtherPathsAppend
<1>4. path \notin k.missing => later # <<>>
  <2>1. paths \in Seq(Paths \ k.missing)
    BY <1>1, OtherPathsPaths
  <2>2. Append(paths, path) # <<>>
    <3>0. paths \in Seq(Paths)
      BY <2>1
    <3>1. Len(Append(paths, path)) = Len(paths) + 1 /\ Len(paths) \in Nat
      BY <3>0
    <3>. DEFINE longer == Append(paths, path)
    <3>2. Len(<<>>) = 0 /\ Len(longer) = Len(paths) + 1 /\ Len(longer) # 0
      BY <3>1
    <3>. HIDE DEF longer
    <3>3. longer # <<>>
      BY <3>2
    <3>4. QED
      BY <3>3 DEF longer
  <2>3. QED
    BY <2>2 DEF WithPath
<1>. HIDE DEF more
<1>5. stored = IF later = <<>> THEN more \o rest ELSE later
  BY <1>1, <1>2, <1>4 DEF WithPath
<1>6. QED
  BY <1>1, <1>2, <1>3, <1>5 DEF Reopened

\* A step after which the window is not about to start, and keeps what it has.
LEMMA WorkedGood ==
  ASSUME EInv, Worked, UNCHANGED <<closing, restoring, known>>,
         life = "running", life' \in {"running", "panicked"}
  PROVE  StepGood
<1>1. TabsOk'
  BY DEF Worked, TabsOk
<1>2. LifeOk'
  BY DEF EInv, LifeOk
<1>3. SessionOk'
  BY DEF SessionOk
<1>4. EInv' /\ OneStepOn(tabs, tabs')
  BY <1>1, <1>2, <1>3 DEF EInv, Worked
<1>5. KeptStep
  BY DEF KeptStep, Worked, Lost
<1>6. QED
  BY <1>4, <1>5 DEF StepGood

LEMMA TabOfOk ==
  ASSUME NEW t \in Views, NEW path \in Paths \cup {NoPath}, NEW id \in Nat
  PROVE  TabOf(t, path, id) \in TabRecords /\ TabOf(t, path, id).id = id
         /\ TabOf(t, path, id).path = path
BY DEF TabOf, TabRecords

LEMMA OpenedList ==
  ASSUME EInv, NEW t \in Views, NEW path \in Paths \cup {NoPath}, tabs' = Opened(tabs, t, path)
  PROVE  /\ ListOk(tabs', known.nextId + 1) /\ OneStepOn(tabs, tabs')
         /\ UnsavedIds(tabs) \subseteq Ids(tabs')
         /\ PathsOf(tabs') = WithPath(PathsOf(tabs), path, {NoPath})
         /\ Len(tabs) + 1 \in Indices
<1>. DEFINE next == known.nextId
            tab == TabOf(t, path, next)
            new == Append(tabs, tab)
<1>1. next \in Nat /\ ListOk(tabs, next) /\ tabs \in Seq(TabRecords)
  BY DEF EInv, LifeOk, KnownShape, TabsOk, ListOk
<1>2. tab \in TabRecords /\ tab.id = next /\ tab.path = path
  <2>1. next \in Nat
    BY <1>1
  <2>. HIDE DEF next
  <2>2. QED
    BY ONLY <2>1, TabOfOk
<1>3. tabs' = new
  BY DEF Opened
<1>. HIDE DEF next, tab
<1>4. ListOk(new, next + 1) /\ OneStepOn(tabs, new) /\ Ids(tabs) \subseteq Ids(new)
  BY ONLY <1>1, <1>2, AppendList
<1>5. PathsOf(new) = WithPath(PathsOf(tabs), path, {NoPath})
  BY <1>1, <1>2, PathsOfAppend
<1>6. Len(tabs) + 1 \in Indices
  BY <1>1 DEF Indices
<1>. HIDE DEF new
<1>7. QED
  BY <1>3, <1>4, <1>5, <1>6, UnsavedAreOpen DEF next

\* What the session is compared with stays.
SameEnd ==
  /\ known'.atQuit = known.atQuit /\ known'.missing = known.missing /\ known'.reopening = known.reopening
  /\ known'.dropped = known.dropped

LEMMA OpenPathGood ==
  ASSUME EInv, NEW path \in Paths, OpenPath(path)
  PROVE  /\ TabsOk' /\ OneStepOn(tabs, tabs') /\ UnsavedIds(tabs) \subseteq Ids(tabs')
         /\ active' \in Indices /\ PrefsShape(prefs')
         /\ KnownShape(known') /\ SameEnd
         /\ PathsOf(tabs') = Append(PathsOf(tabs), path)
         /\ prefs'.session = PathsOf(tabs')
<1>1. PICK n \in Lengths :
        /\ tabs' = Opened(tabs, NewTab(n), path)
        /\ active' = Len(tabs) + 1
        /\ prefs' = SavePrefs([prefs EXCEPT !.recent = AddRecent(@, path)], tabs')
        /\ known' = [known EXCEPT !.nextId = @ + 1]
  BY DEF OpenPath
<1>2. NewTab(n) \in Views
  BY NewTabDoc, QuietViews, EditorAssumption
<1>3. path # NoPath
  BY EditorAssumption
<1>4. /\ ListOk(tabs', known.nextId + 1) /\ OneStepOn(tabs, tabs')
      /\ UnsavedIds(tabs) \subseteq Ids(tabs')
      /\ PathsOf(tabs') = Append(PathsOf(tabs), path)
      /\ active' \in Indices
  BY <1>1, <1>2, <1>3, OpenedList DEF WithPath
<1>5. KnownShape(known') /\ SameEnd /\ known'.nextId = known.nextId + 1
  <2>1. KnownShape(known)
    BY DEF EInv, LifeOk
  <2>2. QED
    BY <1>1, <2>1, KnownOpened DEF SameEnd
<1>6. PrefsShape(prefs') /\ prefs'.session = PathsOf(tabs')
  <2>. DEFINE p == [prefs EXCEPT !.recent = AddRecent(@, path)]
  <2>1. tabs' \in Seq(TabRecords) /\ PrefsShape(prefs)
    BY <1>4 DEF ListOk, EInv, GridOk
  <2>2. PrefsShape(p)
    BY <2>1, SavedPrefs
  <2>3. prefs' = SavePrefs(p, tabs')
    BY <1>1
  <2>. HIDE DEF p
  <2>4. QED
    BY <2>1, <2>2, <2>3, SavedPrefs
<1>7. QED
  BY <1>4, <1>5, <1>6 DEF TabsOk

\* File > Open and files dropped on the window.
LEMMA OpensGood ==
  ASSUME EInv, Opens, UNCHANGED <<life, closing, restoring>>, life = "running"
  PROVE  StepGood
<1>1. LeftOk' /\ UNCHANGED <<pending, search, hits>>
  BY Spent DEF Opens, EInv, GridOk
<1>2. SearchOk' /\ HitsOk' /\ PendingOk'
  BY <1>1 DEF EInv, GridOk, SearchOk, HitsOk, PendingOk
<1>3. /\ TabsOk' /\ OneStepOn(tabs, tabs') /\ UnsavedIds(tabs) \subseteq Ids(tabs')
      /\ active' \in Indices /\ PrefsShape(prefs') /\ KnownShape(known')
  <2>1. CASE \E path \in Paths : OpenPath(path)
    BY <2>1, OpenPathGood
  <2>2. CASE OpenUnnamed
    <3>1. PICK n \in Lengths, readOnly \in BOOLEAN :
            tabs' = Opened(tabs, [NewTab(n) EXCEPT !.readOnly = readOnly], NoPath)
      BY <2>2 DEF OpenUnnamed
    <3>2. active' = Len(tabs) + 1 /\ known' = [known EXCEPT !.nextId = @ + 1] /\ UNCHANGED prefs
      BY <2>2 DEF OpenUnnamed
    <3>. DEFINE u == NewTab(n)
                t == [u EXCEPT !.readOnly = readOnly]
    <3>3. t \in Views
      <4>1. u \in Docs /\ Quiet(u)
        BY NewTabDoc, EditorAssumption
      <4>. HIDE DEF u
      <4>2. t \in Docs /\ Quiet(t)
        BY <4>1, PaneDoc
      <4>3. QED
        BY <4>2, QuietViews
    <3>. HIDE DEF t
    <3>4. /\ ListOk(tabs', known.nextId + 1) /\ OneStepOn(tabs, tabs')
          /\ UnsavedIds(tabs) \subseteq Ids(tabs')
          /\ active' \in Indices
      <4>1. tabs' = Opened(tabs, t, NoPath)
        BY <3>1 DEF t
      <4>2. QED
        BY <3>2, <3>3, <4>1, OpenedList
    <3>5. KnownShape(known') /\ known'.nextId = known.nextId + 1
      <4>1. KnownShape(known)
        BY DEF EInv, LifeOk, KnownShape
      <4>2. QED
        BY <3>2, <4>1, KnownOpened
    <3>6. PrefsShape(prefs')
      BY <3>2 DEF EInv, GridOk
    <3>7. QED
      BY <3>4, <3>5, <3>6 DEF TabsOk
  <2>3. QED
    BY <2>1, <2>2 DEF Opens
<1>4. GridOk'
  BY <1>1, <1>2, <1>3 DEF GridOk
<1>5. LifeOk' /\ SessionOk'
  BY <1>3 DEF EInv, LifeOk, KnownShape, SessionOk
<1>6. KeptStep
  BY <1>3 DEF KeptStep, Lost
<1>7. QED
  BY <1>3, <1>4, <1>5, <1>6 DEF StepGood, EInv

\* The window asked to close (frame.rs:26).
LEMMA CloseWindowGood ==
  ASSUME EInv, CloseWindow, UNCHANGED <<closing, restoring>>, LeftOk',
         life = "running", closing \/ ~ AnyDirty
  PROVE  StepGood
<1>1. /\ prefs' = SavePrefs(prefs, tabs) /\ life' = "closed"
      /\ known' = [known EXCEPT !.atQuit = PathsOf(tabs), !.reopening = "whole", !.dropped = {}]
      /\ UNCHANGED <<tabs, active, pending, search, hits>>
  BY DEF CloseWindow
<1>2. PrefsShape(prefs') /\ prefs'.session = PathsOf(tabs)
  <2>1. PrefsShape(prefs) /\ tabs \in Seq(TabRecords)
    BY DEF EInv, GridOk, TabsOk, ListOk
  <2>2. QED
    BY <1>1, <2>1, SavedPrefs
<1>3. /\ KnownShape(known') /\ known'.nextId = known.nextId /\ known'.atQuit = PathsOf(tabs)
      /\ known'.reopening = "whole" /\ known'.dropped = {}
  <2>1. KnownShape(known)
    BY DEF EInv, LifeOk, KnownShape
  <2>. DEFINE x == PathsOf(tabs)
  <2>2. known' = Ended(known, x)
    BY <1>1 DEF Ended
  <2>. HIDE DEF x
  <2>3. /\ KnownShape(known') /\ known'.nextId = known.nextId /\ known'.atQuit = x
        /\ known'.reopening = "whole" /\ known'.dropped = {}
    BY ONLY <2>1, <2>2, KnownEnded
  <2>4. QED
    BY <2>3 DEF x
<1>4. TabsOk' /\ OneStepOn(tabs, tabs') /\ UnsavedIds(tabs) \subseteq Ids(tabs')
  BY <1>1, <1>3, SameList, UnsavedAreOpen DEF EInv, TabsOk
<1>5. GridOk'
  BY <1>1, <1>2 DEF EInv, GridOk, SearchOk, HitsOk, PendingOk
<1>6. LifeOk'
  BY <1>1, <1>3 DEF EInv, LifeOk, KnownShape
<1>9. SessionOk'
  <2>1. known'.atQuit \in Seq(Paths)
    <3>1. tabs \in Seq(TabRecords)
      BY DEF EInv, TabsOk, ListOk
    <3>2. QED
      BY <1>3, <3>1, PathsOfPaths
  <2>2. Owed(known', known'.atQuit)
    BY <1>3, <2>1, OwedWhole
  <2>3. QED
    BY <1>1, <1>2, <1>3, <2>2 DEF SessionOk
<1>7. KeptStep
  <2>1. ~ AnyDirty => UnsavedIds(tabs) = {}
    BY DEF AnyDirty, UnsavedIds
  <2>2. QED
    BY <1>4, <2>1 DEF KeptStep, Lost
<1>8. QED
  BY <1>4, <1>5, <1>6, <1>7, <1>9 DEF StepGood, EInv

LEMMA RequestQuitGood ==
  ASSUME EInv, RequestQuit, UNCHANGED <<closing, restoring>>, life = "running"
  PROVE  StepGood
<1>1. LeftOk'
  BY Spent DEF RequestQuit, EInv, GridOk
<1>2. CASE ~ AnyDirty /\ CloseWindow
  BY <1>1, <1>2, CloseWindowGood
<1>3. CASE /\ AnyDirty
           /\ prefs' = SavePrefs(prefs, tabs)
           /\ pending' = QuitPending
           /\ UNCHANGED <<tabs, active, search, hits, life, known>>
  <2>1. PrefsShape(prefs')
    <3>1. PrefsShape(prefs) /\ tabs \in Seq(TabRecords)
      BY DEF EInv, GridOk, TabsOk, ListOk
    <3>2. QED
      BY <1>3, <3>1, SavedPrefs
  <2>2. SearchOk' /\ HitsOk' /\ PendingOk' /\ active' \in Indices
    BY <1>3 DEF EInv, GridOk, SearchOk, HitsOk, PendingOk, QuitPending
  <2>3. Worked
    BY <1>1, <1>3, <2>1, <2>2, SameTabsWork DEF GridOk
  <2>4. QED
    BY <1>3, <2>3, WorkedGood
<1>4. QED
  BY <1>2, <1>3 DEF RequestQuit

\* One input of a frame.
LEMMA InputGood ==
  ASSUME EInv, Input
  PROVE  StepGood
<1>1. life = "running" /\ UNCHANGED <<closing, restoring>>
  BY DEF Input
<1>2. CASE Moves /\ UNCHANGED <<life, known>>
  BY <1>1, <1>2, MovesWork, WorkedGood
<1>3. CASE /\ Types
           /\ life' = IF Panics THEN "panicked" ELSE life
           /\ UNCHANGED known
  BY <1>1, <1>3, TypesWork, WorkedGood
<1>4. CASE Edits /\ UNCHANGED <<life, known>>
  BY <1>1, <1>4, EditsWork, WorkedGood
<1>5. CASE Saves /\ UNCHANGED <<life, known>>
  BY <1>1, <1>5, SavesWork, WorkedGood
<1>6. CASE Closes /\ UNCHANGED <<life, known>>
  BY <1>1, <1>6, ClosesWork, WorkedGood
<1>7. CASE (SwitchTab \/ ExternalChange \/ Banner) /\ UNCHANGED <<life, known>>
  BY <1>1, <1>7, SwitchTabWorks, ExternalChangeWorks, BannerWorks, WorkedGood
<1>8. CASE (StartSearch \/ ClickHit \/ CancelSearch) /\ UNCHANGED <<life, known>>
  BY <1>1, <1>8, StartSearchWorks, ClickHitWorks, CancelSearchWorks, WorkedGood
<1>9. CASE Opens /\ UNCHANGED life
  BY <1>1, <1>9, OpensGood
<1>10. CASE RequestQuit
  BY <1>1, <1>10, RequestQuitGood
<1>11. QED
  BY <1>2, <1>3, <1>4, <1>5, <1>6, <1>7, <1>8, <1>9, <1>10 DEF Input

\* One step of the running search in its tab.
LEMMA StepsSearch ==
  ASSUME EInv, UNCHANGED <<pending, prefs, left>>, search # NoSearch, search.tab <= Len(tabs),
         ~ QueuePanics,
         FindsNext(search.tab) \/ FindsAll(search.tab) \/ Replaces(search.tab)
  PROVE  Worked
<1>. DEFINE i == search.tab
            Jobs == [kind : {"next", "all", "replace"}, tab : Indices, queue : Seq(Indices),
                     count : Nat, target : Nat]
<1>1. search \in Jobs
  BY DEF EInv, GridOk, SearchOk
<1>2. i \in 1 .. Len(tabs) /\ i \in Indices
  BY <1>1 DEF Indices, EInv, TabsOk, ListOk
<1>3. tabs[i].view \in Views /\ tabs[i].view \in Docs /\ tabs[i].view.len \in Nat
  BY <1>2, ListTypes, ViewTypes DEF EInv, TabsOk
<1>4. PendingOk' /\ PrefsShape(prefs') /\ LeftOk'
  BY DEF EInv, GridOk, PendingOk, LeftOk
<1>5. CASE FindsNext(i)
  <2>1. search' = NoSearch /\ hits' = hits
    BY <1>5 DEF FindsNext
  <2>2. SearchOk' /\ HitsOk'
    BY <2>1 DEF SearchOk, HitsOk, EInv, GridOk
  <2>3. CASE UNCHANGED <<tabs, active>>
    BY <1>4, <2>2, <2>3, SameTabsWork DEF GridOk, EInv
  <2>4. CASE \E at \in Matches(i) :
               /\ tabs' = [tabs EXCEPT ![i].view = Boundary(SelectRange(@, at, at + 1))]
               /\ active' = i
    <3>1. PICK at \in Matches(i) :
               /\ tabs' = [tabs EXCEPT ![i].view = Boundary(SelectRange(@, at, at + 1))]
               /\ active' = i
      BY <2>4
    <3>2. at \in Nat /\ at + 1 \in Nat
      BY <1>3 DEF Matches
    <3>. DEFINE t == Boundary(SelectRange(tabs[i].view, at, at + 1))
    <3>3. Follows(t, tabs[i].view)
      BY <1>3, <3>2, SelectStill, BoundaryStill, StillFollows
    <3>4. tabs' = [tabs EXCEPT ![i].view = t]
      BY <3>1
    <3>. HIDE DEF t
    <3>5. ListOk(tabs', known.nextId) /\ OneStepOn(tabs, tabs') /\ Ids(tabs') = Ids(tabs)
      BY <1>2, <3>3, <3>4, ShowList DEF EInv, TabsOk
    <3>6. QED
      BY <1>2, <1>4, <2>2, <3>1, <3>5, UnsavedAreOpen DEF Worked, GridOk
  <2>5. QED
    BY <1>5, <2>3, <2>4 DEF FindsNext
<1>6. CASE FindsAll(i)
  <2>1. UNCHANGED <<tabs, active>>
    BY <1>6 DEF FindsAll
  <2>2. HitsOk'
    <3>. DEFINE R == [tab : Indices, at : Nat]
    <3>1. hits \in Seq(R)
      BY DEF EInv, GridOk, HitsOk
    <3>2. CASE hits' = hits
      BY <3>1, <3>2 DEF HitsOk
    <3>3. CASE \E at \in Matches(i) : hits' = Append(hits, [tab |-> i, at |-> at])
      <4>1. PICK at \in Matches(i) : hits' = Append(hits, [tab |-> i, at |-> at])
        BY <3>3
      <4>2. [tab |-> i, at |-> at] \in R
        BY <1>2, <1>3 DEF Matches
      <4>. HIDE DEF R
      <4>3. hits' \in Seq(R)
        BY <3>1, <4>1, <4>2
      <4>4. QED
        BY <4>3 DEF HitsOk, R
    <3>4. QED
      BY <1>6, <3>2, <3>3 DEF FindsAll
  <2>3. SearchOk'
    <3>1. CASE search.queue = <<>>
      BY <1>6, <3>1 DEF FindsAll, SearchOk
    <3>2. CASE search.queue # <<>>
      <4>. DEFINE q == search.queue
      <4>1. q \in Seq(Indices) /\ Head(q) \in Indices /\ Tail(q) \in Seq(Indices)
        BY <1>1, <3>2
      <4>2. Head(q) \in 1 .. Len(tabs)
        <5>1. Head(q) <= Len(tabs)
          BY <1>6, <3>2, <4>1 DEF QueuePanics, FindsAll, Indices, EInv, TabsOk, ListOk
        <5>2. QED
          BY <4>1, <5>1 DEF Indices, EInv, TabsOk, ListOk
      <4>3. tabs[Head(q)].id \in Nat
        BY <4>2, ListTypes DEF EInv, TabsOk
      <4>4. search' = [search EXCEPT !.tab = Head(q), !.queue = Tail(q), !.target = tabs[Head(q)].id]
        BY <1>6, <3>2 DEF FindsAll
      <4>. HIDE DEF q
      <4>5. search' \in Jobs
        BY <1>1, <4>1, <4>3, <4>4
      <4>6. QED
        BY <4>5 DEF SearchOk
    <3>3. QED
      BY <3>1, <3>2
  <2>4. GridOk'
    BY <1>4, <2>1, <2>2, <2>3 DEF EInv, GridOk
  <2>5. QED
    BY <2>1, <2>4, SameTabsWork
<1>7. CASE Replaces(i)
  <2>1. UNCHANGED <<active, hits>>
    BY <1>7 DEF Replaces
  <2>2. active' \in Indices /\ HitsOk'
    BY <2>1 DEF EInv, GridOk, HitsOk
  <2>3. PICK t : /\ Follows(t, tabs[i].view) /\ tabs' = [tabs EXCEPT ![i].view = t]
                 /\ search' = NoSearch \/ search' = [search EXCEPT !.count = @ + 1]
    <3>1. CASE \E delta \in {-1, 0} :
                 /\ tabs[i].view.len > 0
                 /\ tabs' = [tabs EXCEPT ![i].view = Replacement(@, delta, search.count)]
                 /\ search' = [search EXCEPT !.count = @ + 1]
      <4>1. PICK delta \in {-1, 0} :
                 /\ tabs[i].view.len > 0
                 /\ tabs' = [tabs EXCEPT ![i].view = Replacement(@, delta, search.count)]
                 /\ search' = [search EXCEPT !.count = @ + 1]
        BY <3>1
      <4>2. delta \in Int /\ tabs[i].view.len + delta \in Nat
        BY <1>3, <4>1
      <4>3. Follows(Replacement(tabs[i].view, delta, search.count), tabs[i].view)
        BY <1>3, <4>2, ReplacementFollows
      <4>4. QED
        BY <4>1, <4>3
    <3>2. CASE tabs' = [tabs EXCEPT ![i].view = EndTyping(@)] /\ search' = NoSearch
      <4>1. Follows(EndTyping(tabs[i].view), tabs[i].view)
        BY <1>3, EndTypingStill, StillFollows
      <4>2. QED
        BY <3>2, <4>1
    <3>3. QED
      BY <1>7, <3>1, <3>2 DEF Replaces
  <2>4. SearchOk'
    <3>1. [search EXCEPT !.count = @ + 1] \in Jobs
      BY <1>1
    <3>2. QED
      BY <2>3, <3>1 DEF SearchOk
  <2>5. ListOk(tabs', known.nextId) /\ OneStepOn(tabs, tabs') /\ Ids(tabs') = Ids(tabs)
    <3>1. PICK u : Follows(u, tabs[i].view) /\ tabs' = [tabs EXCEPT ![i].view = u]
      BY ONLY <2>3
    <3>2. ListOk(tabs, known.nextId)
      BY DEF EInv, TabsOk
    <3>3. LET new == [tabs EXCEPT ![i].view = u]
          IN  ListOk(new, known.nextId) /\ OneStepOn(tabs, new) /\ Ids(new) = Ids(tabs)
      BY ONLY <1>2, <3>1, <3>2, ShowList
    <3>4. QED
      BY ONLY <3>1, <3>3
  <2>6. QED
    BY <1>4, <2>2, <2>4, <2>5, UnsavedAreOpen DEF Worked, GridOk
<1>8. QED
  BY <1>5, <1>6, <1>7

\* The drive of the search, once a frame (search.rs).
LEMMA DriveGood ==
  ASSUME EInv, life = "running", Drive
  PROVE  StepGood
<1>1. /\ search # NoSearch
      /\ UNCHANGED <<pending, closing, prefs, restoring, left, known>>
  BY DEF Drive
<1>2. CASE /\ search.tab > Len(tabs)
           /\ search' = NoSearch
           /\ UNCHANGED <<tabs, active, hits, life>>
  <2>1. GridOk'
    BY <1>1, <1>2 DEF EInv, GridOk, SearchOk, HitsOk, PendingOk, LeftOk
  <2>2. QED
    BY <1>1, <1>2, <2>1, SameTabsWork, WorkedGood
<1>3. CASE /\ search.tab <= Len(tabs) /\ ~ QueuePanics
           /\ FindsNext(search.tab) \/ FindsAll(search.tab) \/ Replaces(search.tab)
           /\ UNCHANGED life
  BY <1>1, <1>3, StepsSearch, WorkedGood
<1>4. CASE UNCHANGED <<tabs, active, hits, search>> /\ life' \in {life, "panicked"}
  <2>1. GridOk'
    BY <1>1, <1>4 DEF EInv, GridOk, SearchOk, HitsOk, PendingOk, LeftOk
  <2>2. QED
    BY <1>1, <1>4, <2>1, SameTabsWork, WorkedGood
<1>5. QED
  BY <1>2, <1>3, <1>4 DEF Drive

-----------------------------------------------------------------------------
(* The unsaved-changes dialog. *)

\* What every answer leaves; a tab with changes goes by two answers only, and
\* it is one of those the dialog is about.
AnswerKeeps(about) ==
  /\ ListOk(tabs', known.nextId) /\ OneStepOn(tabs, tabs')
  /\ active' \in Indices /\ PrefsShape(prefs')
  /\ KnownShape(known') /\ known'.nextId = known.nextId
  /\ Lost \subseteq about /\ (Lost # {} => known'.answer \in {"discard", "saved"})

LEMMA SaysIs ==
  ASSUME EInv, NEW answer, Says(answer)
  PROVE  KnownShape(known') /\ known'.nextId = known.nextId /\ known'.answer = answer
<1>1. KnownShape(known)
  BY DEF EInv, LifeOk, KnownShape
<1>2. QED
  BY <1>1, KnownSaid DEF Says

LEMMA AfterSavePrefs ==
  ASSUME EInv, NEW list \in Seq(TabRecords), NEW path
  PROVE  PrefsShape(AfterSave(prefs, list, path))
<1>. DEFINE p == [prefs EXCEPT !.recent = AddRecent(@, path)]
<1>1. PrefsShape(prefs)
  BY DEF EInv, GridOk
<1>2. PrefsShape(p)
  BY <1>1, SavedPrefs
<1>3. AfterSave(prefs, list, path) = SavePrefs(p, list)
  BY DEF AfterSave
<1>. HIDE DEF p
<1>4. QED
  BY <1>2, <1>3, SavedPrefs

LEMMA AnswerSaveKeeps ==
  ASSUME EInv, NEW i \in 1 .. Len(tabs), AnswerSave(i)
  PROVE  AnswerKeeps({tabs[i].id})
<1>1. PICK o \in SaveOutcomes(tabs[i], FALSE) :
        LET saved == [tabs EXCEPT ![i] = o.tab]
        IN  /\ prefs' = IF o.saved THEN AfterSave(prefs, saved, o.tab.path) ELSE prefs
            /\ Says(IF o.saved THEN "saved" ELSE "refused")
            /\ IF Dirty(o.tab.view)
                 THEN tabs' = saved /\ active' = i
                 ELSE tabs' = RemoveAt(saved, i) /\ active' = Clamped(i, Len(tabs) - 1)
  BY DEF AnswerSave
<1>. DEFINE tab == o.tab
            mid == [tabs EXCEPT ![i] = tab]
            next == known.nextId
<1>2. ListOk(tabs, next) /\ tabs[i] \in TabRecords /\ Len(tabs[i].view.undo) \in Nat
      /\ Len(tabs) \in Int /\ i \in Int /\ i \in Indices
  BY ListTypes DEF EInv, TabsOk, ListOk, Indices
<1>3. /\ tab \in TabRecords /\ tab.id = tabs[i].id /\ tab.view.undo = tabs[i].view.undo
      /\ o.saved \in BOOLEAN
      /\ ~ o.saved => (Dirty(tab.view) <=> Dirty(tabs[i].view))
  BY <1>2, SaveOutcomesAre
<1>4. /\ prefs' = IF o.saved THEN AfterSave(prefs, mid, tab.path) ELSE prefs
      /\ Says(IF o.saved THEN "saved" ELSE "refused")
      /\ IF Dirty(tab.view)
           THEN tabs' = mid /\ active' = i
           ELSE tabs' = RemoveAt(mid, i) /\ active' = Clamped(i, Len(tabs) - 1)
  BY <1>1
<1>. HIDE DEF tab, next
<1>5. /\ ListOk(mid, next) /\ OneStepOn(tabs, mid) /\ Ids(mid) = Ids(tabs)
      /\ Len(mid) = Len(tabs)
      /\ \A k \in 1 .. Len(tabs) : k # i => mid[k] = tabs[k]
  <2>1. Len(tab.view.undo) <= Len(tabs[i].view.undo) + 1
    BY <1>2, <1>3
  <2>2. QED
    BY ONLY i \in 1 .. Len(tabs), <1>2, <1>3, <2>1, EditList
<1>. HIDE DEF mid
<1>6. KnownShape(known') /\ known'.nextId = next
      /\ known'.answer = IF o.saved THEN "saved" ELSE "refused"
  BY <1>4, SaysIs DEF next
<1>7. PrefsShape(prefs')
  <2>1. mid \in Seq(TabRecords) /\ PrefsShape(prefs)
    BY <1>5 DEF ListOk, EInv, GridOk
  <2>2. PrefsShape(AfterSave(prefs, mid, tab.path))
    BY <2>1, AfterSavePrefs
  <2>3. QED
    BY <1>4, <2>1, <2>2
<1>8. CASE Dirty(tab.view)
  <2>1. tabs' = mid /\ active' = i
    BY <1>4, <1>8
  <2>2. UnsavedIds(tabs) \subseteq Ids(tabs')
    BY <1>5, <2>1, UnsavedAreOpen
  <2>3. QED
    BY <1>2, <1>5, <1>6, <1>7, <2>1, <2>2 DEF AnswerKeeps, next, Lost
<1>9. CASE ~ Dirty(tab.view)
  <2>. DEFINE new == RemoveAt(mid, i)
  <2>1. tabs' = new /\ active' = Clamped(i, Len(tabs) - 1)
    BY <1>4, <1>9
  <2>2. /\ ListOk(new, next) /\ Among(new, mid)
        /\ \A k \in 1 .. Len(tabs) : k # i => mid[k].id \in Ids(new)
    BY <1>5, RemoveList
  <2>. HIDE DEF new
  <2>3. OneStepOn(tabs, new)
    BY <1>5, <2>2, AmongOneStep
  <2>4. active' \in Indices
    <3>1. Len(tabs) - 1 \in Int
      BY <1>2
    <3>2. QED
      BY <1>2, <2>1, <3>1, ClampedIs
  <2>5. ASSUME NEW id \in UnsavedIds(tabs)
        PROVE  id \in Ids(new) \/ (id = tabs[i].id /\ o.saved)
    <3>1. PICK k \in 1 .. Len(tabs) : Dirty(tabs[k].view) /\ id = tabs[k].id
      BY <2>5 DEF UnsavedIds
    <3>2. k = i => o.saved
      BY <1>3, <1>9, <3>1
    <3>3. QED
      BY <1>5, <2>2, <3>1, <3>2
  <2>6. Lost \subseteq {tabs[i].id} /\ (Lost # {} => known'.answer \in {"discard", "saved"})
    BY <1>6, <2>1, <2>5 DEF Lost
  <2>7. QED
    BY <1>6, <1>7, <2>1, <2>2, <2>3, <2>4, <2>6 DEF AnswerKeeps, next
<1>10. QED
  BY <1>8, <1>9

LEMMA AnswerTabKeeps ==
  ASSUME EInv, NEW i \in 1 .. Len(tabs), Answer(i)
  PROVE  AnswerKeeps({tabs[i].id})
<1>1. CASE AnswerSave(i)
  BY <1>1, AnswerSaveKeeps
<1>2. CASE CloseTab(i) /\ UNCHANGED prefs /\ Says("discard")
  <2>1. ListOk(tabs, known.nextId) /\ Len(tabs) \in Int /\ active \in Int /\ PrefsShape(prefs)
    BY DEF EInv, TabsOk, ListOk, GridOk, Indices
  <2>2. tabs' = RemoveAt(tabs, i) /\ active' = Clamped(active, Len(tabs) - 1)
    BY <1>2 DEF CloseTab
  <2>3. ListOk(tabs', known.nextId) /\ OneStepOn(tabs, tabs') /\ Lost \subseteq {tabs[i].id}
    <3>1. /\ ListOk(tabs', known.nextId) /\ Among(tabs', tabs)
          /\ \A k \in 1 .. Len(tabs) : k # i => tabs[k].id \in Ids(tabs')
      BY <2>1, <2>2, RemoveList
    <3>2. Lost \subseteq {tabs[i].id}
      BY <3>1 DEF Lost, UnsavedIds
    <3>3. QED
      BY <2>1, <3>1, <3>2, SameList, AmongOneStep
  <2>4. active' \in Indices
    <3>1. Len(tabs) - 1 \in Int
      BY <2>1
    <3>2. QED
      BY <2>1, <2>2, <3>1, ClampedIs
  <2>5. QED
    BY <1>2, <2>1, <2>3, <2>4, SaysIs DEF AnswerKeeps
<1>3. CASE UNCHANGED <<tabs, active, prefs>> /\ Says("cancel")
  <2>1. ListOk(tabs, known.nextId) /\ active \in Indices /\ PrefsShape(prefs)
    BY DEF EInv, TabsOk, GridOk
  <2>2. ListOk(tabs', known.nextId) /\ OneStepOn(tabs, tabs') /\ UnsavedIds(tabs) \subseteq Ids(tabs')
    BY <1>3, <2>1, SameList, UnsavedAreOpen
  <2>3. QED
    BY <1>3, <2>1, <2>2, SaysIs DEF AnswerKeeps, Lost
<1>4. QED
  BY <1>1, <1>2, <1>3, AnswerSaveKeeps DEF Answer

\* Of the changed tabs one is the last.
LEMMA LastDirtyIs ==
  ASSUME EInv, AnyDirty
  PROVE  LastDirty \in Indices
<1>. DEFINE n == Len(tabs)
            D == {k \in 1 .. n : Dirty(tabs[k].view)}
            Lasts(i, k) == i \in D /\ i <= k /\ \A j \in i + 1 .. k : j \notin D
            T == {k \in 0 .. n : (\A j \in 1 .. k : j \notin D) \/ \E i \in 1 .. k : Lasts(i, k)}
<1>1. n \in Nat /\ D \subseteq 1 .. n /\ D # {}
  BY DEF EInv, TabsOk, ListOk, AnyDirty
<1>. HIDE DEF n, D
<1>2. 0 \in T
  BY <1>1
<1>3. ASSUME NEW k \in 1 .. n, k - 1 \in T PROVE k \in T
  <2>1. k \in 0 .. n /\ k \in Nat
    BY <1>1
  <2>2. CASE k \in D
    <3>1. Lasts(k, k)
      BY <2>1, <2>2
    <3>2. k \in 1 .. k
      BY <2>1
    <3>3. QED
      BY <2>1, <3>1, <3>2
  <2>3. CASE k \notin D
    <3>1. CASE \A j \in 1 .. k - 1 : j \notin D
      <4>1. \A j \in 1 .. k : j \notin D
        BY <2>1, <2>3, <3>1
      <4>2. QED
        BY <2>1, <4>1
    <3>2. CASE \E i \in 1 .. k - 1 : Lasts(i, k - 1)
      <4>1. PICK i \in 1 .. k - 1 : Lasts(i, k - 1)
        BY <3>2
      <4>2. i \in 1 .. k /\ i \in D /\ i <= k
        BY <2>1, <4>1
      <4>3. \A j \in i + 1 .. k : j \in i + 1 .. k - 1 \/ j = k
        BY <2>1, <4>2
      <4>4. \A j \in i + 1 .. k : j \notin D
        BY <2>3, <4>1, <4>3
      <4>5. QED
        BY <2>1, <4>2, <4>4
    <3>3. QED
      BY <1>3, <3>1, <3>2
  <2>4. QED
    BY <2>2, <2>3
<1>4. \A k \in 0 .. n : k \in T
  <2>. HIDE DEF T
  <2>1. QED
    BY <1>1, <1>2, <1>3, PrefixInduction
<1>5. PICK i \in 1 .. n : Lasts(i, n)
  <2>1. n \in T
    <3>1. n \in 0 .. n
      BY <1>1
    <3>. HIDE DEF T
    <3>2. QED
      BY <1>4, <3>1
  <2>2. QED
    BY <1>1, <2>1
<1>6. \E k \in 1 .. Len(tabs) :
        /\ Dirty(tabs[k].view) /\ \A j \in k + 1 .. Len(tabs) : ~ Dirty(tabs[j].view)
  <2>1. i \in 1 .. Len(tabs) /\ Dirty(tabs[i].view)
    BY <1>5 DEF n, D
  <2>2. ASSUME NEW j \in i + 1 .. Len(tabs) PROVE ~ Dirty(tabs[j].view)
    <3>1. j \notin D /\ j \in 1 .. Len(tabs)
      BY <1>1, <1>5, <2>2 DEF n
    <3>2. QED
      BY <3>1 DEF D, n
  <2>3. QED
    BY <2>1, <2>2
<1>7. LastDirty \in 1 .. Len(tabs)
  BY <1>6 DEF LastDirty
<1>8. QED
  BY <1>7 DEF Indices, EInv, TabsOk, ListOk

LEMMA QuitSaveKeeps ==
  ASSUME EInv, AnswerQuitSave
  PROVE  /\ AnswerKeeps({}) /\ closing' \in BOOLEAN
         /\ closing' => known'.answer \in {"discard", "saved"}
<1>1. PICK f \in SaveAllOutcomes :
        /\ tabs' = [i \in 1 .. Len(tabs) |-> f[i].tab]
        /\ active' = IF AnyDirty THEN LastDirty ELSE active
        /\ closing' = \A i \in 1 .. Len(tabs) : ~ Dirty(f[i].tab.view)
        /\ prefs' = IF closing' \/ \E i \in 1 .. Len(tabs) : f[i].saved
                      THEN SavePrefs([prefs EXCEPT !.recent = RecentAfter(@, f)], tabs')
                      ELSE prefs
        /\ Says(IF \A i \in 1 .. Len(tabs) : Dirty(tabs[i].view) => f[i].saved
                  THEN "saved" ELSE "refused")
  BY DEF AnswerQuitSave
<1>2. ListOk(tabs, known.nextId) /\ tabs \in Seq(TabRecords)
  BY DEF EInv, TabsOk, ListOk
<1>3. ASSUME NEW i \in 1 .. Len(tabs)
      PROVE  \/ f[i] \in SaveOutcomes(tabs[i], FALSE)
             \/ f[i] = [tab |-> tabs[i], saved |-> FALSE] /\ ~ Dirty(tabs[i].view)
  BY DEF SaveAllOutcomes
<1>. DEFINE Saved(i) == f[i].tab
<1>4. ASSUME NEW i \in 1 .. Len(tabs)
      PROVE  /\ Saved(i) \in TabRecords /\ Saved(i).id = tabs[i].id
             /\ Saved(i).view.undo = tabs[i].view.undo
             /\ f[i].saved \in BOOLEAN
             /\ ~ f[i].saved => (Dirty(Saved(i).view) <=> Dirty(tabs[i].view))
  <2>1. tabs[i] \in TabRecords
    BY <1>2
  <2>2. CASE f[i] \in SaveOutcomes(tabs[i], FALSE)
    <3>. DEFINE o == f[i]
    <3>1. o \in SaveOutcomes(tabs[i], FALSE)
      BY <2>2
    <3>. HIDE DEF o
    <3>2. /\ o.tab \in TabRecords /\ o.tab.id = tabs[i].id /\ o.tab.view.undo = tabs[i].view.undo
          /\ o.saved \in BOOLEAN
          /\ ~ o.saved => (Dirty(o.tab.view) <=> Dirty(tabs[i].view))
      BY <2>1, <3>1, SaveOutcomesAre
    <3>3. QED
      BY <3>2 DEF o
  <2>3. CASE f[i] = [tab |-> tabs[i], saved |-> FALSE]
    BY <2>1, <2>3
  <2>4. QED
    BY <1>3, <2>2, <2>3
<1>5. closing' = (\A i \in 1 .. Len(tabs) : ~ Dirty(Saved(i).view))
      /\ tabs' = [i \in 1 .. Len(tabs) |-> Saved(i)]
  BY <1>1
<1>. HIDE DEF Saved
<1>6. /\ tabs' \in Seq(TabRecords) /\ Len(tabs') = Len(tabs)
      /\ \A i \in 1 .. Len(tabs) : tabs'[i] = Saved(i)
  <2>1. tabs' \in [1 .. Len(tabs) -> TabRecords] /\ Len(tabs) \in Nat
    BY <1>2, <1>4, <1>5
  <2>2. QED
    BY <1>5, <2>1
<1>7. ListOk(tabs', known.nextId)
  BY <1>2, <1>4, <1>6 DEF ListOk
<1>8. UnsavedIds(tabs) \subseteq Ids(tabs')
  BY <1>4, <1>6 DEF UnsavedIds, Ids
<1>9. OneStepOn(tabs, tabs')
  <2>1. ASSUME NEW i \in 1 .. Len(tabs), NEW j \in 1 .. Len(tabs'), tabs[i].id = tabs'[j].id
        PROVE  Len(tabs'[j].view.undo) <= Len(tabs[i].view.undo) + 1
    <3>1. j \in 1 .. Len(tabs) /\ tabs[i].id = tabs[j].id
      BY <1>4, <1>6, <2>1
    <3>2. i = j
      BY <1>2, <3>1 DEF ListOk
    <3>3. tabs'[j].view.undo = tabs[i].view.undo
      BY <1>4, <1>6, <3>1, <3>2
    <3>4. Len(tabs[i].view.undo) \in Nat
      BY <1>2, ListTypes
    <3>5. QED
      BY <3>3, <3>4
  <2>2. QED
    BY <2>1 DEF OneStepOn
<1>10. PrefsShape(prefs')
  <2>. DEFINE p == [prefs EXCEPT !.recent = RecentAfter(@, f)]
  <2>1. PrefsShape(prefs)
    BY DEF EInv, GridOk
  <2>2. PrefsShape(p)
    BY <1>2, <2>1, SavedPrefs
  <2>3. prefs' = SavePrefs(p, tabs') \/ prefs' = prefs
    BY <1>1
  <2>. HIDE DEF p
  <2>4. QED
    BY <1>6, <2>1, <2>2, <2>3, SavedPrefs
<1>11. active' \in Indices
  BY <1>1, LastDirtyIs DEF EInv, GridOk
<1>12. KnownShape(known') /\ known'.nextId = known.nextId
       /\ known'.answer = IF \A i \in 1 .. Len(tabs) : Dirty(tabs[i].view) => f[i].saved
                            THEN "saved" ELSE "refused"
  BY <1>1, SaysIs
<1>13. closing' => known'.answer = "saved"
  BY <1>4, <1>5, <1>12
<1>14. QED
  BY <1>5, <1>7, <1>8, <1>9, <1>10, <1>11, <1>12, <1>13 DEF AnswerKeeps, Lost

LEMMA AnswerQuitKeeps ==
  ASSUME EInv, AnswerQuit
  PROVE  /\ AnswerKeeps({}) /\ closing' \in BOOLEAN
         /\ closing' /\ ~ closing => known'.answer \in {"discard", "saved"}
<1>1. /\ ListOk(tabs, known.nextId) /\ active \in Indices /\ PrefsShape(prefs) /\ closing \in BOOLEAN
      /\ tabs \in Seq(TabRecords)
  BY DEF EInv, TabsOk, GridOk, LifeOk, ListOk
<1>2. CASE AnswerQuitSave
  BY <1>2, QuitSaveKeeps
<1>3. CASE /\ closing' = TRUE
           /\ prefs' = SavePrefs(prefs, tabs)
           /\ UNCHANGED <<tabs, active>>
           /\ Says("discard")
  <2>1. ListOk(tabs', known.nextId) /\ OneStepOn(tabs, tabs') /\ PrefsShape(prefs')
        /\ active' \in Indices /\ UnsavedIds(tabs) \subseteq Ids(tabs')
    BY <1>1, <1>3, SameList, SavedPrefs, UnsavedAreOpen
  <2>2. QED
    BY <1>3, <2>1, SaysIs DEF AnswerKeeps, Lost
<1>4. CASE UNCHANGED <<tabs, active, closing, prefs>> /\ Says("cancel")
  <2>1. ListOk(tabs', known.nextId) /\ OneStepOn(tabs, tabs') /\ PrefsShape(prefs')
        /\ active' \in Indices /\ UnsavedIds(tabs) \subseteq Ids(tabs')
    BY <1>1, <1>4, SameList, UnsavedAreOpen
  <2>2. QED
    BY <1>1, <1>4, <2>1, SaysIs DEF AnswerKeeps, Lost
<1>5. QED
  BY <1>2, <1>3, <1>4 DEF AnswerQuit

\* The dialogs, at the end of a frame.
LEMMA DialogsGood ==
  ASSUME EInv, life = "running", Dialogs
  PROVE  StepGood
<1>1. phase = "dialogs" /\ UNCHANGED <<search, hits, restoring, left>>
  BY DEF Dialogs
<1>2. SearchOk' /\ HitsOk' /\ LeftOk'
  BY <1>1 DEF EInv, GridOk, SearchOk, HitsOk, LeftOk
<1>3. CASE UNCHANGED <<tabs, active, pending, closing, prefs, known>> /\ life' \in {life, "panicked"}
  <2>1. GridOk'
    BY <1>2, <1>3 DEF EInv, GridOk, PendingOk
  <2>2. QED
    BY <1>1, <1>3, <2>1, SameTabsWork, WorkedGood
\* An answer was given.
<1>4. ASSUME NEW about, AnswerKeeps(about), pending # NoPending, pending' = NoPending,
             about = {} \/ (pending.kind = "tab" /\ about = {tabs[pending.tab].id}),
             closing' \in BOOLEAN,
             closing' /\ ~ closing => known'.answer \in {"discard", "saved"}, UNCHANGED life
      PROVE  StepGood
  <2>1. PendingOk'
    BY <1>4 DEF PendingOk, NoPending
  <2>2. TabsOk' /\ OneStepOn(tabs, tabs') /\ GridOk'
    BY <1>2, <1>4, <2>1 DEF AnswerKeeps, TabsOk, GridOk
  <2>3. LifeOk' /\ SessionOk'
    BY <1>1, <1>4 DEF AnswerKeeps, KnownShape, EInv, LifeOk, SessionOk
  <2>4. KeptStep
    <3>1. known'.answer \in {"discard", "saved"} => Answered({"discard", "saved"})
      BY <1>1, <1>4 DEF Answered
    <3>2. Lost # {} => pending.kind = "tab" /\ Lost = {tabs[pending.tab].id}
      BY <1>4 DEF AnswerKeeps
    <3>3. ~ Shifted => pending.of = tabs[pending.tab].id
      BY DEF Shifted
    <3>4. QED
      BY <1>4, <3>1, <3>2, <3>3 DEF AnswerKeeps, KeptStep
  <2>5. QED
    BY <2>2, <2>3, <2>4 DEF StepGood, EInv
<1>5. CASE /\ pending.kind = "tab" /\ ~ DialogPanics
           /\ Answer(pending.tab)
           /\ pending' = NoPending
           /\ UNCHANGED <<closing, life>>
  <2>1. pending.tab \in 1 .. Len(tabs)
    <3>1. pending.tab \in Indices
      BY <1>5 DEF EInv, GridOk, PendingOk
    <3>2. QED
      BY <1>5, <3>1 DEF DialogPanics, Indices, EInv, TabsOk, ListOk
  <2>2. AnswerKeeps({tabs[pending.tab].id})
    BY <1>5, <2>1, AnswerTabKeeps
  <2>3. pending # NoPending /\ closing' \in BOOLEAN
    BY <1>5 DEF NoPending, EInv, LifeOk
  <2>4. QED
    BY <1>4, <1>5, <2>2, <2>3
<1>6. CASE /\ pending.kind = "quit"
           /\ AnswerQuit
           /\ pending' = NoPending
           /\ UNCHANGED life
  <2>1. pending # NoPending
    BY <1>6 DEF NoPending
  <2>2. QED
    BY <1>4, <1>6, <2>1, AnswerQuitKeeps
<1>7. QED
  BY <1>3, <1>5, <1>6 DEF Dialogs

-----------------------------------------------------------------------------
(* The end of the window, the next start and the keyboard. *)

\* A step that leaves tabs, preferences, session and life as they are.
LEMMA SameGood ==
  ASSUME EInv, UNCHANGED <<tabs, active, pending, closing, life, search, hits, restoring, left, known>>,
         prefs' = prefs \/ (life = "running" /\ prefs' = SavePrefs(prefs, tabs))
  PROVE  StepGood
<1>1. ListOk(tabs, known.nextId) /\ tabs \in Seq(TabRecords) /\ PrefsShape(prefs)
  BY DEF EInv, TabsOk, ListOk, GridOk
<1>2. PrefsShape(prefs')
  BY <1>1, SavedPrefs
<1>3. TabsOk' /\ OneStepOn(tabs, tabs') /\ UnsavedIds(tabs) \subseteq Ids(tabs')
  BY <1>1, SameList, UnsavedAreOpen DEF TabsOk
<1>4. GridOk'
  BY <1>2 DEF EInv, GridOk, SearchOk, HitsOk, PendingOk, LeftOk
<1>5. LifeOk' /\ SessionOk'
  BY DEF EInv, LifeOk, SessionOk
<1>6. KeptStep
  BY <1>3 DEF KeptStep, Lost
<1>7. QED
  BY <1>3, <1>4, <1>5, <1>6 DEF StepGood, EInv

\* The clean end of the process.
LEMMA CloseGood ==
  ASSUME EInv, Close
  PROVE  StepGood
<1>1. LeftOk'
  BY DEF Close, EInv, GridOk, LeftOk
<1>2. QED
  BY <1>1, CloseWindowGood DEF Close

\* The process is killed.
LEMMA KillGood ==
  ASSUME EInv, Kill
  PROVE  StepGood
<1>1. /\ life \in {"running", "restoring"} /\ life' = "closed"
      /\ known' = IF life = "running" THEN [known EXCEPT !.atQuit = NotQuit]
                  ELSE IF PathsOf(tabs) = <<>> THEN known
                  ELSE [known EXCEPT !.reopening = "cut", !.dropped = @ \cup known.missing]
      /\ UNCHANGED <<tabs, active, pending, closing, search, hits, prefs, restoring>>
  BY DEF Kill
<1>2. LeftOk' /\ left'.kills # left.kills
  BY Spent DEF Kill, EInv, GridOk
<1>9. KnownShape(known)
  BY DEF EInv, LifeOk
<1>3. /\ KnownShape(known') /\ known'.nextId = known.nextId
      /\ known'.atQuit # NotQuit => Owed(known', prefs.session)
  <2>1. CASE life = "running"
    <3>1. known' = [known EXCEPT !.atQuit = NotQuit]
      BY <1>1, <2>1
    <3>2. QED
      BY <1>9, <3>1, KnownKilled
  <2>2. CASE life = "restoring" /\ PathsOf(tabs) = <<>>
    <3>1. known' = known
      BY <1>1, <2>2
    <3>2. ASSUME known.atQuit # NotQuit PROVE Owed(known, prefs.session)
      <4>1. Reopened(known, PathsOf(tabs), prefs.session, restoring)
        BY <2>2, <3>2 DEF EInv, SessionOk
      <4>2. QED
        BY <2>2, <4>1 DEF Reopened
    <3>3. QED
      BY <1>9, <3>1, <3>2
  <2>3. CASE life = "restoring" /\ PathsOf(tabs) # <<>>
    <3>. DEFINE out == known.dropped \cup known.missing
    <3>1. known' = CutShort(known, out)
      BY <1>1, <2>3 DEF CutShort
    <3>2. /\ KnownShape(known') /\ known'.nextId = known.nextId /\ known'.atQuit = known.atQuit
          /\ known'.reopening = "cut" /\ known'.dropped = out
      <4>. HIDE DEF out
      <4>1. QED
        BY ONLY <1>9, <3>1, KnownCut
    <3>3. ASSUME known.atQuit # NotQuit PROVE Owed(known', prefs.session)
      <4>1. Reopened(known, PathsOf(tabs), prefs.session, restoring) /\ restoring \in Seq(Paths)
        BY <2>3, <3>3 DEF EInv, SessionOk, LifeOk
      <4>2. QED
        BY <2>3, <3>2, <4>1, OwedCut
    <3>4. QED
      BY <3>2, <3>3
  <2>4. QED
    BY <1>1, <2>1, <2>2, <2>3
<1>4. TabsOk' /\ OneStepOn(tabs, tabs')
  BY <1>1, <1>3, SameList DEF EInv, TabsOk
<1>5. GridOk'
  BY <1>1, <1>2 DEF EInv, GridOk, SearchOk, HitsOk, PendingOk
<1>6. LifeOk' /\ SessionOk'
  BY <1>1, <1>3 DEF EInv, LifeOk, SessionOk
<1>7. KeptStep
  BY <1>2 DEF KeptStep
<1>8. QED
  BY <1>4, <1>5, <1>6, <1>7 DEF StepGood, EInv

LEMMA NoTabsOk ==
  ASSUME NEW next
  PROVE  ListOk(<<>>, next) /\ \A old : OneStepOn(old, <<>>)
<1>1. <<>> \in Seq(TabRecords) /\ Len(<<>>) = 0 /\ 1 .. 0 = {}
  OBVIOUS
<1>2. QED
  BY <1>1 DEF ListOk, OneStepOn

\* The next start reads the session.
LEMMA RestartGood ==
  ASSUME EInv, Restart
  PROVE  StepGood
<1>1. /\ life \in {"closed", "panicked"}
      /\ tabs' = <<>> /\ active' = 1 /\ pending' = NoPending /\ closing' = FALSE
      /\ search' = NoSearch /\ hits' = <<>>
      /\ restoring' = prefs.session
      /\ life' = IF prefs.session = <<>> THEN "restored" ELSE "restoring"
      /\ UNCHANGED prefs
  BY DEF Restart
<1>11. PICK missing \in SUBSET Paths :
         known' = [known EXCEPT !.atQuit = IF life = "panicked" THEN NotQuit ELSE @,
                                !.missing = missing]
  BY Zenon DEF Restart
<1>2. LeftOk'
  BY Spent DEF Restart, EInv, GridOk
<1>3. TabsOk' /\ OneStepOn(tabs, tabs')
  BY <1>1, NoTabsOk DEF TabsOk
<1>4. PrefsShape(prefs) /\ prefs.session \in Seq(Paths)
  BY DEF EInv, GridOk, PrefsShape
<1>5. GridOk'
  <2>1. <<>> \in Seq([tab : Indices, at : Nat])
    OBVIOUS
  <2>2. QED
    BY <1>1, <1>2, <1>4, <2>1 DEF GridOk, SearchOk, HitsOk, PendingOk, NoPending, Indices
<1>6. /\ KnownShape(known')
      /\ known'.reopening = known.reopening /\ known'.dropped = known.dropped
      /\ known'.atQuit # NotQuit => life = "closed" /\ known'.atQuit = known.atQuit
  <2>. DEFINE was == IF life = "panicked" THEN NotQuit ELSE known.atQuit
  <2>1. KnownShape(known)
    BY DEF EInv, LifeOk
  <2>2. known' = [known EXCEPT !.atQuit = was, !.missing = missing]
    BY <1>11
  <2>3. was # NotQuit => life = "closed" /\ was = known.atQuit
    BY <1>1
  <2>. HIDE DEF was
  <2>4. /\ KnownShape(known') /\ known'.reopening = known.reopening /\ known'.atQuit = was
        /\ known'.dropped = known.dropped
    <3>1. known' = Begun(known, was, missing) /\ missing \subseteq Paths
      BY <2>2 DEF Begun
    <3>2. QED
      BY ONLY <2>1, <3>1, KnownBegun
  <2>5. QED
    BY <2>3, <2>4
<1>7. LifeOk'
  BY <1>1, <1>4, <1>6 DEF LifeOk, KnownShape
<1>8. SessionOk'
  <2>1. PathsOf(tabs') = <<>>
    <3>1. <<>> \in Seq(TabRecords)
      OBVIOUS
    <3>2. QED
      BY <1>1, <3>1, PathsOfPaths
  <2>2. ASSUME known'.atQuit # NotQuit PROVE Reopened(known', <<>>, prefs.session, prefs.session)
    <3>1. life = "closed" /\ known'.atQuit = known.atQuit
      BY <1>6, <2>2
    <3>2. Owed(known, prefs.session)
      BY <2>2, <3>1 DEF EInv, SessionOk
    <3>3. Owed(known', prefs.session)
      BY <1>6, <3>1, <3>2, OwedStays
    <3>4. QED
      BY <3>3, ReopenedNone
  <2>3. QED
    BY <1>1, <2>1, <2>2 DEF SessionOk
<1>9. KeptStep
  BY <1>1 DEF KeptStep
<1>10. QED
  BY <1>3, <1>5, <1>7, <1>8, <1>9 DEF StepGood, EInv

\* One file of the session is opened again, or left out.
LEMMA RestoreNextGood ==
  ASSUME EInv, RestoreNext
  PROVE  StepGood
<1>1. /\ life = "restoring"
      /\ IF Head(restoring) \in known.missing THEN UNCHANGED <<tabs, active, prefs, known>>
         ELSE OpenPath(Head(restoring))
      /\ restoring' = Tail(restoring)
      /\ life' = IF Len(restoring) = 1 THEN "restored" ELSE "restoring"
      /\ UNCHANGED <<pending, closing, search, hits, left>>
  BY DEF RestoreNext
<1>. DEFINE path == Head(restoring)
            rest == Tail(restoring)
<1>2. /\ restoring \in Seq(Paths) /\ restoring # <<>>
      /\ path \in Paths /\ rest \in Seq(Paths) /\ restoring = <<path>> \o rest
      /\ Len(restoring) = Len(rest) + 1 /\ Len(rest) \in Nat
  <2>1. restoring \in Seq(Paths) /\ restoring # <<>>
    BY <1>1 DEF EInv, LifeOk, SessionOk
  <2>2. QED
    BY <2>1
<1>3. /\ TabsOk' /\ OneStepOn(tabs, tabs')
      /\ active' \in Indices /\ PrefsShape(prefs')
      /\ KnownShape(known') /\ SameEnd
      /\ PathsOf(tabs') = WithPath(PathsOf(tabs), path, known.missing)
      /\ prefs'.session = IF path \in known.missing THEN prefs.session ELSE PathsOf(tabs')
  <2>1. CASE path \in known.missing
    BY <1>1, <2>1, SameList DEF EInv, TabsOk, GridOk, LifeOk, SameEnd, WithPath
  <2>2. CASE path \notin known.missing
    BY <1>1, <1>2, <2>2, OpenPathGood DEF WithPath
  <2>3. QED
    BY <2>1, <2>2
<1>4. GridOk'
  BY <1>1, <1>3 DEF EInv, GridOk, SearchOk, HitsOk, PendingOk, LeftOk
<1>5. LifeOk'
  BY <1>1, <1>2, <1>3 DEF EInv, LifeOk
<1>6. SessionOk'
  <2>1. life' = "restored" <=> rest = <<>>
    <3>. HIDE DEF rest, path
    <3>1. Len(rest) = 0 <=> rest = <<>>
      BY <1>2
    <3>2. life' = "restored" <=> Len(restoring) = 1
      BY <1>1
    <3>3. QED
      BY <1>2, <3>1, <3>2
  <2>2. life' \in {"restored", "restoring"} /\ restoring' = rest
    BY <1>1
  <2>. HIDE DEF rest, path
  <2>3. ASSUME known.atQuit # NotQuit
        PROVE  Reopened(known', PathsOf(tabs'), prefs'.session, rest)
    <3>1. Reopened(known, PathsOf(tabs), prefs.session, <<path>> \o rest)
      BY <1>1, <1>2, <2>3 DEF EInv, SessionOk
    <3>2. Reopened(known, PathsOf(tabs'), prefs'.session, rest)
      BY <1>2, <1>3, <3>1, ReopenedOne
    <3>3. QED
      BY <1>3, <3>2, OwedStays DEF Reopened, SameEnd
  <2>4. QED
    BY <1>3, <2>1, <2>2, <2>3 DEF SessionOk, SameEnd
<1>7. KeptStep
  BY <1>1 DEF KeptStep
<1>8. QED
  BY <1>3, <1>4, <1>5, <1>6, <1>7 DEF StepGood, EInv

\* All are open: the first frame.
LEMMA FirstFrameGood ==
  ASSUME EInv, FirstFrame
  PROVE  StepGood
<1>1. /\ life = "restored" /\ life' = "running"
      /\ UNCHANGED <<tabs, active, pending, closing, search, hits, prefs, restoring, left, known>>
  BY DEF FirstFrame
<1>2. TabsOk' /\ OneStepOn(tabs, tabs')
  BY <1>1, SameList DEF EInv, TabsOk
<1>3. GridOk'
  BY <1>1 DEF EInv, GridOk, SearchOk, HitsOk, PendingOk, LeftOk
<1>4. LifeOk' /\ SessionOk'
  BY <1>1 DEF EInv, LifeOk, SessionOk
<1>5. KeptStep
  BY <1>1 DEF KeptStep
<1>6. QED
  BY <1>2, <1>3, <1>4, <1>5 DEF StepGood, EInv

\* Every step keeps the invariant.
LEMMA StepsAreGood ==
  ASSUME EInv, [WNext]_<<vars, keyvars>>
  PROVE  StepGood
<1>1. CASE Input
  BY <1>1, InputGood
<1>2. CASE Idle
  BY <1>2, SameGood DEF Idle
<1>3. CASE Close
  BY <1>3, CloseGood
<1>4. CASE life = "running" /\ Drive
  BY <1>4, DriveGood
<1>5. CASE life = "running" /\ Dialogs
  BY <1>5, DialogsGood
<1>6. CASE Kill
  BY <1>6, KillGood
<1>7. CASE Restart
  BY <1>7, RestartGood
<1>8. CASE RestoreNext
  BY <1>8, RestoreNextGood
<1>9. CASE FirstFrame
  BY <1>9, FirstFrameGood
<1>10. CASE /\ life = "running"
            /\ prefs' = IF rebinds' # rebinds THEN SavePrefs(prefs, tabs) ELSE prefs
            /\ UNCHANGED <<tabs, active, pending, closing, life, phase, search, hits,
                           restoring, left, known>>
  BY <1>10, SameGood
<1>11. CASE UNCHANGED <<vars, keyvars>>
  BY <1>11, SameGood DEF vars
<1>12. QED
  BY <1>1, <1>2, <1>3, <1>4, <1>5, <1>6, <1>7, <1>8, <1>9, <1>10, <1>11 DEF WNext, ENext

\* The first start has the invariant.
LEMMA StartIsGood ==
  ASSUME WInit
  PROVE  EInv
<1>1. /\ tabs = <<>> /\ active = 1 /\ pending = NoPending /\ closing = FALSE
      /\ life = "restored" /\ search = NoSearch /\ hits = <<>>
      /\ prefs = [session |-> <<>>, recent |-> <<>>] /\ restoring = <<>>
      /\ left \in Budgets
      /\ known = [nextId |-> 1, atQuit |-> <<>>, answer |-> "none", missing |-> {},
                  reopening |-> "whole", dropped |-> {}]
  BY DEF WInit, EInit
<1>2. TabsOk
  BY <1>1, NoTabsOk DEF TabsOk
<1>3. <<>> \in Seq(Paths) /\ <<>> \in Seq([tab : Indices, at : Nat])
  OBVIOUS
<1>4. LeftOk
  <2>1. left \in [DOMAIN left -> Nat] /\ "kills" \in DOMAIN left
    BY <1>1, EditorAssumption
  <2>2. QED
    BY <2>1 DEF LeftOk
<1>5. PrefsShape(prefs)
  BY <1>1, <1>3 DEF PrefsShape
<1>6. GridOk
  BY <1>1, <1>3, <1>4, <1>5 DEF GridOk, SearchOk, HitsOk, PendingOk, NoPending, Indices
<1>7. LifeOk
  BY <1>1, <1>3 DEF LifeOk, KnownShape
<1>8. SessionOk
  <2>1. <<>> \in Seq(TabRecords)
    OBVIOUS
  <2>2. PathsOf(tabs) = <<>>
    BY <1>1, <2>1, PathsOfPaths
  <2>3. Owed(known, <<>>)
    <3>1. /\ known.atQuit \in Seq(Paths) /\ known.reopening = "whole" /\ known.dropped = {}
          /\ known.atQuit = <<>>
      BY <1>1, <1>3
    <3>2. QED
      BY <3>1, OwedWhole
  <2>4. Reopened(known, <<>>, <<>>, <<>>)
    BY <2>3, ReopenedNone
  <2>5. life = "restored" /\ prefs.session = <<>>
    BY <1>1
  <2>6. QED
    BY <2>2, <2>4, <2>5 DEF SessionOk
<1>9. QED
  BY <1>2, <1>6, <1>7, <1>8 DEF EInv

-----------------------------------------------------------------------------
(* The theorems. *)

\* Every state of the editor keeps the invariant.
THEOREM EditorInvariant == WSpec => []EInv
<1>1. WInit => EInv
  BY StartIsGood
<1>2. EInv /\ [WNext]_<<vars, keyvars>> => EInv'
  BY StepsAreGood DEF StepGood
<1>3. QED
  BY <1>1, <1>2, PTL DEF WSpec

\* What a step of one run may hold.
LEMMA RunsOfStep ==
  ASSUME NEW s \in UndoSteps
  PROVE  Cardinality(Runs(s)) <= 1 /\ (Runs(s) # {} => ~ Wrote(s, {"inspector", "fill"}))
<1>1. CASE NoTyping(s.by)
  <2>1. Runs(s) = {}
    BY <1>1 DEF Runs, NoTyping
  <2>2. QED
    BY <2>1, FS_EmptySet
<1>2. CASE \E r \in Nat : Joins(s.by, r)
  <2>1. PICK r \in Nat : Joins(s.by, r)
    BY <1>2
  <2>2. Runs(s) = {} \/ Runs(s) = {r}
    BY <2>1 DEF Runs, Joins
  <2>3. Cardinality(Runs(s)) <= 1
    <3>1. Cardinality({}) = 0
      BY FS_EmptySet
    <3>2. Cardinality({r}) = 1
      BY FS_Singleton
    <3>3. QED
      BY ONLY <2>2, <3>1, <3>2
  <2>4. ~ Wrote(s, {"inspector", "fill"})
    BY <2>1 DEF Wrote, Joins
  <2>5. QED
    BY <2>3, <2>4
<1>3. QED
  BY <1>1, <1>2 DEF UndoSteps, OneRun

\* No undo step of any tab joins the typing of two runs, or typing with a fill
\* or a write of the Data Inspector (hexview.rs:117-118).
THEOREM RunsApart == WSpec => []RunsStayApart
<1>1. EInv => RunsStayApart
  <2>1. SUFFICES ASSUME EInv, NEW i \in 1 .. Len(tabs), NEW s \in Stacks(tabs[i].view)
                 PROVE  /\ Cardinality(Runs(s)) <= 1
                        /\ Runs(s) # {} => ~ Wrote(s, {"inspector", "fill"})
    BY DEF RunsStayApart
  <2>2. tabs[i].view.undo \in Seq(UndoSteps) /\ tabs[i].view.redo \in Seq(UndoSteps)
    <3>1. tabs[i].view \in Docs
      BY <2>1, ListTypes DEF EInv, TabsOk
    <3>2. QED
      BY <3>1, ViewTypes
  <2>3. s \in UndoSteps
    BY <2>2 DEF Stacks
  <2>4. QED
    BY <2>3, RunsOfStep
<1>2. QED
  BY <1>1, EditorInvariant, PTL

\* After a clean end the next start opens the files that were open then, in
\* their order, without those that cannot be opened; starts that a kill cuts
\* short leave a beginning of that list for the next (config.rs, main.rs:63-68).
THEOREM SessionRestored == WSpec => []RestoredAsLeft
<1>1. EInv => RestoredAsLeft
  <2>1. SUFFICES ASSUME EInv, life = "restored", known.atQuit # NotQuit
                 PROVE  \E n \in Reach : PathsOf(tabs) =
                          OtherPaths(SubSeq(known.atQuit, 1, n), known.missing \cup known.dropped)
    BY DEF RestoredAsLeft
  <2>. DEFINE q == known.atQuit
              gone == known.missing
              out == known.dropped
  <2>2. PICK done \in Seq(Paths) :
          Owed(known, done \o <<>>) /\ PathsOf(tabs) = OtherPaths(done, gone)
    BY <2>1 DEF EInv, SessionOk, Reopened
  <2>3. done \o <<>> = done
    OBVIOUS
  <2>4. Owed(known, done)
    BY <2>2, <2>3
  <2>5. q \in Seq(Paths) /\ \E n \in Reach : done = OtherPaths(SubSeq(q, 1, n), out)
    BY <2>4 DEF Owed, Reach
  <2>6. PICK n \in Reach : done = OtherPaths(SubSeq(q, 1, n), out)
    BY <2>5
  <2>7. n \in 0 .. Len(q)
    BY <2>5 DEF Reach
  <2>. HIDE DEF q, gone, out
  <2>. DEFINE s == SubSeq(q, 1, n)
  <2>8. s \in Seq(Paths)
    BY <2>5, <2>7
  <2>. HIDE DEF s
  <2>9. OtherPaths(OtherPaths(s, out), gone) = OtherPaths(s, out \cup gone)
    BY <2>8, OtherPathsTwice
  <2>10. PathsOf(tabs) = OtherPaths(s, gone \cup out)
    <3>1. out \cup gone = gone \cup out
      OBVIOUS
    <3>2. QED
      BY <2>2, <2>6, <2>9, <3>1 DEF s
  <2>11. QED
    BY <2>6, <2>10 DEF s, q, gone, out
<1>2. QED
  BY <1>1, EditorInvariant, PTL

\* No step gives a tab more than one new step to undo (hexview.rs:282-289).
THEOREM InputIsOneStep == WSpec => OneStepToUndo
<1>1. EInv /\ [WNext]_<<vars, keyvars>> =>
        [\A i \in 1 .. Len(tabs), j \in 1 .. Len(tabs') :
           tabs[i].id = tabs'[j].id => Len(tabs'[j].view.undo) <= Len(tabs[i].view.undo) + 1]_vars
  BY StepsAreGood DEF StepGood, OneStepOn
<1>2. QED
  BY <1>1, EditorInvariant, PTL DEF WSpec, OneStepToUndo

\* A tab with unsaved changes goes only by an answer of the dialog that lets it
\* go: the one tab the dialog names, which is the one it was opened for as long
\* as no other was closed; and the window closes by such an answer only
\* (app.rs:199, dialogs.rs:97-123, frame.rs:26).
THEOREM UnsavedKept == WSpec => UnsavedWorkIsKept
<1>1. EInv /\ [WNext]_<<vars, keyvars>> =>
        [life = "running" /\ life' \in {"running", "closed"} /\ left'.kills = left.kills =>
           /\ Lost # {} => /\ Answered({"discard", "saved"}) /\ pending.kind = "tab"
                           /\ Lost = {IF Shifted THEN tabs[pending.tab].id ELSE pending.of}
           /\ (closing' /\ ~ closing) => Answered({"discard", "saved"})
           /\ (life' = "closed" /\ ~ closing) => UnsavedIds(tabs) = {}]_vars
  BY StepsAreGood DEF StepGood, KeptStep
<1>2. QED
  BY <1>1, EditorInvariant, PTL DEF WSpec, UnsavedWorkIsKept

-----------------------------------------------------------------------------
(* The keyboard: shortcuts.rs, its dialog and the order of menus.rs. *)

\* A text of modifiers and then a key is read back as both (shortcuts.rs, parse).
LEMMA ParseIs ==
  ASSUME NEW t, t \in Seq(Modifiers), NEW key, key \notin Modifiers
  PROVE  Parse(t \o <<key>>) = Chord({t[k] : k \in DOMAIN t}, key)
<1>. DEFINE n == Len(t)
            s == t \o <<key>>
            keys == {k \in DOMAIN s : s[k] \notin Modifiers}
            last == CHOOSE k \in keys : \A j \in keys : j <= k
<1>1. /\ n \in Nat /\ DOMAIN t = 1 .. n /\ DOMAIN s = 1 .. n + 1
      /\ \A k \in 1 .. n : s[k] = t[k] /\ t[k] \in Modifiers
      /\ s[n + 1] = key
  OBVIOUS
<1>2. Parse(s) = Chord({s[k] : k \in DOMAIN s} \cap Modifiers, s[last])
  BY DEF Parse
<1>. HIDE DEF s, n
<1>3. keys = {n + 1}
  <2>1. \A k \in 1 .. n + 1 : k \in 1 .. n \/ k = n + 1
    BY <1>1
  <2>2. n + 1 \in 1 .. n + 1
    BY <1>1
  <2>3. QED
    BY <1>1, <2>1, <2>2
<1>4. last = n + 1
  <2>. HIDE DEF keys
  <2>1. n + 1 \in keys /\ \A j \in keys : j <= n + 1
    BY <1>1, <1>3
  <2>2. last \in keys
    BY <2>1
  <2>3. QED
    BY <1>3, <2>2
<1>5. {s[k] : k \in DOMAIN s} \cap Modifiers = {t[k] : k \in DOMAIN t}
  <2>1. \A k \in 1 .. n + 1 : k \in 1 .. n \/ k = n + 1
    BY <1>1
  <2>2. \A k \in 1 .. n : k \in 1 .. n + 1
    BY <1>1
  <2>3. QED
    BY <1>1, <2>1, <2>2
<1>. HIDE DEF last
<1>6. QED
  BY <1>1, <1>2, <1>4, <1>5 DEF s

\* What two texts hold together.
LEMMA TokensJoin ==
  ASSUME NEW s \in Seq(Modifiers), NEW t \in Seq(Modifiers)
  PROVE  /\ s \o t \in Seq(Modifiers)
         /\ {(s \o t)[k] : k \in DOMAIN (s \o t)} = {s[k] : k \in DOMAIN s} \cup {t[k] : k \in DOMAIN t}
<1>. DEFINE u == s \o t
            m == Len(s)
            n == Len(t)
<1>1. /\ m \in Nat /\ n \in Nat /\ DOMAIN s = 1 .. m /\ DOMAIN t = 1 .. n /\ DOMAIN u = 1 .. m + n
      /\ \A k \in 1 .. m : u[k] = s[k]
      /\ \A k \in 1 .. n : u[m + k] = t[k]
  OBVIOUS
<1>2. u \in Seq(Modifiers)
  OBVIOUS
<1>. HIDE DEF u, m, n
<1>3. ASSUME NEW k \in 1 .. m + n PROVE u[k] \in {s[i] : i \in DOMAIN s} \cup {t[i] : i \in DOMAIN t}
  <2>1. CASE k <= m
    BY <1>1, <2>1
  <2>2. CASE ~(k <= m)
    <3>. DEFINE i == k - m
    <3>1. i \in 1 .. n /\ m + i = k
      BY <1>1, <2>2
    <3>2. QED
      BY <1>1, <3>1
  <2>3. QED
    BY <2>1, <2>2
<1>4. \A k \in 1 .. m : k \in 1 .. m + n /\ s[k] = u[k]
  BY <1>1
<1>5. \A k \in 1 .. n : m + k \in 1 .. m + n /\ t[k] = u[m + k]
  BY <1>1
<1>6. {u[k] : k \in DOMAIN u} = {s[k] : k \in DOMAIN s} \cup {t[k] : k \in DOMAIN t}
  <2>1. {u[k] : k \in DOMAIN u} \subseteq {s[k] : k \in DOMAIN s} \cup {t[k] : k \in DOMAIN t}
    BY <1>1, <1>3
  <2>2. {s[k] : k \in DOMAIN s} \subseteq {u[k] : k \in DOMAIN u}
    BY <1>1, <1>4
  <2>3. {t[k] : k \in DOMAIN t} \subseteq {u[k] : k \in DOMAIN u}
    BY <1>1, <1>5
  <2>4. QED
    BY <2>1, <2>2, <2>3
<1>7. QED
  BY <1>2, <1>6 DEF u

\* What is stored of a chord is read back as the chord (shortcuts.rs, format).
LEMMA FormatReadsBack ==
  ASSUME NEW mods \in SUBSET Modifiers, NEW key, key \notin Modifiers
  PROVE  Parse(Format(Chord(Normalize(mods), key))) = Chord(Normalize(mods), key)
<1>. DEFINE M == Normalize(mods)
            sc == Chord(M, key)
            Of(t) == {t[k] : k \in DOMAIN t}
            Tok(m) == Token(sc, m)
            two == Tok("cmd") \o Tok("ctrl")
            three == two \o Tok("alt")
            four == three \o Tok("shift")
<1>1. M \subseteq Modifiers /\ Normalize(M) = M
  BY DEF Normalize, Modifiers
<1>2. sc.mods = M /\ sc.key = key
  BY DEF Chord
<1>. HIDE DEF M
<1>3. ASSUME NEW m \in Modifiers PROVE Tok(m) \in Seq(Modifiers) /\ Of(Tok(m)) = M \cap {m}
  <2>1. CASE m \in M
    <3>1. Tok(m) = <<m>>
      BY <1>1, <1>2, <2>1 DEF Token
    <3>2. <<m>> \in Seq(Modifiers) /\ Of(<<m>>) = {m}
      OBVIOUS
    <3>3. QED
      BY <2>1, <3>1, <3>2
  <2>2. CASE m \notin M
    <3>1. Tok(m) = <<>>
      BY <1>1, <1>2, <2>2 DEF Token
    <3>2. <<>> \in Seq(Modifiers) /\ Of(<<>>) = {}
      OBVIOUS
    <3>3. QED
      BY <2>2, <3>1, <3>2
  <2>3. QED
    BY <2>1, <2>2
<1>. HIDE DEF Tok, sc
<1>4. {"cmd", "ctrl", "alt", "shift"} = Modifiers
  BY DEF Modifiers
<1>5. two \in Seq(Modifiers) /\ Of(two) = M \cap {"cmd", "ctrl"}
  <2>1. /\ Tok("cmd") \in Seq(Modifiers) /\ Tok("ctrl") \in Seq(Modifiers)
        /\ Of(Tok("cmd")) = M \cap {"cmd"} /\ Of(Tok("ctrl")) = M \cap {"ctrl"}
    BY <1>3, <1>4
  <2>2. two \in Seq(Modifiers) /\ Of(two) = Of(Tok("cmd")) \cup Of(Tok("ctrl"))
    BY <2>1, TokensJoin
  <2>3. QED
    BY <2>1, <2>2
<1>. HIDE DEF two
<1>6. three \in Seq(Modifiers) /\ Of(three) = M \cap {"cmd", "ctrl", "alt"}
  <2>1. Tok("alt") \in Seq(Modifiers) /\ Of(Tok("alt")) = M \cap {"alt"}
    BY <1>3, <1>4
  <2>2. three \in Seq(Modifiers) /\ Of(three) = Of(two) \cup Of(Tok("alt"))
    BY <1>5, <2>1, TokensJoin
  <2>3. QED
    BY <1>5, <2>1, <2>2
<1>. HIDE DEF three
<1>7. four \in Seq(Modifiers) /\ Of(four) = M
  <2>1. Tok("shift") \in Seq(Modifiers) /\ Of(Tok("shift")) = M \cap {"shift"}
    BY <1>3, <1>4
  <2>2. four \in Seq(Modifiers) /\ Of(four) = Of(three) \cup Of(Tok("shift"))
    BY <1>6, <2>1, TokensJoin
  <2>3. QED
    BY <1>1, <1>4, <1>6, <2>1, <2>2
<1>8. Format(sc) = four \o <<key>>
  BY <1>2 DEF Format, Tok, two, three
<1>. HIDE DEF four
<1>9. Parse(four \o <<key>>) = Chord(M, key)
  BY <1>7, ParseIs
<1>10. QED
  BY <1>8, <1>9 DEF sc, M

\* The defaults, in the order in which a frame consumes them.
KeyOf == <<"o", "n", "s", "s", "w", "z", "z", "g", "a", "f", "f3", "f3", "f6">>
ModsOf == <<{"cmd"}, {"cmd"}, {"cmd", "shift"}, {"cmd"}, {"cmd"}, {"cmd", "shift"}, {"cmd"}, {"cmd"}, {"cmd"}, {"cmd"},
            {"shift"}, {}, {}>>

\* What every place of that order stands for (shortcuts.rs:72-93).
LEMMA DefaultsAre ==
  ASSUME NEW k \in 1 .. 13
  PROVE  /\ ConsumeOrder[k] \in ActionsAll
         /\ DefaultShortcut[ConsumeOrder[k]].key = KeyOf[k]
         /\ DefaultShortcut[ConsumeOrder[k]].mods = ModsOf[k]
<1>. DEFINE a == ConsumeOrder[k]
            d == DefaultShortcut[a]
<1>0. k \in 1 .. 13
  OBVIOUS
<1>1. ASSUME k = 1 PROVE a = "open" /\ d = Chord({"cmd"}, "o")
  BY <1>0, <1>1 DEF ConsumeOrder, DefaultShortcut, ActionsAll
<1>2. ASSUME k = 2 PROVE a = "new" /\ d = Chord({"cmd"}, "n")
  BY <1>0, <1>2 DEF ConsumeOrder, DefaultShortcut, ActionsAll
<1>3. ASSUME k = 3 PROVE a = "save_as" /\ d = Chord({"cmd", "shift"}, "s")
  BY <1>0, <1>3 DEF ConsumeOrder, DefaultShortcut, ActionsAll
<1>4. ASSUME k = 4 PROVE a = "save" /\ d = Chord({"cmd"}, "s")
  BY <1>0, <1>4 DEF ConsumeOrder, DefaultShortcut, ActionsAll
<1>5. ASSUME k = 5 PROVE a = "close" /\ d = Chord({"cmd"}, "w")
  BY <1>0, <1>5 DEF ConsumeOrder, DefaultShortcut, ActionsAll
<1>6. ASSUME k = 6 PROVE a = "redo" /\ d = Chord({"cmd", "shift"}, "z")
  BY <1>0, <1>6 DEF ConsumeOrder, DefaultShortcut, ActionsAll
<1>7. ASSUME k = 7 PROVE a = "undo" /\ d = Chord({"cmd"}, "z")
  BY <1>0, <1>7 DEF ConsumeOrder, DefaultShortcut, ActionsAll
<1>8. ASSUME k = 8 PROVE a = "goto" /\ d = Chord({"cmd"}, "g")
  BY <1>0, <1>8 DEF ConsumeOrder, DefaultShortcut, ActionsAll
<1>9. ASSUME k = 9 PROVE a = "select_all" /\ d = Chord({"cmd"}, "a")
  BY <1>0, <1>9 DEF ConsumeOrder, DefaultShortcut, ActionsAll
<1>10. ASSUME k = 10 PROVE a = "find" /\ d = Chord({"cmd"}, "f")
  BY <1>0, <1>10 DEF ConsumeOrder, DefaultShortcut, ActionsAll
<1>11. ASSUME k = 11 PROVE a = "find_prev" /\ d = Chord({"shift"}, "f3")
  BY <1>0, <1>11 DEF ConsumeOrder, DefaultShortcut, ActionsAll
<1>12. ASSUME k = 12 PROVE a = "find_next" /\ d = Chord({}, "f3")
  BY <1>0, <1>12 DEF ConsumeOrder, DefaultShortcut, ActionsAll
<1>13. ASSUME k = 13 PROVE a = "next_diff" /\ d = Chord({}, "f6")
  BY <1>0, <1>13 DEF ConsumeOrder, DefaultShortcut, ActionsAll
<1>14. \/ k = 1 \/ k = 2 \/ k = 3 \/ k = 4 \/ k = 5 \/ k = 6 \/ k = 7
       \/ k = 8 \/ k = 9 \/ k = 10 \/ k = 11 \/ k = 12 \/ k = 13
  OBVIOUS
<1>. HIDE DEF a, d
<1>15. a \in ActionsAll
  BY <1>1, <1>2, <1>3, <1>4, <1>5, <1>6, <1>7, <1>8, <1>9, <1>10, <1>11, <1>12, <1>13, <1>14 DEF ActionsAll
<1>16. d = Chord(ModsOf[k], KeyOf[k])
  BY <1>1, <1>2, <1>3, <1>4, <1>5, <1>6, <1>7, <1>8, <1>9, <1>10, <1>11, <1>12, <1>13, <1>14 DEF ModsOf, KeyOf
<1>17. QED
  BY <1>15, <1>16 DEF a, d, Chord

\* The defaults are a chord for every action.
LEMMA DefaultsResolve == DefaultShortcut = [a \in ActionsAll |-> DefaultShortcut[a]] /\ Resolve(<<>>) = DefaultShortcut
<1>1. DOMAIN <<>> = {}
  OBVIOUS
<1>2. Resolve(<<>>) = [a \in ActionsAll |-> DefaultShortcut[a]]
  BY <1>1 DEF Resolve
<1>4. DefaultShortcut = [a \in ActionsAll |-> DefaultShortcut[a]]
  <2>. DEFINE F(a) == CASE a = "open"       -> Chord({"cmd"}, "o")
                        [] a = "new"        -> Chord({"cmd"}, "n")
                        [] a = "save"       -> Chord({"cmd"}, "s")
                        [] a = "save_as"    -> Chord({"cmd", "shift"}, "s")
                        [] a = "close"      -> Chord({"cmd"}, "w")
                        [] a = "undo"       -> Chord({"cmd"}, "z")
                        [] a = "redo"       -> Chord({"cmd", "shift"}, "z")
                        [] a = "goto"       -> Chord({"cmd"}, "g")
                        [] a = "select_all" -> Chord({"cmd"}, "a")
                        [] a = "find"       -> Chord({"cmd"}, "f")
                        [] a = "find_next"  -> Chord({}, "f3")
                        [] a = "find_prev"  -> Chord({"shift"}, "f3")
                        [] a = "next_diff"  -> Chord({}, "f6")
  <2>1. DefaultShortcut = [a \in ActionsAll |-> F(a)]
    BY DEF DefaultShortcut
  <2>. HIDE DEF F
  <2>2. QED
    BY <2>1
<1>5. QED
  BY <1>2, <1>4

\* The action that a press reaches, of any map.
FirstTaker(map, press) ==
  LET takers == {k \in 1 .. Len(ConsumeOrder) : Fits(press, map[ConsumeOrder[k]])}
  IN  IF takers = {} THEN Nobody ELSE ConsumeOrder[CHOOSE k \in takers : \A j \in takers : k <= j]

\* With the defaults every chord reaches its own action: the chords with shift
\* are consumed before those without (menus.rs:46-55).
LEMMA DefaultsReach ==
  ASSUME NEW map, map = DefaultShortcut, NEW a \in ActionsAll
  PROVE  FirstTaker(map, map[a]) = a
<1>. DEFINE takers == {k \in 1 .. Len(ConsumeOrder) : Fits(map[a], map[ConsumeOrder[k]])}
            first == CHOOSE k \in takers : \A j \in takers : k <= j
<1>1. PICK k \in 1 .. 13 : ConsumeOrder[k] = a
  <2>1. /\ ConsumeOrder[1] = "open" /\ ConsumeOrder[2] = "new" /\ ConsumeOrder[3] = "save_as" /\ ConsumeOrder[4] = "save"
        /\ ConsumeOrder[5] = "close" /\ ConsumeOrder[6] = "redo" /\ ConsumeOrder[7] = "undo" /\ ConsumeOrder[8] = "goto"
        /\ ConsumeOrder[9] = "select_all" /\ ConsumeOrder[10] = "find" /\ ConsumeOrder[11] = "find_prev"
        /\ ConsumeOrder[12] = "find_next" /\ ConsumeOrder[13] = "next_diff"
    BY DEF ConsumeOrder
  <2>2. QED
    BY <2>1 DEF ActionsAll
<1>2. Len(ConsumeOrder) = 13
  BY DEF ConsumeOrder
<1>3. \A j \in 1 .. 13 : map[ConsumeOrder[j]].key = KeyOf[j] /\ map[ConsumeOrder[j]].mods = ModsOf[j]
  BY DefaultsAre
<1>4. \A j \in 1 .. 13 : j \in takers <=> Fits(map[ConsumeOrder[k]], map[ConsumeOrder[j]])
  BY <1>1, <1>2
<1>5. takers \subseteq 1 .. 13
  BY <1>2
<1>. HIDE DEF takers
<1>6. k \in takers
  BY <1>4 DEF Fits
<1>7. ASSUME NEW j \in 1 .. 13, j < k PROVE j \notin takers
  <2>. DEFINE press == map[ConsumeOrder[k]]
              chord == map[ConsumeOrder[j]]
  <2>1. press.key = KeyOf[k] /\ press.mods = ModsOf[k] /\ chord.key = KeyOf[j] /\ chord.mods = ModsOf[j]
    BY <1>3
  <2>2. j \in takers <=> Fits(press, chord)
    BY <1>4
  <2>. HIDE DEF press, chord
  <2>3. CASE KeyOf[j] # KeyOf[k]
    BY <2>1, <2>2, <2>3 DEF Fits
  <2>4. CASE KeyOf[j] = KeyOf[k]
    <3>1. (j = 3 /\ k = 4) \/ (j = 6 /\ k = 7) \/ (j = 11 /\ k = 12)
      BY <1>7, <2>4 DEF KeyOf
    <3>2. "shift" \in ModsOf[j] /\ "shift" \notin ModsOf[k]
      BY <3>1 DEF ModsOf
    <3>3. QED
      BY <2>1, <2>2, <3>2 DEF Fits
  <2>5. QED
    BY <2>3, <2>4
<1>8. \A j \in takers : k <= j
  BY <1>5, <1>7
<1>9. first = k
  <2>1. first \in takers /\ \A j \in takers : first <= j
    BY <1>6, <1>8
  <2>. HIDE DEF first
  <2>2. QED
    BY <1>5, <1>6, <1>8, <2>1
<1>. HIDE DEF first
<1>10. (IF takers = {} THEN Nobody ELSE ConsumeOrder[first]) = a
  BY <1>1, <1>6, <1>9
<1>11. QED
  BY <1>10 DEF takers, first, FirstTaker

\* The stored overrides resolve to what the program uses.
KeysOk ==
  /\ recording \in ActionsAll \cup {Nobody}
  /\ shortcuts = [a \in ActionsAll |-> shortcuts[a]]
  /\ Resolve(overrides) = shortcuts

\* A change in the dialog, or none.
LEMMA KeyStep ==
  ASSUME KeysOk, KNext \/ UNCHANGED keyvars
  PROVE  KeysOk' /\ KeysFit'
<1>1. KeysOk'
  <2>1. CASE UNCHANGED keyvars
    BY <2>1 DEF keyvars, KeysOk, Resolve
  <2>2. ASSUME NEW a \in ActionsAll, Record(a) PROVE KeysOk'
    BY <2>2 DEF Record, KeysOk, Resolve
  <2>3. CASE Abandon
    BY <2>3 DEF Abandon, KeysOk, Resolve
  <2>4. ASSUME NEW a \in ActionsAll, Reset(a) PROVE KeysOk'
    <3>1. /\ shortcuts' = [shortcuts EXCEPT ![a] = DefaultShortcut[a]] /\ recording' = recording
          /\ overrides' = [b \in DOMAIN overrides \ {a} |-> overrides[b]]
      BY <2>4 DEF Reset
    <3>2. shortcuts' = [b \in ActionsAll |-> IF b = a THEN DefaultShortcut[a] ELSE shortcuts[b]]
      BY <3>1 DEF KeysOk
    <3>3. \A b \in ActionsAll : shortcuts[b] = IF b \in DOMAIN overrides THEN Parse(overrides[b]) ELSE DefaultShortcut[b]
      BY DEF KeysOk, Resolve
    <3>4. Resolve(overrides') = [b \in ActionsAll |-> IF b = a THEN DefaultShortcut[a] ELSE shortcuts[b]]
      BY <3>1, <3>3 DEF Resolve
    <3>5. shortcuts' = [b \in ActionsAll |-> shortcuts'[b]]
      BY <3>2
    <3>6. QED
      BY <3>1, <3>2, <3>4, <3>5 DEF KeysOk, Resolve
  <2>5. ASSUME NEW press \in Captured, Capture(press) PROVE KeysOk'
    <3>. DEFINE sc == Chord(Normalize(press.mods), press.key)
                a == recording
    <3>1. /\ recording # Nobody /\ recording' = Nobody /\ shortcuts' = [shortcuts EXCEPT ![a] = sc]
          /\ overrides' = [b \in DOMAIN overrides \cup {a} |-> IF b = a THEN Format(sc) ELSE overrides[b]]
      BY <2>5 DEF Capture
    <3>2. Parse(Format(sc)) = sc
      BY CapturedAssumption, FormatReadsBack
    <3>3. a \in ActionsAll
      BY <3>1 DEF KeysOk
    <3>. HIDE DEF sc, a
    <3>4. shortcuts' = [b \in ActionsAll |-> IF b = a THEN sc ELSE shortcuts[b]]
      BY <3>1 DEF KeysOk
    <3>5. \A b \in ActionsAll : shortcuts[b] = IF b \in DOMAIN overrides THEN Parse(overrides[b]) ELSE DefaultShortcut[b]
      BY DEF KeysOk, Resolve
    <3>6. \A b \in ActionsAll :
            (IF b \in DOMAIN overrides' THEN Parse(overrides'[b]) ELSE DefaultShortcut[b]) = IF b = a THEN sc ELSE shortcuts[b]
      BY <3>1, <3>2, <3>5
    <3>7. Resolve(overrides') = [b \in ActionsAll |-> IF b = a THEN sc ELSE shortcuts[b]]
      BY <3>6 DEF Resolve
    <3>8. shortcuts' = [b \in ActionsAll |-> shortcuts'[b]]
      BY <3>4
    <3>9. QED
      BY <3>1, <3>4, <3>7, <3>8 DEF KeysOk, Resolve
  <2>6. CASE ResetAll
    <3>1. shortcuts' = DefaultShortcut /\ overrides' = <<>> /\ recording' = recording
      BY <2>6 DEF ResetAll
    <3>2. QED
      BY <3>1, DefaultsResolve DEF KeysOk
  <2>7. QED
    BY <2>1, <2>2, <2>3, <2>4, <2>5, <2>6 DEF KNext
<1>2. ASSUME DOMAIN overrides' = {}, NEW a \in ActionsAll PROVE Reaches(shortcuts[a])' = a
  <2>1. Resolve(overrides') = [b \in ActionsAll |-> DefaultShortcut[b]]
    BY <1>2 DEF Resolve
  <2>2. shortcuts' = DefaultShortcut
    BY <1>1, <2>1, DefaultsResolve DEF KeysOk, Resolve
  <2>. DEFINE map == shortcuts'
  <2>3. map = DefaultShortcut
    BY <2>2
  <2>. HIDE DEF map
  <2>4. FirstTaker(map, map[a]) = a
    BY <2>3, DefaultsReach
  <2>5. QED
    BY <2>4 DEF Reaches, FirstTaker, map
<1>3. QED
  BY <1>1, <1>2 DEF KeysOk, KeysFit

\* After every change in the dialog, what the next start resolves from the stored
\* overrides is what the program uses, and the defaults all reach their actions
\* (shortcuts.rs, menus.rs:46-55).
THEOREM KeysReach == WSpec => KeysReachTheirActions
<1>1. WInit => KeysOk
  BY DefaultsResolve DEF WInit, KInit, KeysOk
<1>2. KeysOk /\ [WNext]_<<vars, keyvars>> => KeysOk' /\ [rebinds' # rebinds => KeysFit']_keyvars
  <2>1. [WNext]_<<vars, keyvars>> => KNext \/ UNCHANGED keyvars
    BY DEF WNext
  <2>2. QED
    BY <2>1, KeyStep
<1>3. QED
  BY <1>1, <1>2, PTL DEF WSpec, KeysReachTheirActions
=============================================================================
