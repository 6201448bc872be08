----------------------------- MODULE SearchJob -----------------------------
(***************************************************************************)
(* gui/src/search.rs and search/drive.rs: one search job over a document.  *)
(* A frame of the editor spends FrameBudget on the job, a step at a time;  *)
(* between two frames the user may edit the same document.                 *)
(*                                                                         *)
(* Here the bytes have letters: source[i + 1] is the letter of              *)
(* <<"Original", i>> and letters[k + 1] that of <<"Added", k>>.  What       *)
(* cannot be read shows as ZeroLetter.                                     *)
(*                                                                         *)
(* One document: the queue of "all tabs" is empty, and the job's tab stays  *)
(* open.                                                                   *)
(***************************************************************************)
EXTENDS Document, Search

CONSTANTS
  Texts,         \* bound: the sources
  Unreadables,   \* bound: which of their bytes cannot be read
  Patterns,      \* bound: what is searched
  Replacements,  \* bound: what replaces it
  Typed,         \* bound: the letters the user types
  Ranges,        \* bound: the selections a search is restricted to
  ZeroLetter,    \* the letter of the byte 0
  FrameBudget,   \* FRAME_BUDGET: what the steps of a frame scan
  MaxResults,    \* MAX_RESULTS: cap of the results list
  MaxJobs        \* bound: jobs started

IsSequence(s) == s \in Seq({s[k] : k \in 1 .. Len(s)})

\* A pattern is never empty (pattern.rs:25, 35, 52, 61).
ASSUME SearchAssumption ==
  /\ FrameBudget \in Nat /\ MaxResults \in Nat
  /\ \A s \in Texts \cup Replacements : IsSequence(s)
  /\ \A p \in Patterns : Len(p) \in Nat \ {0}
  /\ \A r \in Ranges : r[1] \in Nat /\ r[2] \in Nat

VARIABLES source, bad, letters, job,
          budget,    \* what is left of the frame's budget, 0 between frames
          outcome,   \* what the last job showed when it ended
          started    \* jobs started so far, kept below MaxJobs

searchvars == <<source, bad, letters, job, budget, outcome, started>>
jobvars == <<doc, panicked, edits, searchvars>>

NoJob == [kind |-> "None"]
Pending == [kind |-> "Pending"]
Ended(kind) == [kind |-> kind]

TextOf(d, added) ==
  LET c == Content(d.table)
  IN  [k \in 1 .. Len(c) |->
         IF c[k][1] = "Added" THEN added[c[k][2] + 1]
         ELSE IF c[k][2] \in bad THEN ZeroLetter ELSE source[c[k][2] + 1]]

\* The positions that read() reports as unreadable.
UnreadIn(d) ==
  LET c == Content(d.table)
  IN  {k \in 0 .. Len(c) - 1 : c[k + 1][1] = "Original" /\ c[k + 1][2] \in bad}

Text == TextOf(doc, letters)
Unread == UnreadIn(doc)

-----------------------------------------------------------------------------
(* The jobs.                                                               *)

JobOf(d, kind, p, r, range, from, backward, wrap) ==
  [kind |-> kind, pattern |-> p, replacement |-> r, rangeEnd |-> range[2],
   count |-> 0, results |-> <<>>,
   searcher |-> NewSearcher(range[1], range[2], Length(d), from, backward, wrap, Len(p))]

\* The whole document, or the selection.
Whole(d) == <<0, Length(d)>>
SearchRanges == {Whole(doc)} \cup {r \in Ranges : r[1] < r[2] /\ r[2] <= Length(doc)}

\* The cursor, or next to the selection the search is restricted to.
Froms(range, backward) ==
  IF range = Whole(doc) THEN Offsets ELSE {range[1] + (IF backward THEN 0 ELSE 1)}

Begin(next) == job' = next /\ outcome' = Pending

Counted == started < MaxJobs /\ started' = started + 1

\* The keys for next and previous, and Enter, drop a job that runs; the buttons
\* of the other jobs are not there while one does.
StartNext(p, backward, wrap, range, from) ==
  /\ budget = 0
  /\ Counted
  /\ Begin(JobOf(doc, "Next", p, <<>>, range, from, backward, wrap))
  /\ UNCHANGED <<doc, panicked, edits, source, bad, letters, budget>>

StartAll(p, range) ==
  /\ budget = 0 /\ job = NoJob
  /\ Counted
  /\ Begin(JobOf(doc, "All", p, <<>>, range, range[1], FALSE, FALSE))
  /\ UNCHANGED <<doc, panicked, edits, source, bad, letters, budget>>

StartReplaceAll(p, r, range) ==
  /\ budget = 0 /\ job = NoJob
  /\ Counted
  /\ Begin(JobOf(doc, "ReplaceAll", p, r, range, range[1], FALSE, FALSE))
  /\ UNCHANGED <<doc, panicked, edits, source, bad, letters, budget>>

-----------------------------------------------------------------------------
(* apply_replacement: an overwrite, or a delete and an insert merged.      *)

MayReplace(d, at, m, n) ==
  IF n = m THEN MayOverwrite(d, at, n) ELSE MayDelete(d, at, m)

ApplyReplacement(d, at, m, n) ==
  IF n = m THEN Overwrite(d, at, n)
  ELSE IF n = 0 THEN Delete(d, at, m)
  ELSE MergeWithPrevious(Insert(Delete(d, at, m), at, n))

\* What an append that fails leaves of a replacement.
FailedReplacements(d, at, m, n) ==
  IF n = 0 THEN {}
  ELSE IF n = m THEN FailedOverwrites(d, at, n)
  ELSE AppendFailures(Delete(d, at, m), n)

\* Where the k-th match of a step lies after the replacements before it.
Shifted(out, k, delta) == out[k] + (k - 1) * delta

\* A plausible slip: the first replacement is merged too.
MergesAlways(d, count) == MergeWithPrevious(d)

\* `if *count > 0 { merge_with_previous() }`: one undo for the whole job.
MergedAfter(d, count) == IF count > 0 THEN MergeWithPrevious(d) ELSE d

\* ReplacedUpTo(d, out, j)[k]: the document after k replacements of a step.
ReplacedUpTo(d, out, j) ==
  LET m == Len(j.pattern)
      n == Len(j.replacement)
      f[k \in 0 .. Len(out)] ==
        IF k = 0 THEN d
        ELSE MergedAfter(ApplyReplacement(f[k - 1], Shifted(out, k, n - m), m, n),
                         j.count + k - 1)
  IN  f

AddedBy(ls, r, k) == ls \o [i \in 1 .. k * Len(r) |-> r[((i - 1) % Len(r)) + 1]]

-----------------------------------------------------------------------------
(* A step of the frame.                                                    *)

BeginFrame ==
  /\ job # NoJob /\ budget = 0
  /\ budget' = FrameBudget
  /\ UNCHANGED <<doc, panicked, edits, source, bad, letters, job, outcome, started>>

Step == Stepped(job.searcher, job.pattern, Text, Unread, budget)

\* The job goes on with `next`, in this frame or in another.
GoesOn(next, scanned) ==
  /\ job' = next
  /\ budget' = Monus(budget, Larger(scanned, 1))
  /\ UNCHANGED outcome

Finish(how) == job' = NoJob /\ budget' = 0 /\ outcome' = how

DriveNext ==
  /\ budget > 0 /\ job.kind = "Next"
  /\ LET st == Step
         k == IF job.searcher.backward THEN Len(st.out) ELSE 1
     IN  IF st.out # <<>> THEN Finish([kind |-> "Match", at |-> st.out[k]])
         ELSE IF st.searcher.finished THEN Finish(Ended("NoMatch"))
         ELSE GoesOn([job EXCEPT !.searcher = st.searcher], st.scanned)
  /\ UNCHANGED <<doc, panicked, edits, source, bad, letters, started>>

\* The results list, here kept with the job and shown when it ends.
DriveAll ==
  /\ budget > 0 /\ job.kind = "All"
  /\ LET st == Step
         all == job.results \o st.out
         list == SubSeq(all, 1, Smaller(Len(all), MaxResults))
     IN  IF Len(all) > MaxResults THEN Finish([kind |-> "Truncated", results |-> list])
         ELSE IF st.searcher.finished THEN Finish([kind |-> "All", results |-> list])
         ELSE GoesOn([job EXCEPT !.searcher = st.searcher, !.results = list], st.scanned)
  /\ UNCHANGED <<doc, panicked, edits, source, bad, letters, started>>

\* A plausible slip: the search resumes at the replacement, not behind it.
ResumesAt(out, delta, n) == Shifted(out, Len(out), delta)

Resume(out, delta, n) == Shifted(out, Len(out), delta) + n

\* After a change of size the old searcher's offsets are shifted: a new one
\* continues behind the last replacement.
Restarted(j, st, d) ==
  LET m == Len(j.pattern)
      n == Len(j.replacement)
      stop == j.rangeEnd + Len(st.out) * (n - m)
      at == Resume(st.out, n - m, n)
  IN  IF n = m \/ st.out = <<>>
        THEN [j EXCEPT !.searcher = st.searcher, !.count = @ + Len(st.out)]
        ELSE [j EXCEPT !.rangeEnd = stop, !.count = @ + Len(st.out),
                       !.searcher = NewSearcher(at, stop, Length(d), at, FALSE, FALSE, m)]

\* All matches of the step are replaced, or the append of one of them fails.
DriveReplaceAll ==
  /\ budget > 0 /\ job.kind = "ReplaceAll"
  /\ LET st == Step
         m == Len(job.pattern)
         n == Len(job.replacement)
         docs == ReplacedUpTo(doc, st.out, job)
     IN  IF st.out # <<>> /\ ~ MayReplace(doc, st.out[1], m, n)
           THEN Finish(Ended("Error")) /\ UNCHANGED <<doc, letters>>
           ELSE \/ /\ doc' = docs[Len(st.out)]
                   /\ letters' = AddedBy(letters, job.replacement, Len(st.out))
                   /\ IF st.searcher.finished THEN Finish([kind |-> "Replaced", count |-> job.count + Len(st.out)])
                      ELSE GoesOn(Restarted(job, st, doc'), st.scanned)
                \/ \E k \in 1 .. Len(st.out) :
                     /\ doc' \in FailedReplacements(docs[k - 1], Shifted(st.out, k, n - m), m, n)
                     /\ letters' = AddedBy(letters, job.replacement, k - 1)
                     /\ Finish(Ended("Torn"))
  /\ UNCHANGED <<panicked, edits, source, bad, started>>

Cancel ==
  /\ job # NoJob /\ budget = 0
  /\ Finish(Ended("Cancelled"))
  /\ UNCHANGED <<doc, panicked, edits, source, bad, letters, started>>

\* Replace: the selected match, and the search for the next one.  When the
\* selection is no match, or there is none, it is StartNext and nothing else.
Replaced(p, r, at, wrap) ==
  LET m == Len(p)
      n == Len(r)
  IN  IF ~ MayReplace(doc, at, m, n)
        THEN outcome' = Ended("Error") /\ UNCHANGED <<doc, letters, job>>
        ELSE \/ /\ doc' = ApplyReplacement(doc, at, m, n)
                /\ letters' = letters \o r
                /\ Begin(JobOf(doc', "Next", p, <<>>, Whole(doc'), at + n, FALSE, wrap))
             \/ /\ doc' \in FailedReplacements(doc, at, m, n)
                /\ outcome' = Ended("Torn")
                /\ UNCHANGED <<letters, job>>

\* Only what find_next confirms, over exactly the selection, is replaced.
Confirmed(p, at) ==
  Stepped(NewSearcher(at, at + Len(p), Length(doc), at, FALSE, FALSE, Len(p)),
          p, Text, Unread, Window).out = <<at>>

ReplaceCurrent(p, r, at, wrap) ==
  /\ budget = 0 /\ job = NoJob
  /\ at + Len(p) <= Length(doc)
  /\ Confirmed(p, at)
  /\ Counted
  /\ Replaced(p, r, at, wrap)
  /\ UNCHANGED <<panicked, edits, source, bad, budget>>

-----------------------------------------------------------------------------
(* The user, between two frames.                                           *)

TypeLetter ==
  /\ budget = 0 /\ edits < MaxEdits /\ edits' = edits + 1
  /\ \E at \in Offsets, x \in Typed :
       /\ \/ MayInsert(doc, at, 1) /\ doc' = Insert(doc, at, 1)
          \/ MayOverwrite(doc, at, 1) /\ doc' = Overwrite(doc, at, 1)
       /\ letters' = Append(letters, x)
  /\ UNCHANGED <<panicked, source, bad, job, budget, outcome, started>>

DeleteLetter ==
  /\ budget = 0 /\ edits < MaxEdits /\ edits' = edits + 1
  /\ \E at \in Offsets : DeleteAt(at, 1)
  /\ UNCHANGED <<panicked, searchvars>>

UndoOrRedo ==
  /\ budget = 0
  /\ UndoStep \/ RedoStep
  /\ UNCHANGED searchvars

SearchInit ==
  /\ source \in Texts
  /\ bad \in Unreadables
  /\ \E resizable \in BOOLEAN : doc = NewDocument(Len(source), resizable)
  /\ panicked = FALSE /\ edits = 0
  /\ letters = <<>> /\ job = NoJob /\ budget = 0
  /\ outcome = Ended("None") /\ started = 0

Start ==
  \E p \in Patterns, wrap \in BOOLEAN :
    \/ \E range \in SearchRanges, backward \in BOOLEAN :
         \E from \in Froms(range, backward) : StartNext(p, backward, wrap, range, from)
    \/ \E range \in SearchRanges : StartAll(p, range)
    \/ \E range \in SearchRanges, r \in Replacements : StartReplaceAll(p, r, range)
    \/ \E r \in Replacements, at \in Offsets : ReplaceCurrent(p, r, at, wrap)

Drive == DriveNext \/ DriveAll \/ DriveReplaceAll
User == TypeLetter \/ DeleteLetter \/ UndoOrRedo

SearchNext ==
  /\ ~ panicked
  /\ Start \/ BeginFrame \/ Drive \/ Cancel \/ User
=============================================================================
