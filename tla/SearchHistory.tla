--------------------------- MODULE SearchHistory ---------------------------
(***************************************************************************)
(* SearchJob with a history variable on what the running job was asked:    *)
(* the text, the unreadable positions, the content and the undo depth when *)
(* it began, and its searcher then.  Once the user has edited the document *)
(* between two of its frames the job is disturbed, and nothing is promised *)
(* about its result but that every step is right for the text it sees.     *)
(***************************************************************************)
EXTENDS BlockingSearch

VARIABLE asked
hvars == <<doc, panicked, edits, searchvars, asked>>

NotAsked == [is |-> "nothing"]
Disturbed == [is |-> "disturbed"]

AskedNow(d, ls, j) ==
  [is |-> "known", text |-> TextOf(d, ls), unread |-> UnreadIn(d), content |-> Content(d.table),
   depth |-> Len(d.undo), searcher |-> j.searcher]

HInit == SearchInit /\ asked = NotAsked

HStart ==
  /\ Start
  /\ asked' = IF job' = NoJob THEN NotAsked ELSE AskedNow(doc', letters', job')

HEnd == (Drive \/ Cancel) /\ asked' = IF job' = NoJob THEN NotAsked ELSE asked

HUser == User /\ asked' = IF job = NoJob THEN NotAsked ELSE Disturbed

HNext ==
  /\ ~ panicked
  /\ \/ HStart
     \/ BeginFrame /\ UNCHANGED asked
     \/ HEnd
     \/ HUser

\* The editor asks for the next frame as long as a job runs (drive.rs:17), and
\* the loop of a frame goes on until its budget is spent or the job ends.  Both
\* are weak fairness of the action, with its enabling condition written out.
Waits == job # NoJob /\ budget = 0 /\ ~ panicked
Drives == budget > 0 /\ ~ panicked

HSpec ==
  /\ HInit /\ [][HNext]_hvars
  /\ []<>(~ Waits) \/ []<><<BeginFrame>>_hvars
  /\ []<>(~ Drives) \/ []<><<Drive>>_hvars

-----------------------------------------------------------------------------
(* The reference: matches by their definition, over the whole text.        *)

Nearest(s) == CHOOSE i \in s : \A j \in s : i <= j
Farthest(s) == CHOOSE i \in s : \A j \in s : j <= i

Occurs(text, p, i) ==
  i + Len(p) <= Len(text) /\ \A k \in 1 .. Len(p) : p[k] \in {Any, text[i + k]}

Occurrences(text, p, start, stop) ==
  {i \in start .. stop : i + Len(p) <= stop /\ Occurs(text, p, i)}

\* Left to right, each behind the one before.
Greedy(text, p, start, stop) ==
  LET f[i \in Nat] ==
        LET later == {j \in Occurrences(text, p, start, stop) : j >= i}
        IN  IF later = {} THEN <<>> ELSE <<Nearest(later)>> \o f[Nearest(later) + Len(p)]
  IN  f[start]

\* The text with r instead of the m letters at each position of ats.
Substituted(text, ats, m, r) ==
  LET f[i \in Nat] ==
        IF i >= Len(text) THEN <<>>
        ELSE IF i \in ats THEN r \o f[i + m] ELSE <<text[i + 1]>> \o f[i + 1]
  IN  f[0]

Elements(list) == {list[k] : k \in 1 .. Len(list)}
Apart(ats, m) == \A i, j \in ats : i < j => i + m <= j
SelfOverlaps(p) ==
  \E d \in 1 .. Len(p) - 1 :
    \A k \in 1 .. Len(p) - d : p[k] = p[k + d] \/ Any \in {p[k], p[k + d]}

Genuine(at) ==
  /\ Occurs(Text, job.pattern, at)
  /\ Unread \cap (at .. at + Len(job.pattern) - 1) = {}
  /\ job.searcher.start <= at /\ at + Len(job.pattern) <= job.searcher.stop

AskedOccurrences ==
  Occurrences(asked.text, job.pattern, asked.searcher.start, asked.searcher.stop)
AskedGreedy == Greedy(asked.text, job.pattern, asked.searcher.start, asked.searcher.stop)

\* The job ends by itself, undisturbed, with one of these outcomes.
EndsKnown(kinds) ==
  /\ job # NoJob /\ job' = NoJob
  /\ asked.is = "known" /\ outcome'.kind \in kinds

-----------------------------------------------------------------------------
\* The searcher keeps inside its range and the range inside what the job may
\* reach, whatever the user edits between two frames, so that none of the
\* unsigned differences of step (search.rs:114-115) and of the range end
\* (drive.rs:99) is negative.
InRange(s, m) ==
  /\ 0 <= s.start /\ s.start <= s.stop
  /\ s.start <= s.origin /\ s.origin <= Larger(s.stop - m + 1, s.start)
  /\ ~ s.finished /\ Lo(s) < Hi(s, m) => s.start <= Lo(s) /\ Hi(s, m) + m - 1 <= s.stop
SearcherStaysInRange ==
  job # NoJob => InRange(job.searcher, Len(job.pattern)) /\ job.searcher.stop <= job.rangeEnd

\* "Find all" lists the matches of the range, left to right without overlap, up
\* to the cap; where bytes cannot be read it misses at most what overlaps a
\* reported match or one that touches them (search.rs:78-147).
FindAllIsExact ==
  [][EndsKnown({"All", "Truncated"}) =>
       /\ asked.unread = {} =>
            /\ outcome'.results = SubSeq(AskedGreedy, 1, Smaller(MaxResults, Len(AskedGreedy)))
            /\ outcome'.kind = "Truncated" <=> Len(AskedGreedy) > MaxResults
       /\ outcome'.kind = "All" =>
            \A i \in AskedOccurrences :
              \E j \in AskedOccurrences :
                /\ j < i + Len(job.pattern) /\ i < j + Len(job.pattern)
                /\ \/ j \in Elements(outcome'.results)
                   \/ asked.unread \cap (j .. j + Len(job.pattern) - 1) # {}
    ]_hvars

\* The match a search should find: the nearest one in its direction, then, if
\* it wraps, the nearest from the other end; nothing if there is none.
Wanted(occurrences, from, backward, wrap) ==
  LET later == {i \in occurrences : i >= from}
      first == IF backward THEN occurrences \ later ELSE later
      rest == IF wrap THEN occurrences \ first ELSE {}
      pick(set) == IF backward THEN Farthest(set) ELSE Nearest(set)
  IN  CASE first # {} -> {pick(first)}
        [] first = {} /\ rest # {} -> {pick(rest)}
        [] OTHER -> {}

Expected ==
  LET s == asked.searcher
      at == Wanted(AskedOccurrences, s.origin, s.backward, s.wrap)
  IN  IF at = {} THEN Ended("NoMatch") ELSE [kind |-> "Match", at |-> Nearest(at)]

\* Next and Previous find the nearest match, around the end when they wrap, in
\* whatever windows and frames the text is scanned (drive.rs:39-50).  Backwards
\* only a pattern that cannot overlap itself is sure to: see BackwardIsNearest.
NextIsNearest ==
  [][EndsKnown({"Match", "NoMatch"}) /\ asked.unread = {}
       => \/ outcome' = Expected
          \/ asked.searcher.backward /\ SelfOverlaps(job.pattern)]_hvars

\* Backwards, the match found is the one closest to the cursor ("Backwards, the
\* one closest to the cursor is the window's last", blocking.rs:30).
BackwardIsNearest ==
  [][EndsKnown({"Match", "NoMatch"}) /\ asked.unread = {} /\ asked.searcher.backward
       => outcome' = Expected]_hvars

\* However the user has edited between two frames: what is selected or listed
\* is a match of the text as it is at that step, inside the range, of bytes that
\* can be read, and a step of replace-all changes the text only by substituting
\* such matches, which lie apart (search.rs:121-132, drive.rs:76-112).
MatchesAreGenuine ==
  [][/\ outcome'.kind = "Match" /\ job # NoJob => Genuine(outcome'.at)
     /\ job # NoJob /\ job.kind = "All" =>
          LET list == IF job' = NoJob /\ outcome'.kind \in {"All", "Truncated"} THEN outcome'.results
                      ELSE IF job' # NoJob /\ job'.kind = "All" THEN job'.results
                      ELSE <<>>
          IN  \A k \in Len(job.results) + 1 .. Len(list) : Genuine(list[k])
     /\ DriveReplaceAll /\ outcome'.kind # "Torn" =>
          \E ats \in SUBSET {i \in 0 .. Len(Text) - 1 : Genuine(i)} :
            /\ Apart(ats, Len(job.pattern))
            /\ TextOf(doc', letters') = Substituted(Text, ats, Len(job.pattern), job.replacement)]_hvars

\* Replace all substitutes every match of its range as it was when the job
\* began, each once, although every replacement of another length shifts the
\* text under the searcher, and counts them (drive.rs:76-112).
ReplaceAllIsExact ==
  [][EndsKnown({"Replaced"}) /\ asked.unread = {} =>
       /\ outcome'.count = Len(AskedGreedy)
       /\ TextOf(doc', letters') =
            Substituted(asked.text, Elements(AskedGreedy), Len(job.pattern), job.replacement)]_hvars

\* After any step of an undisturbed replace-all, the last one and that of a job
\* later cancelled included, one undo brings back the content from before it
\* ("a single undo", drive.rs:88, 110).
ReplaceAllUndoesAtOnce ==
  [][DriveReplaceAll /\ asked.is = "known" /\ outcome'.kind \notin {"Torn", "Error"} =>
       IF Len(doc'.undo) = asked.depth THEN Content(doc'.table) = asked.content
       ELSE /\ Len(doc'.undo) = asked.depth + 1
            /\ Content(Undo(doc').table) = asked.content]_hvars

\* The blocking calls give the same answers, on every document that edits can
\* make: the nearest match, the list, and one transaction that replaces exactly
\* the matches (blocking.rs:13-116).
BlockingCallsAgree ==
  job = NoJob /\ started = 0 /\ Unread = {} /\ doc.resizable =>
    \A p \in Patterns, range \in SearchRanges :
      LET greedy == Greedy(Text, p, range[1], range[2])
          there == Occurrences(Text, p, range[1], range[2])
      IN  /\ FindAll(Text, {}, p, range, MaxResults)
               = SubSeq(greedy, 1, Smaller(MaxResults, Len(greedy)))
          /\ \A from \in Offsets, backward, wrap \in BOOLEAN :
               \/ backward /\ SelfOverlaps(p)
               \/ FindNext(Text, {}, p, range, from, backward, wrap)
                    = Wanted(there, from, backward, wrap)
          /\ \A r \in Replacements :
               \E after \in {ReplaceAll(doc, letters, p, r, range)} :
                 /\ after.count = Len(greedy)
                 /\ TextOf(after.doc, after.letters)
                      = Substituted(Text, Elements(greedy), Len(p), r)
                 /\ greedy # <<>> => Content(Undo(after.doc).table) = Content(doc.table)

\* Every job ends, whatever the user does between its frames: no wrap and no
\* restart behind a replacement can keep it going for ever.  A failed assertion
\* of an undo ends the process instead.
JobEnds == (job # NoJob) ~> (job = NoJob \/ panicked)
=============================================================================
