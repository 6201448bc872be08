------------------------------ MODULE Workbench ------------------------------
(***************************************************************************)
(* The panels of the editor that run jobs over a tab's document: analysis   *)
(* (gui/src/analyze.rs), tools (gui/src/tools.rs) and the comparison of two *)
(* tabs (gui/src/app/compare.rs), with the plumbing of gui/src/jobs.rs.     *)
(*                                                                         *)
(* Once per frame a panel takes its job and spends FRAME_BUDGET on it, one  *)
(* step at a time; between frames the user edits and closes tabs, cancels,  *)
(* and starts other jobs.  Each panel has at most one job, which names its  *)
(* tab by index.  Tabs are counted from 1.                                  *)
(*                                                                         *)
(* The files of a job are on a disk that may fail.  What a buffered writer  *)
(* still holds counts as written.                                           *)
(***************************************************************************)
EXTENDS Analysis, Differences, Outputs

CONSTANTS
  FRAME_BUDGET,   \* what the steps of a frame scan
  MAX_RESULTS,    \* cap of the lists of strings and of signatures
  TabSets,        \* bound: the tabs open at the start, sequences of documents
  FileSets,       \* bound: what the paths hold at the start
  PartNames,      \* the names that part_name gives, in order
  Selections,     \* bound: the selections <<from, to>>
  AnalysisJobs,   \* bound: what is asked of the analysis panel
  ToolJobs,       \* bound: what is asked of the tools panel
  SecondJobs,     \* bound: those asked while another job runs
  Froms,          \* bound: where the next difference is searched from
  DiskMayFail,    \* bound: do writes fail
  MaxMoves        \* bound: jobs started, edits and closings

\* What is asked in the windows of the panels: numbers of at least one, and
\* paths of the disk.  part_name has a name of its own for every part a split
\* may have.
ASSUME WorkbenchAssumption ==
  /\ {EXPORT_WINDOW, RECORD_WINDOW, MAX_REC_LEN, FRAME_BUDGET} \subseteq Nat \ {0}
  /\ MAX_RESULTS \in Nat
  /\ MAX_PARTS \in Nat /\ MAX_PARTS <= Len(PartNames)
  /\ \A i, k \in 1 .. MAX_PARTS : PartNames[i] = PartNames[k] => i = k
  /\ \A disk \in FileSets : {"out"} \cup {PartNames[k] : k \in 1 .. MAX_PARTS} \subseteq DOMAIN disk
  /\ TabSets \subseteq Seq(Seq(Nat)) /\ Selections \subseteq Nat \X Nat /\ Froms \subseteq Nat
  /\ \A disk \in FileSets : \A f \in DOMAIN disk : disk[f].data \in Seq(Nat)
  /\ \A ask \in AnalysisJobs : ask.kind \in {"Digest", "Strings", "Stats", "Magic"}
  /\ \A ask \in ToolJobs :
       /\ ask.kind = "Export" => ask.cols \in Nat
       /\ ask.kind = "Record" => ask.recLen \in Nat
       /\ ask.kind = "Split" => ask.partSize \in Nat
       /\ ask.kind = "Concat" => \A disk \in FileSets : ask.inputs \in Seq(DOMAIN disk)

VARIABLES tabs, files, runner, compare,
          turn,       \* the panel whose frame it is, what is left of its budget
          abandoned,  \* the outputs of jobs that another one replaced
          moves

workvars == <<tabs, files, runner, compare, turn, abandoned, moves>>

Panels == {"Analyze", "Tools"}
NoJob == [kind |-> "None"]
NoGoal == [kind |-> "None"]
Nothing == [kind |-> "Nothing"]
NoFile == [there |-> FALSE, data |-> <<>>]
File(data) == [there |-> TRUE, data |-> data]
BetweenFrames == turn.panel = "None"
\* A job panicked.
Panicked == turn.panel = "Panicked"
Idle == [panel |-> "None", left |-> 0]

IdleRunner ==
  [job |-> NoJob, tab |-> 0, cancelled |-> FALSE, status |-> "", found |-> <<>>, shown |-> Nothing,
   goal |-> NoGoal, touched |-> FALSE]
NoComparison == [pair |-> <<>>, job |-> NoJob, from |-> 0, shown |-> Nothing, touched |-> FALSE]

Busy(p) == runner[p].job # NoJob
Working == \/ \E p \in Panels : Busy(p)
           \/ compare.job # NoJob

\* The selection, when there is one and it was asked for, else the document.
TabRange(doc, sel) == IF sel = <<>> THEN <<0, Len(doc)>> ELSE sel
SelectionsOf(doc) == {<<>>} \cup {s \in Selections : s[2] <= Len(doc)}

-----------------------------------------------------------------------------
(* Starting a job.  goal is kept to state the properties: what was asked of  *)
(* which bytes, and what the disk held.                                      *)

GoalOf(ask, doc, r, disk) ==
  [kind |-> ask.kind, ask |-> ask, from |-> r[1], data |-> Slice(doc, r[1], r[2] - r[1]), files |-> disk]

\* Fresh progress; a job that was there is dropped where it stands.
Started(p, job, tab, goal) ==
  runner' = [runner EXCEPT ![p] =
               [IdleRunner EXCEPT !.job = job, !.tab = tab, !.status = "processing", !.goal = goal]]

\* The bound on the jobs: one alone, then others while it runs.
Counted(ask) ==
  /\ moves < MaxMoves /\ moves' = moves + 1
  /\ IF Working THEN ask \in SecondJobs ELSE moves = 0

\* The buttons of the analysis windows are off while a job runs.  Strings,
\* statistics and signatures take the whole document.
AnalysisOf(ask, doc, r) ==
  CASE ask.kind = "Digest" -> NewDigest(ask.algos, r[1], r[2], Len(doc))
    [] ask.kind = "Strings" -> NewStrings(ask.encodings, ask.minChars, 0, Len(doc), Len(doc))
    [] ask.kind = "Stats" -> NewStats(0, Len(doc), Len(doc), ask.blockSize)
    [] ask.kind = "Magic" -> NewMagic(0, Len(doc), Len(doc))

Analyze(tab, ask, sel) ==
  LET doc == tabs[tab]
      r == IF ask.kind = "Digest" THEN TabRange(doc, sel) ELSE <<0, Len(doc)>>
  IN  /\ BetweenFrames /\ ~Busy("Analyze") /\ Counted(ask)
      /\ ask.kind # "Digest" => sel = <<>>
      /\ Started("Analyze", AnalysisOf(ask, doc, r), tab, GoalOf(ask, doc, r, files))
      /\ UNCHANGED <<tabs, files, compare, turn, abandoned>>

\* A plausible slip: the parts of a split that is interrupted stay.
OutputsOfTexts(j) == IF j.kind \in {"Export", "Record"} THEN {"out"} ELSE {}

\* What a job has on the disk under its own names.
OutputsOf(j) ==
  CASE j.kind \in {"Export", "Record"} -> {"out"}
    [] j.kind = "Split" -> {PartNames[k] : k \in 1 .. j.written}
    [] OTHER -> {}

\* Only the report waits for the job that runs: Enter in the fields of the
\* record and split windows, and the menu entry that joins files, replace it.
Replaces == abandoned' = abandoned \cup OutputsOf(runner["Tools"].job)

StartExport(tab, ask, sel) ==
  LET doc == tabs[tab]
      r == TabRange(doc, sel)
      job == NewExport(ask.fmt, ask.cols, ask.offset, r[1], r[2], Len(doc))
  IN  /\ ask.kind = "Export" /\ ~Busy("Tools")
      /\ Started("Tools", job, tab, GoalOf(ask, doc, r, files))
      /\ files' = [files EXCEPT !["out"] = File(<<>>)]

\* The addresses are checked before the file is created.
StartRecord(tab, ask, sel) ==
  LET doc == tabs[tab]
      r == TabRange(doc, sel)
      job == NewRecords(ask.fmt, r[1], r[2], ask.base, ask.recLen, Len(doc))
  IN  /\ ask.kind = "Record" /\ AddressesFit(ask.base, r[2] - r[1])
      /\ Started("Tools", job, tab, GoalOf(ask, doc, r, files))
      /\ files' = [files EXCEPT !["out"] = File(<<>>)]

StartSplit(tab, ask, sel) ==
  LET doc == tabs[tab]
  IN  /\ ask.kind = "Split" /\ sel = <<>> /\ SplitAllowed(Len(doc), ask.partSize)
      /\ Started("Tools", NewSplit(Len(doc), ask.partSize), tab, GoalOf(ask, doc, <<0, Len(doc)>>, files))
      /\ UNCHANGED files

StartConcat(tab, ask, sel) ==
  /\ ask.kind = "Concat" /\ tab = 1 /\ sel = <<>>
  /\ JoinAllowed(ask.inputs, "out")
  /\ \A i \in DOMAIN ask.inputs : files[ask.inputs[i]].there
  /\ Started("Tools", NewJoin(ask.inputs), 0, GoalOf(ask, <<>>, <<0, 0>>, files))
  /\ UNCHANGED files

UseTool(tab, ask, sel) ==
  /\ BetweenFrames /\ Counted(ask) /\ Replaces
  /\ \/ StartExport(tab, ask, sel) \/ StartRecord(tab, ask, sel)
     \/ StartSplit(tab, ask, sel) \/ StartConcat(tab, ask, sel)
  /\ UNCHANGED <<tabs, compare, turn>>

-----------------------------------------------------------------------------
(* A frame.                                                                 *)

\* Undoes what an interrupted job left: the file, or the parts it named.  A
\* joined file has no name before it is complete.
CleanedUp(disk, j) == [p \in DOMAIN disk |-> IF p \in OutputsOf(j) THEN NoFile ELSE disk[p]]

Ended(p, status) == runner' = [runner EXCEPT ![p].job = NoJob, ![p].status = status]

TakeJob(p) ==
  /\ BetweenFrames /\ Busy(p) /\ ~runner[p].cancelled
  /\ runner[p].tab \in 0 .. Len(tabs)
  /\ turn' = [panel |-> p, left |-> FRAME_BUDGET]
  /\ UNCHANGED <<tabs, files, runner, compare, abandoned, moves>>

DropCancelled(p) ==
  /\ BetweenFrames /\ Busy(p) /\ runner[p].cancelled
  /\ files' = IF p = "Tools" THEN CleanedUp(files, runner[p].job) ELSE files
  /\ Ended(p, "cancelled")
  /\ UNCHANGED <<tabs, compare, turn, abandoned, moves>>

\* No tab has the job's index any more.  The analysis panel forgets its job
\* and still shows it as processing.
DropOrphan(p) ==
  /\ BetweenFrames /\ Busy(p) /\ ~runner[p].cancelled
  /\ runner[p].tab > Len(tabs)
  /\ files' = IF p = "Tools" THEN CleanedUp(files, runner[p].job) ELSE files
  /\ Ended(p, IF p = "Tools" THEN "tab closed" ELSE runner[p].status)
  /\ UNCHANGED <<tabs, compare, turn, abandoned, moves>>

\* How a step of the job may go; fault says whether the disk fails, and at
\* which piece of a split.
StepOf(p, fault) ==
  LET j == runner[p].job
      doc == tabs[runner[p].tab]
      budget == turn.left
      written(st) == IF fault > 0 THEN Failed(j) ELSE st
  IN  CASE j.kind = "Digest" -> DigestStep(j, doc, budget)
        [] j.kind = "Strings" -> StringsStep(j, doc, budget)
        [] j.kind = "Stats" -> StatsStep(j, doc, budget)
        [] j.kind = "Magic" -> MagicStep(j, doc, budget)
        [] j.kind = "Export" -> written(ExportStep(j, doc, budget))
        [] j.kind = "Record" -> written(RecordsStep(j, doc, budget))
        [] j.kind = "Split" -> SplitStep(j, doc, budget, fault)
        [] j.kind = "Concat" -> JoinStep(j, [f \in DOMAIN files |-> files[f].data], budget, fault > 0)

\* Every step spends something, so that a frame ends.
Spent(scanned) ==
  LET left == turn.left - Most(scanned, 1)
  IN  IF left > 0 THEN [turn EXCEPT !.left = left] ELSE Idle

Faults(p) == IF DiskMayFail /\ p = "Tools" THEN 0 .. 2 ELSE {0}

\* What a step has written when it is over.
Written(p, st) ==
  LET j == runner[p].job
      NamedBy(f) == {k \in DOMAIN st.out : PartNames[j.written + k] = f}
  IN  CASE j.kind \in {"Export", "Record"} -> [files EXCEPT !["out"].data = @ \o st.out]
        [] j.kind = "Split" ->
             [f \in DOMAIN files |->
                IF NamedBy(f) = {} THEN files[f] ELSE File(st.out[CHOOSE k \in NamedBy(f) : TRUE])]
        [] OTHER -> files

\* The lists of the analysis panel grow with the steps, and a list that is too
\* long ends its job.
Listed(p, st) == IF runner[p].job.kind \in {"Strings", "Magic"} THEN runner[p].found \o st.out ELSE <<>>
Finished(p, st) == st.finished \/ Len(Listed(p, st)) > MAX_RESULTS

JobGoesOn(p, st) ==
  /\ st.kind = "Went" /\ ~Finished(p, st)
  /\ runner' = [runner EXCEPT ![p].job = st.job, ![p].found = Listed(p, st)]
  /\ files' = Written(p, st)
  /\ turn' = Spent(st.scanned)

\* A step that fails: an unreadable block, or the disk.
JobFails(p, st) ==
  /\ st.kind = "Failed"
  /\ files' = IF p = "Tools" THEN CleanedUp(files, st.job) ELSE files
  /\ Ended(p, "failed")
  /\ turn' = Idle

JobPanics(p, st) ==
  /\ st.kind = "Panics"
  /\ turn' = [panel |-> "Panicked", left |-> 0]
  /\ UNCHANGED <<files, runner>>

\* What the panel shows of a finished job; the list of strings is sorted, and
\* both lists are cut.
Cut(list) == SubSeq(list, 1, Least(Len(list), MAX_RESULTS))
ResultOf(p, st) ==
  LET j == runner[p].job
  IN  CASE j.kind = "Digest" -> DigestResult(st.job)
        [] j.kind = "Strings" -> Cut(ByOffset(Listed(p, st)))
        [] j.kind = "Stats" -> StatsResult(st.job)
        [] j.kind = "Magic" -> Cut(Listed(p, st))
        [] OTHER -> <<>>

Reported(p, st) ==
  runner' = [runner EXCEPT ![p].job = NoJob, ![p].status = "finished",
               ![p].found = Listed(p, st),
               ![p].shown = [kind |-> "Result", value |-> ResultOf(p, st),
                             truncated |-> Len(Listed(p, st)) > MAX_RESULTS]]

JobEnds(p, st) ==
  /\ st.kind = "Went" /\ Finished(p, st)
  /\ Reported(p, st)
  /\ files' = IF runner[p].job.kind = "Concat"
              THEN [Written(p, st) EXCEPT !["out"] = File(st.job.written)]
              ELSE Written(p, st)
  /\ turn' = Idle

\* The last flush of a text fails and the file is removed; or a joined file
\* does not get its name.
SealingFails(p, st) ==
  /\ st.kind = "Went" /\ st.finished /\ DiskMayFail
  /\ runner[p].job.kind \in {"Export", "Record", "Concat"}
  /\ files' = CleanedUp(files, runner[p].job)
  /\ Ended(p, "failed")
  /\ turn' = Idle

Step(p) ==
  /\ turn.panel = p
  /\ \E fault \in Faults(p) : \E st \in {StepOf(p, fault)} :
       JobGoesOn(p, st) \/ JobFails(p, st) \/ JobPanics(p, st) \/ JobEnds(p, st) \/ SealingFails(p, st)
  /\ UNCHANGED <<tabs, compare, abandoned, moves>>

-----------------------------------------------------------------------------
(* The comparison of two tabs.                                              *)

\* Another comparison drops the search of the one before.  Bound: none is begun
\* while a step of a frame is going on or a job runs.
Compare(i, k) ==
  /\ BetweenFrames /\ i # k /\ compare.pair # <<i, k>>
  /\ ~Working
  /\ compare' = [NoComparison EXCEPT !.pair = <<i, k>>]
  /\ UNCHANGED <<tabs, files, runner, turn, abandoned, moves>>

StopComparison ==
  /\ BetweenFrames /\ compare.pair # <<>>
  /\ compare' = NoComparison
  /\ UNCHANGED <<tabs, files, runner, turn, abandoned, moves>>

\* The comparison ends when one of its indices names no tab.
CompareInvalid == \E n \in 1 .. 2 : compare.pair[n] > Len(tabs)

DropComparison ==
  /\ BetweenFrames /\ compare.pair # <<>> /\ CompareInvalid
  /\ compare' = NoComparison
  /\ UNCHANGED <<tabs, files, runner, turn, abandoned, moves>>

\* The lengths are taken now, and kept while the search goes on.
NextDiff(from) ==
  /\ BetweenFrames /\ compare.pair # <<>> /\ ~CompareInvalid /\ compare.job = NoJob
  /\ ~Working /\ Counted(NoJob)
  /\ compare' = [compare EXCEPT !.from = from, !.shown = Nothing, !.touched = FALSE,
                   !.job = NewDiff(from, Len(tabs[compare.pair[1]]), Len(tabs[compare.pair[2]]))]
  /\ UNCHANGED <<tabs, files, runner, turn, abandoned>>

TakeDiff ==
  /\ BetweenFrames /\ compare.job # NoJob /\ ~CompareInvalid
  /\ turn' = [panel |-> "Compare", left |-> FRAME_BUDGET]
  /\ UNCHANGED <<tabs, files, runner, compare, abandoned, moves>>

DiffGoesOn ==
  /\ turn.panel = "Compare"
  /\ \E st \in {DiffStep(compare.job, tabs[compare.pair[1]], tabs[compare.pair[2]], turn.left)} :
         IF st.found # NoDifference \/ st.finished
         THEN /\ compare' = [compare EXCEPT !.job = NoJob,
                               !.shown = [kind |-> "Difference", at |-> st.found, end |-> compare.job.commonEnd]]
              /\ turn' = Idle
         ELSE /\ compare' = [compare EXCEPT !.job = st.job]
              /\ turn' = Spent(st.scanned)
  /\ UNCHANGED <<tabs, files, runner, abandoned, moves>>

-----------------------------------------------------------------------------
(* The user.                                                                *)

Cancel(p) ==
  /\ BetweenFrames /\ Busy(p) /\ ~runner[p].cancelled
  /\ runner' = [runner EXCEPT ![p].cancelled = TRUE]
  /\ UNCHANGED <<tabs, files, compare, turn, abandoned, moves>>

\* Everything that runs may have seen both the old tabs and the new ones.
Changes(after) ==
  /\ BetweenFrames /\ Working
  /\ moves < MaxMoves /\ moves' = moves + 1
  /\ tabs' = after
  /\ runner' = [p \in Panels |-> [runner[p] EXCEPT !.touched = TRUE]]
  /\ compare' = [compare EXCEPT !.touched = TRUE]
  /\ UNCHANGED <<files, turn, abandoned>>

EditTab(i) ==
  \E doc \in {<<65>> \o tabs[i], SubSeq(tabs[i], 1, Len(tabs[i]) - 1)} :
    doc # tabs[i] /\ Changes([tabs EXCEPT ![i] = doc])

CloseTab(i) == Len(tabs) > 1 /\ Changes(RemoveAt(tabs, i))

-----------------------------------------------------------------------------
WInit ==
  /\ tabs \in TabSets /\ files \in FileSets
  /\ runner = [p \in Panels |-> IdleRunner] /\ compare = NoComparison
  /\ turn = Idle /\ abandoned = {} /\ moves = 0

Drive(p) == TakeJob(p) \/ DropCancelled(p) \/ DropOrphan(p) \/ Step(p)
DriveCompare == DropComparison \/ TakeDiff \/ DiffGoesOn

WNext ==
  \/ \E ask \in AnalysisJobs : \E tab \in DOMAIN tabs : \E sel \in SelectionsOf(tabs[tab]) : Analyze(tab, ask, sel)
  \/ \E ask \in ToolJobs : \E tab \in DOMAIN tabs : \E sel \in SelectionsOf(tabs[tab]) : UseTool(tab, ask, sel)
  \/ \E i, k \in DOMAIN tabs : Compare(i, k)
  \/ \E from \in Froms : NextDiff(from)
  \/ StopComparison \/ DriveCompare
  \/ \E p \in Panels : Drive(p) \/ Cancel(p)
  \/ \E i \in DOMAIN tabs : EditTab(i)
  \/ \E i \in DOMAIN tabs : CloseTab(i)

\* The window is repainted while a panel works, and each frame drives every
\* panel.
WFairness == /\ \A p \in Panels : WF_workvars(Drive(p))
             /\ WF_workvars(DriveCompare)

WSpec == WInit /\ [][WNext]_workvars /\ WFairness

-----------------------------------------------------------------------------
(* What the jobs of the panels promise. *)
Untouched(p) == ~runner[p].touched /\ runner[p].shown.kind = "Result"

\* The strings of the range, sorted; a list that was cut shows some of them.
StringsAreThose(shown, goal) ==
  LET all == UNION {StringsOf(goal.ask.encodings[i], Shown(goal.data), goal.ask.minChars) :
                      i \in DOMAIN goal.ask.encodings}
  IN  /\ IsSorted(shown.value, LAMBDA s, t : s.offset <= t.offset)
      /\ IsInjective(shown.value)
      /\ IF shown.truncated THEN ToSet(shown.value) \subseteq all /\ Len(shown.value) = MAX_RESULTS
         ELSE ToSet(shown.value) = all

SignaturesAreThose(shown, goal) ==
  IF shown.truncated THEN shown.value = Cut(SignaturesOf(goal.data)) ELSE shown.value = SignaturesOf(goal.data)

AnalysisIsWhole ==
  LET goal == runner["Analyze"].goal
      shown == runner["Analyze"].shown
  IN  Untouched("Analyze") =>
        CASE goal.kind = "Digest" ->
               shown.value = [i \in DOMAIN goal.ask.algos |->
                                [algo |-> goal.ask.algos[i], state |-> DigestOf(goal.ask.algos[i], goal.data)]]
          [] goal.kind = "Strings" -> StringsAreThose(shown, goal)
          [] goal.kind = "Stats" -> shown.value = StatsOf(goal.data, goal.ask.blockSize)
          [] goal.kind = "Magic" -> SignaturesAreThose(shown, goal)

ExportIsWhole ==
  LET goal == runner["Tools"].goal
  IN  Untouched("Tools") /\ goal.kind = "Export" =>
        files["out"] = File(ExportOf(goal.ask.fmt, goal.ask.cols, goal.from + goal.ask.offset, goal.data))

\* A job that ends gives the result of its whole range, however the frame
\* budget, the window and the lines of the format cut the range into steps, and
\* over bytes that were all readable where zeros would lie; only a document
\* that was changed or closed meanwhile may give another
\* (core/src/job.rs:3-7, hash.rs:257, strings.rs:262, stats.rs:131, magic.rs:172).
ResultsAreWhole == AnalysisIsWhole /\ ExportIsWhole

\* The parts of a split that ended are the document in order, each with its own
\* bytes and all of them full but the last; a joined file is its inputs one after
\* the other, as they were when it was asked for.  However the budget cuts parts
\* and inputs into steps, and whatever other jobs left under the same names
\* (core/src/transform.rs).
NothingLostInParts ==
  LET goal == runner["Tools"].goal
      parts == SplitOf(goal.data, goal.ask.partSize)
  IN  Untouched("Tools") =>
        /\ goal.kind = "Split" => \A k \in DOMAIN parts : files[PartNames[k]] = File(parts[k])
        /\ goal.kind = "Concat" =>
             files["out"] = File(JoinOf(goal.ask.inputs, [f \in DOMAIN goal.files |-> goal.files[f].data]))

\* Only an analysis whose document was changed, or whose tab another document
\* has taken, indexes outside the bytes it read (stats.rs:131, magic.rs:172).
OnlyChangesPanic == Panicked => runner["Analyze"].touched

-----------------------------------------------------------------------------
\* The outputs an unfinished job may have had.
OwnOutputs(goal) ==
  CASE goal.kind \in {"Export", "Record"} -> {"out"}
    [] goal.kind = "Split" -> ToSet(PartNames)
    [] OTHER -> {}

\* A job that is cancelled, that fails, or whose tab is gone leaves no output
\* behind, neither a part of a text nor some of the parts of a split, and no
\* other file changed (gui/src/tools/drive.rs:60-71, transform.rs:116).
NothingHalfWritten ==
  LET goal == runner["Tools"].goal
  IN  runner["Tools"].status \in {"cancelled", "tab closed", "failed"} /\ ~Busy("Tools") =>
        \A f \in DOMAIN files \ abandoned :
          \/ files[f] = goal.files[f]
          \/ f \in OwnOutputs(goal) /\ files[f] = NoFile

\* Every job that starts ends, whatever is edited, closed or cancelled while it
\* runs: each step of a frame scans a byte or finishes (gui/src/jobs.rs:28-41).
JobsEnd ==
  /\ \A p \in Panels : Busy(p) ~> (~Busy(p) \/ Panicked)
  /\ compare.job # NoJob ~> (compare.job = NoJob \/ Panicked)

-----------------------------------------------------------------------------
\* The image a record file must import as.
ImageOf(goal) ==
  Image(IF goal.data = <<>> THEN <<>> ELSE <<[addr |-> goal.ask.base, data |-> goal.data]>>,
        IF goal.ask.fmt = "Srec" THEN goal.ask.base ELSE NoEntry)

IsData(fmt, r) == IF fmt = "Srec" THEN r.type \in 1 .. 3 ELSE r.bytes[4] = 0

\* One byte of one record changed, and one data record lost.
WithAByteChanged(file) ==
  {[file EXCEPT ![y[1]].bytes[y[2]] = (@ + 1) % 256] : y \in
     {x \in (DOMAIN file) \X (1 .. Max({Len(file[n].bytes) : n \in DOMAIN file})) : x[2] \in DOMAIN file[x[1]].bytes}}
WithoutARecord(fmt, file) == {RemoveAt(file, i) : i \in {n \in DOMAIN file : IsData(fmt, file[n])}}

\* Readers that add modulo the bank read an Intel HEX record the same way.
StaysInItsBank(r) == ValueOf(SubSeq(r.bytes, 2, 3)) + r.bytes[1] <= Bank

\* A record file imports as the bytes that were exported, at their addresses,
\* wherever banks and windows cut the records, and no record leaves its bank;
\* one with a changed byte is refused, and so is an S-record file that lacks a
\* record
\* (core/src/hexfile/export.rs:145, import.rs:22 and 95).
RecordsReadBack ==
  LET goal == runner["Tools"].goal
      file == files["out"].data
  IN  goal.kind = "Record" /\ Untouched("Tools") =>
        /\ ParseFile(file) = ImageOf(goal)
        /\ Flattened(ParseFile(file), 0) = goal.data
        /\ goal.ask.fmt = "IntelHex" => \A i \in DOMAIN file : StaysInItsBank(file[i])
        /\ \A damaged \in WithAByteChanged(file) : ParseRecords(goal.ask.fmt, damaged) = Refused
        /\ goal.ask.fmt = "Srec" =>
             \A damaged \in WithoutARecord("Srec", file) : ParseFile(damaged) = Refused

-----------------------------------------------------------------------------
Reporting == compare'.shown # compare.shown /\ compare'.shown.kind = "Difference"

DifferenceHolds ==
  LET a == tabs[compare.pair[1]]
      b == tabs[compare.pair[2]]
      shown == compare'.shown
  IN  /\ compare.touched \/ shown.at = NextDifference(a, b, compare.from)
      /\ shown.at \in 0 .. shown.end - 1 => DifferAt(a, b, shown.at)
      /\ ToSet(DiffRanges(a, b, Len(a) + Len(b)).ranges) = RangesThatDiffer(a, b)

\* The difference the comparison goes to is the next one from the cursor, in
\* whichever window it lies; when a document was edited while the search went
\* on, it is still a place where the two differ then, the end of the shorter
\* one apart (gui/src/app/compare.rs:66-92, core/src/compare.rs:44).
DifferencesAreReal == [][Reporting => DifferenceHolds]_workvars
=============================================================================
