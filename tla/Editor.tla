------------------------------- MODULE Editor -------------------------------
(***************************************************************************)
(* The editor's window: gui/src/app.rs with app/frame.rs, app/menus.rs,    *)
(* app/dialogs.rs, app/files.rs, the preferences of config.rs and the      *)
(* per-frame drive of search.rs.                                           *)
(*                                                                         *)
(* A frame has three phases here: the input of menus, tab bar, panels and  *)
(* grid (at most one event), the drive of the search, and the dialogs.     *)
(* What the code keeps as indices into its list of tabs is an index here   *)
(* too; the identity of a tab (id) is history, no code reads it.           *)
(***************************************************************************)
EXTENDS HexView

CONSTANTS
  Paths,        \* files
  NoPath,
  RecentCap,    \* RECENT_CAP
  Lengths,      \* bound: lengths of the files
  Budgets       \* bound: how many inputs of each class a behaviour has

ASSUME EditorAssumption ==
  /\ NoPath \notin Paths /\ Lengths \subseteq Nat
  /\ \A budget \in Budgets : budget \in [DOMAIN budget -> Nat] /\ "kills" \in DOMAIN budget

VARIABLES
  tabs,       \* self.tabs
  active,     \* self.active, counted from 1
  pending,    \* self.pending_close
  closing,    \* self.allow_quit, and the Close command was sent
  life,       \* "restoring", "restored", "running", "panicked" or "closed"
  phase,      \* "input", "drive" or "dialogs"
  search,     \* the search job
  hits,       \* the results list
  prefs,      \* the preferences, as stored: session and recent files
  restoring,  \* paths of the session still to be reopened
  left,       \* the inputs left of each class
  known       \* history: the next id, the paths open at the last clean end, whether a
              \* kill cut their reopening, which of them that start could not open, and
              \* the last answer to the dialog of unsaved changes; and of the disk, the
              \* files this start cannot open
vars == <<tabs, active, pending, closing, life, phase, search, hits, prefs, restoring, left, known>>

NoSearch == [kind |-> "none"]
\* What the dialog holds is an index (of is history: the tab it was opened for).
NoPending == [kind |-> "none", tab |-> 0, of |-> 0]
QuitPending == [kind |-> "quit", tab |-> 0, of |-> 0]
TabPending(i) == [kind |-> "tab", tab |-> i, of |-> tabs[i].id]
NotQuit == "unknown"

\* A frame without a dialog to draw is over.
Then(p) == IF p = NoPending THEN "input" ELSE "dialogs"

TabOf(t, path, id) ==
  [view |-> t, path |-> path, id |-> id, changed |-> FALSE]

\* The list without some of its paths.
OtherPaths(list, paths) ==
  LET f[k \in 0 .. Len(list)] ==
        IF k = 0 THEN <<>> ELSE IF list[k] \in paths THEN f[k - 1] ELSE Append(f[k - 1], list[k])
  IN  f[Len(list)]

PathsOf(list) == OtherPaths([k \in 1 .. Len(list) |-> list[k].path], {NoPath})

Spend(class) == left[class] > 0 /\ left' = [left EXCEPT ![class] = @ - 1]

-----------------------------------------------------------------------------
(* Preferences.                                                             *)

FirstOf(list, n) == SubSeq(list, 1, Lesser(Len(list), n))
AddRecent(recent, path) == FirstOf(<<path>> \o OtherPaths(recent, {path}), RecentCap)

SavePrefs(p, list) == [p EXCEPT !.session = PathsOf(list)]

-----------------------------------------------------------------------------
(* The user at the grid and its panels: changes of the active tab alone.    *)

HasTab == active <= Len(tabs)
View == tabs[active].view

\* What the comment of end_typing calls a boundary ends a run: from here on
\* typing is another one.
Boundary(t) ==
  IF \E k \in 1 .. Len(t.undo) : <<"typing", t.run>> \in t.undo[k].by
    THEN [t EXCEPT !.run = @ + 1] ELSE t

Shows(t) == /\ tabs' = [tabs EXCEPT ![active].view = t]
            /\ UNCHANGED <<active, pending, search, hits, prefs>>

Moves ==
  /\ HasTab /\ Spend("moves")
  /\ \/ \E to \in KeyTargets(View), extend \in BOOLEAN :
          to # View.cursor /\ Shows(Boundary(MoveCursor(View, to, extend)))
     \/ \E to \in 0 .. View.len, extend \in BOOLEAN, pane \in {"hex", "text"} :
          Shows(Boundary([MoveCursor(View, to, extend) EXCEPT !.pane = pane]))
     \/ \E to \in 0 .. View.len : Shows(Boundary(Goto(View, to)))
     \/ \E from \in 0 .. View.len, to \in 1 .. MaxLength :
          from < to /\ Shows(Boundary(SelectRange(View, from, to)))
     \/ Shows(Boundary(SelectAll(View)))
     \/ Shows(SwitchPane(View))
     \/ Shows([View EXCEPT !.anchor = None])
     \/ Shows([View EXCEPT !.insertMode = ~ @])
     \/ Shows([View EXCEPT !.readOnly = ~ @])

Grows(n) == View.len + n <= MaxLength

Types ==
  /\ HasTab /\ Spend("edits")
  /\ \/ /\ View.pane = "hex" /\ Grows(1)
        /\ IF TypingPanics(View)
             THEN UNCHANGED <<tabs, active, pending, search, hits, prefs>>
             ELSE Shows(TypeHexDigit(View))
     \/ \E n \in 1 .. MaxTyped :
          View.pane = "text" /\ Grows(n) /\ Shows(TypeText(View, n))

Panics == phase = "input" /\ HasTab /\ View.pane = "hex" /\ TypingPanics(View)

Edits ==
  /\ HasTab /\ Spend("edits")
  /\ \/ Shows(Backspace(View))
     \/ Shows(DeleteKey(View))
     \/ Shows(Cut(View))
     \/ \E n \in 1 .. MaxTyped, inserting \in BOOLEAN :
          Grows(n) /\ Shows(Paste(View, n, inserting))
     \/ Grows(1) /\ Shows(InspectorWrites(View, 1))
     \/ Shows(FillSelection(View))
     \/ Shows(FixChecksum(View))
     \/ Shows(Boundary(MenuUndo(View)))
     \/ Shows(Boundary(MenuRedo(View)))

-----------------------------------------------------------------------------
(* Opening, saving and closing.                                             *)

Opened(list, t, path) == Append(list, TabOf(t, path, known.nextId))

OpenPath(path) ==
  \E n \in Lengths :
    /\ tabs' = Opened(tabs, NewTab(n), path)
    /\ active' = Len(tabs) + 1
    /\ prefs' = SavePrefs([prefs EXCEPT !.recent = AddRecent(@, path)], tabs')
    /\ known' = [known EXCEPT !.nextId = @ + 1]

\* A new tab, a disk (read-only) or an imported record file: none has a path.
OpenUnnamed ==
  /\ \E n \in Lengths, readOnly \in BOOLEAN :
       tabs' = Opened(tabs, [NewTab(n) EXCEPT !.readOnly = readOnly], NoPath)
  /\ active' = Len(tabs) + 1
  /\ known' = [known EXCEPT !.nextId = @ + 1]
  /\ UNCHANGED prefs

Opens ==
  /\ Spend("opens")
  /\ OpenUnnamed \/ \E path \in Paths : OpenPath(path)
  /\ UNCHANGED <<pending, search, hits>>

SavedAs(tab, path) ==
  [tab EXCEPT !.view = EndTyping([tab.view EXCEPT !.savedDepth = Len(tab.view.undo)]),
              !.path = path, !.changed = FALSE]

\* What save_active may make of a tab: the dialog cancelled (nothing), the
\* backup or the write failed (the run ends), or saved.
Refused(tab) == [tab EXCEPT !.view = EndTyping(@)]
SaveTargets(tab, saveAs) == IF tab.path # NoPath /\ ~ saveAs THEN {tab.path} ELSE Paths
Bounded(tab) == [tab EXCEPT !.view = Boundary(@)]
SaveOutcomes(tab, saveAs) ==
  (IF tab.path # NoPath /\ ~ saveAs THEN {} ELSE {[tab |-> tab, saved |-> FALSE]})
    \cup {[tab |-> Bounded(Refused(tab)), saved |-> FALSE]}
    \cup {[tab |-> Bounded(SavedAs(tab, p)), saved |-> TRUE] : p \in SaveTargets(tab, saveAs)}

AfterSave(p, list, path) == SavePrefs([p EXCEPT !.recent = AddRecent(@, path)], list)

Saves ==
  /\ HasTab /\ Spend("saves")
  /\ \E saveAs \in BOOLEAN : \E o \in SaveOutcomes(tabs[active], saveAs) :
       /\ tabs' = [tabs EXCEPT ![active] = o.tab]
       /\ prefs' = IF o.saved THEN AfterSave(prefs, tabs', o.tab.path) ELSE prefs
  /\ UNCHANGED <<active, pending, search, hits>>

RemoveAt(list, i) == SubSeq(list, 1, i - 1) \o SubSeq(list, i + 1, Len(list))
Clamped(i, n) == Greater(Lesser(i, n), 1)

\* A plausible slip: the active tab goes, whichever the dialog is about.
CloseActiveTab(i) == /\ tabs' = RemoveAt(tabs, active)
                     /\ active' = Clamped(active, Len(tabs) - 1)

CloseTab(i) == /\ tabs' = RemoveAt(tabs, i)
               /\ active' = Clamped(active, Len(tabs) - 1)

RequestCloseTab(i) ==
  IF Dirty(tabs[i].view)
    THEN pending' = TabPending(i) /\ UNCHANGED <<tabs, active>>
    ELSE CloseTab(i) /\ UNCHANGED pending

Closes ==
  /\ HasTab /\ Spend("closes")
  /\ RequestCloseTab(active)
  /\ UNCHANGED <<search, hits, prefs>>

SwitchTab ==
  /\ Spend("switches")
  /\ \E i \in 1 .. Len(tabs) : i # active /\ active' = i
  /\ UNCHANGED <<tabs, pending, search, hits, prefs>>

\* The file of a tab with a path changes on the disk; the poll sees it, and the
\* banner offers to reload the file or to ignore the change.
ReloadedView(t, n) == Goto([NewTab(n) EXCEPT !.readOnly = t.readOnly, !.pane = "hex"],
                           Lesser(t.cursor, n))
ExternalChange ==
  /\ Spend("changes")
  /\ \E i \in 1 .. Len(tabs) :
       tabs[i].path # NoPath /\ tabs' = [tabs EXCEPT ![i].changed = TRUE]
  /\ UNCHANGED <<active, pending, search, hits, prefs>>

Banner ==
  /\ HasTab /\ tabs[active].changed
  /\ \/ \E n \in Lengths :
          tabs' = [tabs EXCEPT ![active].view = ReloadedView(@, n), ![active].changed = FALSE]
     \/ tabs' = [tabs EXCEPT ![active].changed = FALSE]
  /\ UNCHANGED <<active, pending, search, hits, prefs, left>>

-----------------------------------------------------------------------------
(* The search: only which tab each frame's step reads or edits matters here *)
(* (SearchJob.tla models what it finds).                                    *)

\* (0..len).rev().filter(not active), popped from its end: lowest index first.
OtherTabs == [k \in 1 .. Len(tabs) - 1 |-> IF k < active THEN k ELSE k + 1]

\* Only the buttons of the bar wait for the running job to end; the menu and
\* the keyboard replace it by the search for the next match.
SearchOf(kind, queue) ==
  [kind |-> kind, tab |-> active, queue |-> queue, count |-> 0, target |-> tabs[active].id]

StartSearch ==
  /\ HasTab /\ Spend("searches")
  /\ \/ search' = SearchOf("next", <<>>) /\ UNCHANGED <<tabs, hits>>
     \/ /\ search = NoSearch
        /\ \E queue \in {<<>>, OtherTabs} : search' = SearchOf("all", queue)
        /\ hits' = <<>>
        /\ UNCHANGED tabs
     \/ /\ search = NoSearch /\ ~ View.readOnly
        /\ search' = SearchOf("replace", <<>>)
        /\ UNCHANGED <<tabs, hits>>
     \/ /\ search = NoSearch /\ ~ View.readOnly         \* Replace
        /\ Selected(View) /\ SelEnd(View) = SelStart(View) + 1 /\ SelEnd(View) <= View.len
        /\ tabs' = [tabs EXCEPT ![active].view =
                      Boundary(Goto(Committed(EndTyping(@), "replacement", 0), SelEnd(@)))]
        /\ search' = SearchOf("next", <<>>)
        /\ UNCHANGED hits
  /\ UNCHANGED <<active, pending, prefs>>

ClickHit ==
  /\ Spend("switches")
  /\ \E k \in 1 .. Len(hits) :
       /\ hits[k].tab <= Len(tabs)
       /\ active' = hits[k].tab
       /\ tabs' = [tabs EXCEPT ![hits[k].tab].view =
                     Boundary(SelectRange(@, hits[k].at, hits[k].at + 1))]
  /\ UNCHANGED <<pending, search, hits, prefs>>

Matches(i) == 0 .. tabs[i].view.len - 1

FindsNext(i) ==
  /\ search.kind = "next"
  /\ \/ \E at \in Matches(i) :
          /\ tabs' = [tabs EXCEPT ![i].view = Boundary(SelectRange(@, at, at + 1))]
          /\ active' = i
     \/ UNCHANGED <<tabs, active>>
  /\ search' = NoSearch
  /\ UNCHANGED hits

FindsAll(i) ==
  /\ search.kind = "all"
  /\ \/ hits' = hits
     \/ \E at \in Matches(i) : Len(hits) < 2 /\ hits' = Append(hits, [tab |-> i, at |-> at])
  /\ search' = IF search.queue = <<>> THEN NoSearch
               ELSE [search EXCEPT !.tab = Head(search.queue), !.queue = Tail(search.queue),
                                   !.target = tabs[Head(search.queue)].id]
  /\ UNCHANGED <<tabs, active>>

Replacement(t, delta, count) ==
  LET r == Committed(t, "replacement", delta)
  IN  IF count > 0 THEN Merged(r) ELSE r

Replaces(i) ==
  /\ search.kind = "replace"
  /\ \/ \E delta \in {-1, 0} :
          /\ tabs[i].view.len > 0 /\ search.count < 2
          /\ tabs' = [tabs EXCEPT ![i].view = Replacement(@, delta, search.count)]
          /\ search' = [search EXCEPT !.count = @ + 1]
     \/ /\ tabs' = [tabs EXCEPT ![i].view = EndTyping(@)]
        /\ search' = NoSearch
  /\ UNCHANGED <<active, hits>>

\* The queue's index is used as it is: behind the last tab, the process ends.
QueuePanics ==
  search.kind = "all" /\ search.queue # <<>> /\ Head(search.queue) > Len(tabs)

Drive ==
  /\ phase = "drive" /\ search # NoSearch
  /\ phase' = Then(pending)
  /\ \/ /\ search.tab > Len(tabs)
        /\ search' = NoSearch
        /\ UNCHANGED <<tabs, active, hits, life>>
     \/ /\ search.tab <= Len(tabs) /\ ~ QueuePanics
        /\ FindsNext(search.tab) \/ FindsAll(search.tab) \/ Replaces(search.tab)
        /\ UNCHANGED life
     \/ /\ search.tab <= Len(tabs) /\ QueuePanics
        /\ life' = "panicked"
        /\ UNCHANGED <<tabs, active, hits, search>>
     \/ UNCHANGED <<tabs, active, hits, search, life>>     \* not finished in this frame
  /\ UNCHANGED <<pending, closing, prefs, restoring, left, known>>

CancelSearch ==
  /\ search # NoSearch
  /\ search' = NoSearch
  /\ UNCHANGED <<tabs, active, pending, hits, prefs, left>>

-----------------------------------------------------------------------------
(* The unsaved-changes dialog, drawn in every frame it is pending.          *)

Says(answer) == known' = [known EXCEPT !.answer = answer]


AnswerSave(i) ==
  \E o \in SaveOutcomes(tabs[i], FALSE) :
    LET saved == [tabs EXCEPT ![i] = o.tab]
    IN  /\ prefs' = IF o.saved THEN AfterSave(prefs, saved, o.tab.path) ELSE prefs
        /\ Says(IF o.saved THEN "saved" ELSE "refused")
        /\ IF Dirty(o.tab.view)
             THEN tabs' = saved /\ active' = i
             ELSE tabs' = RemoveAt(saved, i) /\ active' = Clamped(i, Len(tabs) - 1)

Answer(i) ==
  \/ AnswerSave(i)
  \/ CloseTab(i) /\ UNCHANGED prefs /\ Says("discard")
  \/ UNCHANGED <<tabs, active, prefs>> /\ Says("cancel")

AnyDirty == \E i \in 1 .. Len(tabs) : Dirty(tabs[i].view)
LastDirty == CHOOSE i \in 1 .. Len(tabs) : /\ Dirty(tabs[i].view)
                                           /\ \A j \in i + 1 .. Len(tabs) : ~ Dirty(tabs[j].view)

\* Every dirty tab is saved in turn, whatever became of the one before.
SaveAllOutcomes ==
  LET outcomes(i) == IF Dirty(tabs[i].view) THEN SaveOutcomes(tabs[i], FALSE)
                     ELSE {[tab |-> tabs[i], saved |-> FALSE]}
  IN  {f \in [1 .. Len(tabs) -> UNION {outcomes(i) : i \in 1 .. Len(tabs)}] :
         \A i \in 1 .. Len(tabs) : f[i] \in outcomes(i)}

RecentAfter(recent, f) ==
  LET g[k \in 0 .. Len(tabs)] ==
        IF k = 0 THEN recent
        ELSE IF f[k].saved THEN AddRecent(g[k - 1], f[k].tab.path) ELSE g[k - 1]
  IN  g[Len(tabs)]

AnswerQuitSave ==
  \E f \in SaveAllOutcomes :
    /\ tabs' = [i \in 1 .. Len(tabs) |-> f[i].tab]
    /\ active' = IF AnyDirty THEN LastDirty ELSE active
    /\ closing' = \A i \in 1 .. Len(tabs) : ~ Dirty(f[i].tab.view)
    /\ prefs' = IF closing' \/ \E i \in 1 .. Len(tabs) : f[i].saved
                  THEN SavePrefs([prefs EXCEPT !.recent = RecentAfter(@, f)], tabs')
                  ELSE prefs
    /\ Says(IF \A i \in 1 .. Len(tabs) : Dirty(tabs[i].view) => f[i].saved
              THEN "saved" ELSE "refused")

AnswerQuit ==
  \/ AnswerQuitSave
  \/ /\ closing' = TRUE
     /\ prefs' = SavePrefs(prefs, tabs)
     /\ UNCHANGED <<tabs, active>>
     /\ Says("discard")
  \/ UNCHANGED <<tabs, active, closing, prefs>> /\ Says("cancel")

\* A dialog whose tab is no longer there: `self.tabs[*i]` ends the process.
DialogPanics == pending.kind = "tab" /\ pending.tab > Len(tabs)

Dialogs ==
  /\ phase = "dialogs"
  /\ phase' = "input"
  /\ \/ /\ DialogPanics
        /\ life' = "panicked"
        /\ UNCHANGED <<tabs, active, pending, closing, prefs, known>>
     \/ /\ pending.kind = "tab" /\ ~ DialogPanics
        /\ Answer(pending.tab)
        /\ pending' = NoPending
        /\ UNCHANGED <<closing, life>>
     \/ /\ pending.kind = "quit"
        /\ AnswerQuit
        /\ pending' = NoPending
        /\ UNCHANGED life
     \/ /\ ~ DialogPanics                               \* no answer yet
        /\ UNCHANGED <<tabs, active, pending, closing, prefs, life, known>>
  /\ UNCHANGED <<search, hits, restoring, left>>

-----------------------------------------------------------------------------
(* The window is asked to close; the process is killed; the next start.     *)

CloseWindow ==
  /\ prefs' = SavePrefs(prefs, tabs)
  /\ life' = "closed"
  /\ known' = [known EXCEPT !.atQuit = PathsOf(tabs), !.reopening = "whole", !.dropped = {}]
  /\ UNCHANGED <<tabs, active, pending, search, hits>>

RequestQuit ==
  /\ Spend("quits")
  /\ \/ ~ AnyDirty /\ CloseWindow
     \/ /\ AnyDirty
        /\ prefs' = SavePrefs(prefs, tabs)
        /\ pending' = QuitPending
        /\ UNCHANGED <<tabs, active, search, hits, life, known>>

Kill ==
  /\ life \in {"running", "restoring"} /\ Spend("kills")
  /\ life' = "closed"
  /\ known' = IF life = "running" THEN [known EXCEPT !.atQuit = NotQuit]
              ELSE IF PathsOf(tabs) = <<>> THEN known         \* nothing is stored yet
              ELSE [known EXCEPT !.reopening = "cut", !.dropped = @ \cup known.missing]
  /\ UNCHANGED <<tabs, active, pending, closing, phase, search, hits, prefs, restoring>>

\* No file is named on the command line, and the preference to restore the
\* session is on.  Which files this start can open is settled when it begins.
Restart ==
  /\ life \in {"closed", "panicked"} /\ Spend("restarts")
  /\ tabs' = <<>> /\ active' = 1 /\ pending' = NoPending /\ closing' = FALSE
  /\ search' = NoSearch /\ hits' = <<>> /\ phase' = "input"
  /\ restoring' = prefs.session
  /\ life' = IF prefs.session = <<>> THEN "restored" ELSE "restoring"
  /\ \E missing \in SUBSET Paths :
       known' = [known EXCEPT !.atQuit = IF life = "panicked" THEN NotQuit ELSE @,
                              !.missing = missing]
  /\ UNCHANGED prefs

\* A plausible slip: a file that cannot be opened ends the restoring.
RestoreNextStops ==
  /\ life = "restoring"
  /\ IF Head(restoring) \in known.missing
       THEN restoring' = <<>> /\ UNCHANGED <<tabs, active, prefs, known>>
       ELSE restoring' = Tail(restoring) /\ OpenPath(Head(restoring))
  /\ life' = IF restoring' = <<>> THEN "restored" ELSE "restoring"
  /\ UNCHANGED <<pending, closing, phase, search, hits, left>>

\* Each file of the session is opened in turn, and each time the preferences
\* are written with the session so far.  One that does not exist or cannot be
\* opened is left out.
RestoreNext ==
  /\ life = "restoring"
  /\ IF Head(restoring) \in known.missing THEN UNCHANGED <<tabs, active, prefs, known>>
     ELSE OpenPath(Head(restoring))
  /\ restoring' = Tail(restoring)
  /\ life' = IF Len(restoring) = 1 THEN "restored" ELSE "restoring"
  /\ UNCHANGED <<pending, closing, phase, search, hits, left>>

FirstFrame ==
  /\ life = "restored" /\ life' = "running"
  /\ UNCHANGED <<tabs, active, pending, closing, phase, search, hits, prefs, restoring, left, known>>

-----------------------------------------------------------------------------
Input ==
  /\ phase = "input" /\ life = "running" /\ ~ closing
  /\ UNCHANGED <<closing, restoring>>
  /\ \/ Moves /\ UNCHANGED <<life, known>>
     \/ /\ Types
        /\ life' = IF Panics THEN "panicked" ELSE life
        /\ UNCHANGED known
     \/ /\ Edits \/ Saves \/ Closes \/ SwitchTab \/ ExternalChange \/ Banner
        /\ UNCHANGED <<life, known>>
     \/ StartSearch /\ UNCHANGED <<life, known>>
     \/ (ClickHit \/ CancelSearch) /\ UNCHANGED <<life, known>>
     \/ Opens /\ UNCHANGED life
     \/ RequestQuit
  /\ phase' = IF search' # NoSearch THEN "drive" ELSE Then(pending')

\* A frame without input, while a search or a dialog asks for frames.
Idle ==
  /\ phase = "input" /\ life = "running" /\ ~ closing
  /\ search # NoSearch \/ pending # NoPending
  /\ phase' = IF search # NoSearch THEN "drive" ELSE "dialogs"
  /\ UNCHANGED <<tabs, active, pending, closing, life, search, hits, prefs, restoring, left, known>>

\* The frame in which the window finally closes; its input is left out.
Close ==
  /\ phase = "input" /\ life = "running" /\ closing
  /\ CloseWindow
  /\ UNCHANGED <<closing, phase, restoring, left>>

EInit ==
  /\ tabs = <<>> /\ active = 1 /\ pending = NoPending /\ closing = FALSE
  /\ life = "restored" /\ phase = "input"
  /\ search = NoSearch /\ hits = <<>>
  /\ prefs = [session |-> <<>>, recent |-> <<>>] /\ restoring = <<>>
  /\ left \in Budgets
  /\ known = [nextId |-> 1, atQuit |-> <<>>, answer |-> "none", missing |-> {},
               reopening |-> "whole", dropped |-> {}]

ENext ==
  \/ Input \/ Idle \/ Close
  \/ /\ life = "running" /\ Drive
  \/ /\ life = "running" /\ Dialogs
  \/ Kill \/ Restart \/ RestoreNext \/ FirstFrame

ESpec == EInit /\ [][ENext]_vars

-----------------------------------------------------------------------------
(* What the window promises.                                                *)

Stacks(t) == {t.undo[k] : k \in 1 .. Len(t.undo)} \cup {t.redo[k] : k \in 1 .. Len(t.redo)}
Runs(step) == {by[2] : by \in {b \in step.by : b[1] = "typing"}}
Wrote(step, who) == \E by \in step.by : by[1] \in who

\* No undo step joins the typing of two runs, or typing with a fill or a write
\* of the Data Inspector, whatever other panels, searches and saves do in
\* between (hexview.rs:117-118, inspector.rs:134, dialogs.rs:245).
RunsStayApart ==
  \A i \in 1 .. Len(tabs) : \A s \in Stacks(tabs[i].view) :
    /\ Cardinality(Runs(s)) <= 1
    /\ Runs(s) # {} => ~ Wrote(s, {"inspector", "fill"})

\* One input, or one step of the search, is at most one step to undo: pasting
\* over a selection in particular (hexview.rs:282-289).
OneStepToUndo ==
  [][\A i \in 1 .. Len(tabs), j \in 1 .. Len(tabs') :
       tabs[i].id = tabs'[j].id => Len(tabs'[j].view.undo) <= Len(tabs[i].view.undo) + 1]_vars

\* A tab with unsaved changes goes only by the answer Discard or by one that
\* saved it: at most one tab, the one whose name the dialog shows in that frame,
\* and that is the one it was opened for unless another tab was closed
\* meanwhile and the dialog's index names another tab now.  The window closes
\* over unsaved changes by these answers alone (F-44: app.rs:199,
\* dialogs.rs:97-123, frame.rs:26).
Ids(list) == {list[i].id : i \in 1 .. Len(list)}
UnsavedIds(list) == {list[i].id : i \in {k \in 1 .. Len(list) : Dirty(list[k].view)}}
Lost == UnsavedIds(tabs) \ Ids(tabs')
Answered(answers) == phase = "dialogs" /\ pending # pending' /\ known'.answer \in answers
Shifted == pending.tab > Len(tabs) \/ tabs[pending.tab].id # pending.of

UnsavedWorkIsKept ==
  [][life = "running" /\ life' \in {"running", "closed"} /\ left'.kills = left.kills =>
       /\ Lost # {} => /\ Answered({"discard", "saved"}) /\ pending.kind = "tab"
                       /\ Lost = {IF Shifted THEN tabs[pending.tab].id ELSE pending.of}
       /\ (closing' /\ ~ closing) => Answered({"discard", "saved"})
       /\ (life' = "closed" /\ ~ closing) => UnsavedIds(tabs) = {}]_vars

\* How much of what was open at the last clean end the next start reopens: all
\* of it, or, after a start that a kill cut short, a beginning with what that
\* start had reopened.
Reach == IF known.reopening = "whole" THEN {Len(known.atQuit)} ELSE 1 .. Len(known.atQuit)

\* After a clean end the next start opens the files that were open then, in
\* their order, those it cannot open left out; a start cut short in between,
\* or several, leave a beginning of that list for the next one, without the
\* files that could not be opened then (config.rs F-61, main.rs:63-68).
RestoredAsLeft ==
  life = "restored" /\ known.atQuit # NotQuit =>
    \E n \in Reach :
      PathsOf(tabs) = OtherPaths(SubSeq(known.atQuit, 1, n), known.missing \cup known.dropped)

\* A search works on in the tab it was started for or its queue names; once
\* that tab is closed it is dropped (search/drive.rs:14-16).
SearchStaysInItsTab ==
  [][Drive /\ search.tab <= Len(tabs) /\ (tabs' # tabs \/ hits' # hits) =>
       tabs[search.tab].id = search.target]_vars
=============================================================================
