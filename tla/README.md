# A verification model of the Beagle hex editor

The editor (`src/`) opens files, disks and process memory, shows them as bytes, edits them through a
piece table with undo and redo, and saves them in place or by an atomic rewrite. This directory holds
TLA+ modules translated from that code, the TLC configurations that check them on small instances, and
theorems about them checked by TLAPS.

Everything here is translated from the Rust source. The comments of a definition name the lines it
stands for when they are not obvious; `PROJECT.json` maps every definition to its lines.

## 1. Inventory of the system

| Component (source) | State | Operations | What is hard about it |
|---|---|---|---|
| Piece table (`core/src/piece_table.rs`) | pieces (store, offset, length) | `pieces_in`, `modified_in`, `splice`, `delete` | offsets cut at both ends of a piece; assertions in `splice` and `delete` |
| Add buffer (`add_buffer.rs`) | bytes in memory or in a temporary file | `append`, `read_at`, `spill` | an append can fail once it needs the file |
| Document (`document.rs`, `document/fill.rs`) | table, buffer, undo and redo stacks, `saved_depth` | `insert`, `delete`, `overwrite`, `fill`, `merge_with_previous`, `undo`, `redo`, `dirty` | replaying edits over a table; an operation failing half-way; a saved point that moves, is merged away or overtaken |
| Saving (`document/io.rs`, `gui/src/app/files.rs`) | the file, its temporary replacement, its `.bak`, the file the source reads, the tab's path if it has one | `save_in_place`, `save_as`, `backup_file`, `save_active` | crashes and refused writes between two steps; the source being written under its reader; a path that is chosen only when saving |
| Block cache (`cache.rs`) | blocks by index, use order | `block`, `touch`, `read_into` | eviction; which errors may be remembered; staleness |
| Data sources (`source/*.rs`) | a file, memory or a device | `read_at`, `write_at` | sector alignment at the end of a device; short system calls with another thread's in between |
| Privileged helper (`helper/`, `helper-proto/`, `source/helper.rs`) | handle table of a connection | open, read, write, close by message | slots reused, a cap, request and answer paired over a pipe |
| Search and replace (`search.rs`, `search/*.rs`, `gui/src/search/drive.rs`) | position, window, wrap, queue of tabs | `step`, `next`, `replace_all` over frames | runs a slice per frame while the user edits; windows, wrap, overlap |
| Jobs and progress (`job.rs`, `progress.rs`, `gui/src/jobs.rs`) | a cursor over a range | `step`, `cancel` | frame budget, cancellation |
| Comparison (`compare.rs`, `gui/src/app/compare.rs`) | two positions, two frozen lengths | `DiffJob::step` | both documents may change between slices |
| Editor (`gui/src/app.rs`, `hexview.rs`, `app/files.rs`) | tabs, cursor, selection, typing run | typing, paste, close, save | tab indices held by the search and by dialogs that are not modal; merges of typed bytes |
| Export, records, split and join (`export*`, `hexfile*`, `transform.rs`, `gui/src/tools*`) | an output and a position | cooperative jobs, cleanup | partial outputs; records cut by windows and banks |
| Analysis (`hash.rs`, `strings.rs`, `stats.rs`, `magic.rs`, `gui/src/analyze*`) | a job's partial result | `step`, `finish` | what a window or an unreadable byte cuts; documents that shrink |
| Executables, disassembly, function diff (`format*`, `patch.rs`, `disasm*`, `funcdiff*`, their windows) | a result under a key, a walk | parse, sweep, descend, match, recompute the checksum | stale keys, walks in slices, duplicate names |
| Recipes, bookmarks (`recipe*`, `bookmarks.rs`) | a pipeline and its output; marks and their sidecar | run, add, remove, save, load | padding; escapes; which output is stale |
| Shortcuts, preferences (`shortcuts.rs`, `config.rs`, `menus.rs`) | overrides, session | rebind, restore | consumption order, conflicts; a session that is rewritten while it is restored, from files that may be gone |
| Identification, dumps, inspector, disks, shredder, tracer, command line | - | - | conversions, input/output of the operating system, thin callers |

How they interact: a tab owns a `Document`. Reads go table -> block cache -> data source (or add buffer);
edits change the table, append to the buffer and push a transaction. `save_active` makes the backup,
asks the document whether its layout is unchanged and then either patches the tab's file or rewrites it.
Everything in the GUI runs on one thread, so a document never changes under a call; long work (search,
replace-all, comparison, export, analysis, disassembly) is cut into slices, one per frame, and the user edits between slices.
The helper is a second process, spoken to over a pipe.

What makes each component correct: the table reads back exactly the bytes that were written, in order
(table, buffer, document); undo and redo bring back exactly the earlier versions and never trip an
assertion (document); a document that counts as saved is the saved one (document); a successful save
leaves the document in the file, a save that fails or is interrupted leaves the previous version
(saving); a read shows what the source holds (cache); each match is found once and replaced once
(search); a handle belongs to one open and the device behind it is a plain one (helper); unsaved work goes
only by an answer about the tab it is in, an index means the tab it was taken from (it need not: finding 5 and
what follows the findings), and a session comes back as it was left (editor); a job's result is that
of its whole range however it was sliced, or nothing (jobs); what a window shows is what the document
holds (panels).

## 2. Modules

| Module | Stands for | Notes |
|---|---|---|
| `PieceTable` | `piece_table.rs`, `inplace_dirty_ranges` | operators on a table, a sequence of pieces; no state of its own |
| `Document` | `document.rs`, `fill.rs`, `add_buffer.rs` | a document is a record; each operation an operator from documents to documents; `Spec` lets every public operation happen in any order |
| `VersionHistory` | the promise of undo and redo | abstract: a line of versions and a cursor |
| `DocumentHistory` | `Document` plus history variables | the refinement mapping and the properties about earlier states |
| `DocumentFiles` | `cache.rs`, `document/io.rs`, `source/file.rs`, `save_active` | a document, its cache and the files; every write, sync and rename is a step |
| `SavingHistory` | `DocumentFiles` plus history variables | what each path held after each successful save |
| `Search` | `search.rs`, `search/pattern.rs` | operators on a searcher and a text of letters |
| `SearchJob` | `gui/src/search.rs`, `search/drive.rs`, `apply_replacement` | one job over a `Document`, a step of a frame at a time, with the user in between |
| `BlockingSearch` | `search/blocking.rs`, `sweep` | the calls of the command line, as operators |
| `SearchHistory` | `SearchJob` plus a history variable | what the job was asked; the reference search; fairness |
| `HexView` | `hexview.rs`, `hexview/render.rs`, `inspector.rs` | operators on a tab: cursor, selection, nibbles, typing runs, and the document as far as the grid tells it apart |
| `Editor` | `app.rs`, `app/files.rs`, `app/frame.rs`, `app/dialogs.rs`, `main.rs`, `search/drive.rs` over tabs | the window by frames: input, then the search, then the dialogs |
| `Window` | `shortcuts.rs`, `app/menus.rs`, `app/pickers.rs` | the keyboard, and its composition with the editor |
| `PlainDevice` | the promise of `DataSource` (`source/mod.rs`) | abstract: calls that move their bytes in order, some at a time |
| `HelperDaemon`, `DeviceSource` | `helper/src/main.rs`, `helper-proto`; `source/align.rs`, `source/disk.rs`, `source/helper.rs` | connections and their tables; threads sharing a source behind a lock; every `pread` and `pwrite` a step |
| `HelperHistory` | both, with the daemon's other clients | the refinement of `PlainDevice`; fairness |
| `ByteJobs` | `job.rs` | a range cut into steps; reading; folds over bytes |
| `Analysis`, `Differences`, `Outputs` | `hash.rs`, `strings.rs`, `stats.rs`, `magic.rs`; `compare.rs`; `export*`, `hexfile*`, `transform.rs` | each a job as a record with its step, and beside it the definition of the result over a whole range |
| `Workbench` | `gui/src/jobs.rs`, `analyze*`, `tools*`, `app/compare.rs` | the panels that run these jobs while tabs are edited and closed; at its end, what the jobs promise |
| `Words`, `Codecs`, `Recipes` | `recipe*` | encodings over bytes; the pipeline and its window |
| `Executables` | `format*`, `patch.rs` | recognition, the ELF and PE trees, the PE checksum |
| `Disassembly`, `FunctionDiff` | `disasm*`, `funcdiff*` | the walk; extraction and matching of functions |
| `Bookmarks` | `bookmarks.rs` | marks and the lines of their sidecar |
| `Panels` | `gui/src/structure.rs`, `disasm.rs`, `bindiff.rs`, `recipe.rs`, `app/dialogs.rs` | the windows over tabs, a user step or a drawing at a time; at its end, what they promise |
| `Induction`, `DocumentProofs`, `DocumentHistoryProofs`, `SavingProofs`, `HelperProofs`, `EditorProofs`, `SearchProofs`, `WorkbenchProofs` | theorems | see section 5 |
| `MCSearch`, `MCEditor`, `MCHelper`, `MCTools`, `MCPanels` | instances for TLC; `DocumentHistory` and `SavingHistory` are checked as they are | one `.cfg` per run |

Bytes are cells: `<<"Original", i>>` is the byte the source had at offset `i` when it was opened,
`<<"Added", k>>` the k-th byte ever appended, `Hole` a byte of a file that was never written and `Zero`
the zero that stands in for an unreadable byte. `Content(table)` is the reference that everything is
compared with. In the document, saving and the editor a byte's value never matters; `Search` gives the
cells letters, and the jobs and panels work on documents that are sequences of bytes 0..255, with
`Unreadable` for one that cannot be read.

Correspondence in `Document`: `doc.table` is `PieceTable::pieces`, `doc.added`/`doc.spilled` the length
and place of the `AddBuffer`, `doc.undo`/`doc.redo` the two vectors of transactions (last on top),
`doc.savedDepth` is `saved_depth` with `-1` for `usize::MAX`. `panicked` is set when an assertion of
`splice` or `delete` would fail: nothing happens after it. `TearAt` is an overwrite (or a chunk of a
fill) whose append fails: the code has already removed the covered bytes and returns without a
transaction, so the model leaves the table just so.

Correspondence in `DocumentFiles`: `file[p]` holds what a reader of path `p` sees (`now`) and what is on
the disk (`durable`). `linked` says whether the opened path still names the file that `FileSource`
holds open; a rename over that path makes it `orphan`. `save` is the save in progress, by phase:
`Backup`, `Copy` (the truncation and the copy of `std::fs::copy`), `Choose`, then `Patch` (one step per
`write_all_at`, then the sync) or `Stream` (one step per block read), `Rename`. `Fail` refuses the next
step, perhaps after a part of it. `tabPath` is `tab.path`: a tab opened from a file has its path, one on a
disk, on imported records or on a new document has `NoPath`, reads a source that no path names, and is
asked for a path by its first Save. That path does not make the save a Save As: `Save1` begins it with
`saveAs` false, as `save_active` does, and `Choose` may then patch the chosen file (see after the findings). `Crash` ends the process
and `PowerCut` the machine. After a power cut
any unsynced cell may or may not have reached the disk, a file may have its old or new length, and a
rename may be lost, because the directory is never synced. The file system is external to `src/` and is
modelled from how the code uses it.

Correspondence in `SearchJob`: `job` is `SearchState.job`, with the results list that "Find all" fills and
the count of a replace-all; `budget` is what is left of the running frame's budget, so every `Drive`
action is one turn of the loop in `drive`, and whatever has the guard `budget = 0` happens between two
frames. `letters` gives each added byte its letter, `source` those of the original bytes, and a byte in
`bad` reads as `ZeroLetter` and is reported unreadable; folding of case is done before a text is a
sequence of letters. `outcome` is the status line, with the position, list or count it speaks of. The
user may type, delete, undo and redo between the frames, restart the search with a key, or cancel.

Correspondence in `Editor`: `tabs` is `BeagleApp::tabs` (each with an `id` the code does not have, so
that a property can say which tab an index meant), `pending` is `pending_close` (`pending.of` is the id behind
its index when the dialog was opened, which the code does not keep), `search` the running
search with its queue of indices, `hits` the list it fills, `prefs` what `prefs.save` last wrote,
`restoring` what is left of the session at a start. The dialogs are egui windows that leave menus, tab bar and
grid usable, so every input happens under an open dialog too. At a start any set of files (`known.missing`)
cannot be opened, because they are gone or because opening fails; each one that opens has `save_prefs` rewrite the
session at once. `known.atQuit` is what was open at the last clean end, `known.reopening` says whether a kill
cut a start that reopens it short, and `known.dropped` which files such starts could not open. A tab's document is reduced to its length, its saved
depth and stacks of steps that carry who made them. `phase` orders a frame as `frame.rs` does: input,
the search, the dialogs. `Kill` ends the process at any moment, and a failed assertion does too.

Correspondence in `HelperDaemon` and `DeviceSource`: `conn[c]` holds the two ends of a connection, the
two directions of its socket and the daemon thread's handle table, a sequence of slots. Every message is
sent, received, dispatched and answered in steps of its own. `conn[c].part` is what the loop of `pread`s or `pwrite`s
of the request at the head has moved; `Transfer` is one such system call, which moves one byte or more of what
is missing, or fails, and anything of another thread or connection may happen before the next one. `calls[t]` is the call a thread of the editor
is in, `step[t]` where it stands with the block it holds and how much of it is written (`done`), `lock` the mutex
around the stream; `DiskRead` and `DiskWrite` are one turn of the loops in `disk.rs`. `calls[t].effect` is history: the caller's bytes moved so far.
The source
is opened directly when permission allows and otherwise through the daemon, as `open_device` does.
`Writers` are the threads that write: `align.rs` documents a single writer, so there is one at most. The
other clients open `OwnDevices`, not the source's device: two programs that write one device promise each other
nothing. `MaxLen` bounds a call's bytes, in the source and in the plain device alike.

Correspondence in `Workbench`: `runner[p]` is a panel's `JobRunner` with its job, status and shown
result, `turn` says whose frame it is and what is left of `FRAME_BUDGET`, `compare` is the comparison with
its frozen job, `files` what the jobs write. `goal` and `touched` are history: what was asked, of which
bytes, and whether a tab was edited or closed since.

Correspondence in `Panels`: a document's content is one of the `Images` (by index); `window` is the
state of the one window that is open, with the result and the key it was computed under; `drawn` says that a frame was
drawn since the last input, and `disturbed` is history: the document changed under the same key.

## 3. Runs

| Run | Question | Bounds |
|---|---|---|
| `document` | Does every sequence of operations keep the table, the stacks and the saved depth right, and implement `VersionHistory`? | sources of 0 and 2 bytes, writes of 1-2 bytes, 3 edits (attempted), any number of undos, redos, merges and saves; fill in chunks of 1; the buffer spills after 3 bytes and may then fail |
| `saving` | Does a save leave the document, or else the previous version, and does the cache tell the truth? | a tab of the opened file or without a path, a source of 3 bytes in blocks of 2, room for 1 block, 2 edits of 1 byte, 2 saves, each of Save and Save As (to an existing file), backups on, any write or sync refused, reads failing, no bad block or block 0 |
| `search` | Do searches and replacements, sliced over windows and frames, agree with the definition of a match, and does every job end? | one text of 4 letters, one unreadable byte or none, 4 patterns (one letter, two different, two equal, a wildcard between two), 3 replacements (empty, shorter, longer and containing the patterns), the document or a selection, windows of 2, frames of 3, a list of 2; 1 job, 1 edit, any undos |
| `editor` | Does typing stay in its runs, is one input one step to undo, does unsaved work go only by an answer about its tab, does the session come back, and do chords reach their actions? | documents of up to 2 bytes, 2 columns, 2 paths, of which any may fail to open at a start; eight budgets of inputs: much typing in one tab; two tabs edited, closed and quit; three tabs closed under a dialog; searches over tabs that come and go; replacements; two restarts with a kill; three tabs and three restarts with two kills; the keyboard with 2 changes |
| `helper` | Is a source over a device a plain device, through the daemon too; do handles keep their device; does every call return? | sectors of 2 bytes, a device of two whole sectors or of one and a half, 2 threads of which one writes, 2 calls of up to 2 bytes, each `pread` and `pwrite` of any length or failing, 2 handles; another client with 3 requests of its own, or the daemon's death |
| `tools` | Does every job give the result of its whole range, or leave nothing, and end? | documents of up to 8 bytes chosen for the cuts they allow, windows of 2, 3 and 4 bytes, frames of 3, 2 moves (jobs, edits, closings) besides cancelling, a disk that may fail |
| `panels` | Do the windows show what the documents hold? | 16 contents (six ELF, four PE, six raw), up to 3 tabs, 4 moves, recipes of 2 steps, 3 marks |
| `dirty_flag`, `torn_overwrite`, `stale_in_place`, `backward_nearest`, `closed_search` | the findings of section 4 | the smallest of the above |

Why the bounds are enough. The operations look at a table only through the pieces that a range cuts:
3 edits of up to 2 bytes give tables of up to 7 pieces, with an operation starting before, at, inside and
after each; transactions of one, two (overwrite, chunked fill) and more (merged) edits all occur, and a
saved depth is passed, merged away and overtaken. The spill threshold of 3 lies inside what three edits
append, so an append happens below, across and beyond it. In `saving`, two edits and two saves are what
it takes to save, change and save again by the other method; blocks of 2 in a source of 3 make a piece
start inside a block, cross one and meet the short last block; with room for one block every second read
evicts.

In `search`, one edit turns the text into every neighbour of it, so jobs meet texts of 3 to 5 letters; with
windows of 2 a match of 2 or 3 letters starts in one window and ends in the next, or in the one after,
and a frame of 3 ends with a window cut short. The edit falls before the job or between any two of its
frames, and undo may take back a replacement the job is still counting.

In `editor`, a hazard of typing needs a run, something between, and another key: three edits and two
moves; one of closing needs two tabs, a dialog and an answer, and one of shifted indices three tabs, two of
them changed, and a closing under the dialog; one of the session two or three files, of which some may be gone, a clean
end, and a kill in the middle of each of two starts before a third. In `helper`, a read-modify-write of a write that starts inside a sector and
ends in the next is a read and a write of 4 bytes, each in up to four system calls, and the other thread's read
of 2 bytes falls between any two of them, also after a short one of its own, so that reads torn between old
and new bytes do occur; one and
a half sectors is the smallest device whose last one is partial; three requests fill a table of 2 and
reuse a slot. In `tools`, each document has a cut at every window: a character of two and three bytes, a
broken one, overlapping headers, a header whose second part lies further on, an unreadable byte, an
empty document; bases of 65533 and 16777214 put a bank's end and the end of the address width inside the
record file. In `panels`, the contents differ in what the windows key on: same length and other bytes, other
length, a table that lies past the end, an unreadable byte inside code, names that occur twice, code
that jumps into an instruction; four moves open, change, switch and close. The constants of `tools` and
`panels` that replace 64 KiB windows and similar limits are named after them.

`CHECK_DEADLOCK FALSE` is used because the bounds on edits, saves and jobs really end a behaviour, and a
failed assertion ends the process. No fairness is assumed for documents, saving, the editor's input and
the panels: they take no step by themselves. `search` assumes that a frame comes while a job runs (`drive` asks for the next one,
`drive.rs:17`) and that the loop of a frame goes on until its budget is spent: weak fairness of
`BeginFrame` and of `Drive`, whose enabling conditions are written out because TLC evaluates `ENABLED` of
a chain of edits too slowly. The user is never obliged to do anything.
`helper` assumes that each thread of the editor and of the daemon keeps running and that a message on
its way is read: weak fairness of the handshake, of each thread's steps together and of each daemon
thread's steps together (a connection is one thread: accept, hang up, move bytes, dispatch, reply), but none of
other clients, of the daemon's death or of which thread gets the lock (with two calls at most, none can
overtake for ever). A loop of short calls ends because each of them moves a byte at least or ends the loop. `tools`
assumes that a frame is drawn while a panel has a job (`request_repaint`): weak fairness of each panel's drive.

What the properties say:

* `PiecesInStores`: fields keep their types; no piece of the table or of a stack is empty or
  points outside its store, even after a torn overwrite, so the reads the code calls infallible are.
* `ReadsTheContent`, `ModifiedIsExact`: `pieces_in` and `modified_in` against the content, for every range.
* `SavesInPlace`: whenever `inplace_dirty_ranges` answers, writing those ranges into the source gives the
  document; and a source of fixed size always gets an answer.
* `ImplementsVersionHistory` (refinement), `UndoNeverPanics`: undo and redo bring back exactly the
  version they lead to, without tripping an assertion, the debug assertion on a redo's runs included.
* `SavedDepthNamesSavedVersion`: the saved depth is never past what undo and redo reach, and names the saved
  version, unless a commit landed on it (finding 1 in section 4).
* `SavesTheDocument`: a successful save leaves exactly the document in the file, with its data on the
  disk: any save that streams, from whatever source into whatever file, and one in place when the path names
  the file the source reads. It assumes that no byte the document takes from its source has been overwritten
  there, because a save in place writes into the file that the original pieces are read from, so an undo
  after it shows the byte written (or the one in the cache). A save in place into another file, which the code makes
  after a rename (finding 3) and for a tab without a path, leaves the edited bytes at their offsets, no more.
* `UnreadableNeverSaved`: the zeros that stand in for unreadable bytes reach no file.
* `RewriteIsAtomic`: unless a save in place is going on or has failed, a file holds its last saved version
  as long as the machine runs, and after a power cut that one or an earlier saved one, which a lost
  rename brings back. What a lost rename brings back of a file that was renamed over while a save in place
  had left it half-written is that half-written file; history remembers such a path as `buried`.
* `BackupKeepsThePrevious`: with backups on, the first save that goes wrong leaves the version before it
  in the file or in its `.bak`. Only the first: a second attempt copies the half-written file over the
  backup.
* `CacheIsTruthful`: the cache's map and its order name the same blocks within the capacity; a cached
  block is what the source holds except for bytes overwritten since, and only permanent errors are kept.
* `FindAllIsExact`, `NextIsNearest`, `BlockingCallsAgree`: the list, the match selected, and the answers
  of the blocking calls, against matches by their definition. Bytes that cannot be read may hide what
  overlaps a match of the zeros that stand in for them, and nothing else.
* `MatchesAreGenuine`, `SearcherStaysInRange`: what holds however the user edits between two frames. A
  step shows and replaces only matches of the text it sees, and no unsigned difference goes below zero.
* `ReplaceAllIsExact`, `ReplaceAllUndoesAtOnce`: an undisturbed replace-all replaces each match of the
  original text once, and one undo takes all of it back, at every step and so also when cancelled. An
  edit between two frames does disturb it: the next replacement is merged with the user's transaction.
* `JobEnds`: every search job ends.
* `RunsStayApart`, `OneStepToUndo`: no step of the undo stack joins two runs of typing, or typing with a
  fill or the inspector's write; one input is one step at most. A recomputed checksum and a replacement
  made at the typist's cursor are not among those kept apart: neither ends the run.
* `UnsavedWorkIsKept`: a tab with changes goes only by an answer Discard, or one that saved it, and it is then the
  one tab whose name the dialog shows in that frame; that is the tab the dialog was opened for unless another
  one was closed meanwhile, in which case the code takes the index for another tab. The window closes over changes only by such an answer. It trusts `dirty()`, whose
  flaw is finding 1.
* `RestoredAsLeft`: after a clean end the next start opens the files that were open, in their order, those it
  cannot open left out. Each opening rewrites the stored session, so a start that a kill cuts short leaves the next
  one a beginning of the list, without the files it could not open: never nothing if it had opened one, never
  another order, and all of it if it had opened none.
* `KeysReachTheirActions`: after every change of a chord the stored overrides resolve to what is in use, and
  the defaults, consumed in the order of `menus.rs`, each reach their action.
* `HandlesNameTheirDevice`, `BehavesAsADevice` (refinement of `PlainDevice`), `CallsReturn`: a handle its
  client holds is what it opened, and no table passes its cap; a thread's read returns each byte as the device
  had it at some moment of the call, in order, and a write changes its own bytes only, in order, all of them or,
  failing, some; every call returns. Neither is atomic: with short system calls a read may see the beginning of another thread's
  write and miss its end.
* `ResultsAreWhole`: an analysis or a report that ends over an unchanged document gives what its definition
  says of the whole range.
* `NothingLostInParts`: a split that ended left the document in its parts, in order, and a join its inputs one
  after the other, however budgets cut them into steps and whatever lay under those names.
* `OnlyChangesPanic`: a document that became shorter under its analysis, or whose tab a shorter one took, can
  end the program (an index past the bytes read, in `magic.rs` and `stats.rs`); no other job does.
* `NothingHalfWritten`: a job that is cancelled, fails or loses its tab leaves no output and changes no
  other file, a part of a split that overwrote an older file excepted: that file is deleted. The outputs of a job
  that another one replaced are excepted too (`jobs.rs:81` drops it without cleanup).
* `RecordsReadBack`: a record file imports as what was exported, no Intel HEX record leaves its bank, and
  a changed byte, or a missing data record of an S-record file, is refused.
* `DifferencesAreReal`, `JobsEnd`: the next difference is the next one, and still one when a document was
  edited meanwhile; every job of the panels ends.
* `TreesShowTheFile`, `ListingsAreComplete`, `FunctionsPairOnce`: the tree is the active document's, each
  field inside its parent and a recomputed checksum where the parser reads it; a sweep tiles the code and a
  descent finds exactly what is reachable; every function is in one bucket and no pair is left over.
* `RecipesGiveBack`: a pipeline of invertible operations goes back to its input through their inverses.
* `BookmarksSurvive`: a sidecar gives back the marks that were last saved to it, sorted.

Each property of a passing run has a mutant in `PROJECT.json`: a plausible slip in one translated
definition (kept beside it, marked as such) that makes TLC find the property violated.

## 4. Findings

Each is a run that TLC ends with a counterexample to what a comment or an assertion of the code says.

1. `dirty_flag`: save at depth d, undo once, edit once. The depth is d again, equal to `saved_depth`, so
   `dirty()` is false for a changed document. `commit` compares with `>` after the push; the saved point
   it should have dropped is at exactly that depth (`document.rs:166-174`).
2. `torn_overwrite`: an overwrite whose append fails has already deleted the covered bytes, without a
   transaction. A later undo asks to delete past the end and the assertion ends the process.
3. `stale_in_place`: delete, save, undo, save. The first save renames a new, shorter file into place; for
   the second one the table equals the source opened at the start, so nothing is dirty, nothing is
   written, and the shorter file counts as saved.
4. `backward_nearest`: searching backwards for `aa` in `aaa` from position 2 finds 0, not 1. The window is
   scanned left to right without overlap, so its last match need not be the closest one.
5. `closed_search`: close the tab a search runs in while another tab follows it. The job's index now names
   that other tab; only an index out of range drops the job (`search/drive.rs:14-16`).

What else the translation brought to light, kept in the models as the code has it, is excluded from the properties by
name where it matters:

* Save in a tab without a path (a disk, imported records, a new document) asks for a path, but goes on as a Save:
  if the document's layout is that of its source, the file that was chosen is patched with the dirty bytes, none
  if nothing was edited, and counts as saved (`files.rs:99-126`). The comments at `files.rs:83` and `:239` say that such
  a Save is a Save As. `SavesTheDocument` says of these saves what they do, and no more.
* Ask to close a changed tab, close another one before it while the dialog is open, answer Discard: the dialog's
  index names the next tab by then, which is closed with its unsaved changes (`app.rs:208`, `dialogs.rs:105`). With
  no tab at that index any more the program ends (`dialogs.rs:65`). `dialogs.rs:1` calls these dialogs modal, but they
  leave the tab bar usable. `UnsavedWorkIsKept` says which tab goes, by `Shifted`.
* Quit with two files open, start, be killed after the first file was reopened, start again: each opening rewrites
  the stored session (`files.rs:40`), so only the first file comes back, and a file that could not be opened at one
  start is gone from the session once another one was opened. `RestoredAsLeft` says what is left.
* The odd phase of a UTF-16 scan begins with a fictitious unit; a truncated list of strings depends on
  how the range was sliced; an analysis whose tab is gone keeps its status "processing…".
* The text column of a dump decodes each step alone; "next difference" from beyond the common end jumps
  back to it; the MAX_INSNS cap on a listing shows nowhere.
* The structure tree, the listing, the function diff and the recipe keep the result of a closed tab when
  an equally long one moves to its index, and of a document that was overwritten at the same length.
* Sections with overlapping addresses (relocatable objects) resolve to the first one; a group over
  relocation tables that are not in file order has no extent; "✓ checksum" edits a read-only tab's document.
* A malformed bookmark sidecar loads as an empty list and the next change overwrites it; Save As of a
  document without marks leaves an older sidecar in place, and the next opening adopts it.

## 5. Theorems

All are proved for every value of the constants, under the named assumptions of the modules:
`FillChunkAssumption` and `BoundsAssumption` of `Document` (a chunk is not empty, the bounds are naturals),
`CacheAssumption` (blocks and capacity are not zero), `FilesAssumption` (a tab has the opened path or none, and a dialog gives a known one),
`HandlesAssumption` (the caps are not zero), `SourceAssumption` (a sector is not empty, one thread writes at
most), `OthersAssumption` (other programs do not write the source's device), `LengthsAssumption`,
`ColumnsAssumption` and `EditorAssumption` (a row is not empty, a run of typing may have one edit, files have a
length, a tab without a file has no path), `CapturedAssumption` (what is pressed is a key with modifiers),
`SearchAssumption` (a pattern is not empty, a source and a replacement are sequences, a selection has
positions, the budget and the cap are naturals), the two `WindowAssumption`s and `WorkbenchAssumption` (windows,
budgets and numbers typed in the panels are at least one, a name of its own for every part a split may have, on
disks that have a place for each, documents and files are sequences of bytes), and `SignaturesAssumption` (there are
signatures, and each has a byte). TLC evaluates each of them.

**Tools.** `SetInduction`, `PrefixInduction`, `RecursionExists`, `Concatenations` (`Induction`). The provers cannot instantiate
the library's induction theorems, so induction is restated over a *set* of naturals and proved once from
the well-foundedness of `<`; every recursive function of the models is unfolded through `RecursionExists`,
or through `DownwardRecursionExists` where a value is found from one further on, as in a scan.

**The piece table** (`DocumentProofs`).

* `SliceContent`: for every table and every range, `pieces_in` returns pieces standing for exactly the bytes of
  the range. By induction on the number of pieces: the window of a concatenation is the concatenation of
  the windows (`WindowOfConcat`), and clipping one piece gives the window of its bytes (`ClipContent`).
* `ModifiedExact`: `modified_in` marks exactly the added positions of the range, as ranges that lie apart.
* `SameContentSameRuns`: tables that hold the same bytes are the same byte runs, however they are split,
  which is what the debug assertion on a re-applied delete compares.

**The document** (`DocumentProofs`, `DocumentHistoryProofs`).

* `TypeCorrect`, `StorageSafe`. `PiecesInStores` is not inductive by itself, because undo reverts edits it
  knows nothing about. The strengthening `Inv` says the whole document is in `Docs(Stored(size, added))`:
  the table *and* every edit of both stacks consist of stored pieces. The argument has three layers: (1) a
  set of pieces closed under clipping is closed under splice, delete, applying and reverting, so that
  whatever the stacks hold, replaying them cannot leave the set; (2) each operation, torn overwrites and
  each chunk of a fill included, keeps a document in `Docs`; appending enlarges the store and `Docs` is
  monotonic in it; (3) `Init`, one step per action, and PTL.
* `ReadsAreSlices`, `ModifiedRanges`: from `SliceContent`, `ModifiedExact` and `Inv`, reading any range of
  any reachable document yields that slice of its content and marks exactly its added bytes.
* `SavedDepthIsReachable`: the saved depth never exceeds what undo and redo can reach. The history
  variables only watch (`HistoryWatches`), so `Inv` carries over, and `Reach` is kept by every operation.
* `NoPanic`, `VersionsImplemented`, `SavedDepthNames`, `InPlaceSaves`: these need `LineInv`. That undo
  succeeds now depends on what the edits below the top of the stack expect, so the invariant speaks of
  all of them: the recorded versions are a line, as many as both stacks are long and one more, and the
  transaction at each depth leads from the version there to the next, forwards and backwards (`Line`);
  the saved depth names the saved version unless a commit overtook it (`Names`); in a source of fixed size
  every original byte stays in its place (`Stays`). It holds until an overwrite is torn, after which the
  properties promise nothing (finding 2). `commit` cuts the line and extends it, `merge_with_previous` joins
  two links, undo and redo move along it, and each is the step of `VersionHistory` of that name.

**Saving** (`SavingProofs`). `SavingInvariant` proves `SInv`, from which the others follow.

* While the editor runs (`Running`): the cache is coherent, with true answers only (`CacheOk`); the save in
  progress is idle, preparing, patching, streaming or renaming, and in each of them what has been written and
  what is left together make the document (`Saving`), as long as no byte that the table takes from the
  source was overwritten there; files that are not being patched equal their last saved version, in
  memory and on the disk, and displaced ones a saved version (`Whole`); and the backup is made before
  anything else may write the file (`BackedUp`). A crash or a power cut ends `Running`, and the two
  properties about stopped states are carried by `SInv` from the step that stops it.
* `CacheTruthful`, `RewritesAtomic`, `BackupsKeep`, `ZerosNeverSaved` are parts or consequences of it.
  `ZerosNeverSaved` needs that streaming stops at the first byte that cannot be read, from the cache or not.
* `SavesDocument`, an action property: the step that ends a save finds, by `Saving`, the document in the file,
  for a tab of the opened file as for one without a path. For a save in place into the file of the source it needs
  `SameContentSameRuns`' companion from `InPlaceSaves`: writing the modified ranges into the source gives the
  content. For one into another file it says what remains true: `Saving` keeps that the edited bytes written so far are in place.

**The helper** (`HelperProofs`). `HelperInvariant` proves `HInv`, from which the others follow.

* For the daemon's other clients, who send without waiting: the replies a client has not heard and the
  requests the daemon has not read are, in this order, those it waits for; each handle it holds names
  the slot opened for it; one whose opening it has not heard of is in its slot and not in the client's
  hands; and a slot is named by a pending close only once (`Promised`). Without the messages in flight
  `HandlesNameTheirDevice` is not inductive: a slot is closed before the client hears of it, and given out
  again before the next one does. `HandlesHold` follows.
* For the source: its connection is quiet unless a thread has the lock, and then carries that thread's one
  request with what has been moved for it, its reply, or the loss of both (`ClientOk`); a thread's step and its
  call agree on the bytes read so far, on the patched sectors, and on how much of a write has reached the
  device (`ThreadOk`). That the sectors a write has read are still those of the device while they are written
  back, call by call, rests on the single writer.
* `DeviceImplemented`, the refinement of `PlainDevice`: each `pread` and `pwrite`, of the thread or of the daemon for
  it, moves the bytes of its span that are the caller's, which is a step of the plain device or, when there
  are none among them, of nobody; a message, a reply, another client or the daemon's death changes nothing the callers see; and
  writing back the bytes around the caller's changes nothing, because they are those the device holds.

**The editor** (`EditorProofs`). `EditorInvariant` proves `EInv`, from which the others follow.

* `RunsApart`. A run of typing ends by its own means only: a click, a key or another panel between two
  characters calls `EndTyping`, or does not and then must not leave its edit on top of the stack. So the
  invariant says of every view what lets the next character join: while a run goes on, the last undo step is
  of edits that this run may join (`Continues`), every step of both stacks is of one run (`UndoSteps`), and
  undo and redo only move steps. Undo and redo also change the length by what a step records, so the
  steps of both stacks lead through lengths (`Chain`): without them a length might be negative.
* `InputIsOneStep`: each operation on a view adds one step at most (`Follows`), and the identities of tabs
  stay distinct (`ListOk`), so that this holds for every tab and not only for the active one.
* `SessionRestored`. What is owed to a start (`Owed`) is the list of the last clean end, or a beginning of it if a
  start was cut short since, without the files dropped on the way. The invariant `SessionOk` says that a closed
  window's stored session is owed, and that while it is reopened some list that is owed consists of what the tabs have, the
  missing left out, and of what is still ahead (`Reopened`). A kill keeps this because a beginning of
  a list without some files is a beginning of the list, without them (`OtherPathsBegins`), and leaving files out
  twice is leaving both out (`OtherPathsTwice`).
* `KeysReach`, an action property of the composition with the keyboard. What is stored of a chord is its
  tokens, the modifiers in a fixed order and then the key, and parsing them gives the chord back
  (`FormatReadsBack`; by `CapturedAssumption` no key is written as a modifier), so the stored overrides
  resolve to the chords in use. That none of the defaults swallows another is a case analysis over the order
  in which the menus consume them (`DefaultsReach`).
* `UnsavedKept`, an action property, by cases on the input, the drive of the search, each answer of the dialog and
  the end of the window. Identities are distinct (`ListOk`), so removing one index loses one tab and which it is can be
  said. Its companion for the search, `SearchStaysInItsTab`, is false (finding 5).

**Searching** (`SearchProofs`). A scan of a window finds matches in order and apart (`ScanIsRight`), what is
kept of them touches nothing unreadable (`FoundIsRight`), and a step keeps the searcher inside its range and answers
with such matches (`SteppedIsRight`).

* `SearchersKeepInside`. The inductive invariant `JobInv`: the document is good in the sense of `DocumentProofs`,
  each byte of its add buffer has a letter, and the running searcher lies inside a range that ends where the
  job may reach. It needs no bound on what the user does in between. That a replace-all which shortens the text
  does not restart beyond its range rests on its matches lying apart (`RestartedGood`).
* `OnlyMatches`. What a step shows is a match of the text it sees by `SteppedIsRight`. What it replaces: every replacement
  substitutes its bytes in one transaction (`ReplacementReplaces`), so the cells of the last document are
  those of the first with new bytes at each shifted match (`CellsOfStep`, by induction over the replacements);
  bytes added earlier keep their letters, so the text is the text with the replacement put in (`TextPut`); and
  such a text is what the recursive `Substituted` computes (`SubstitutedIs`).
* `FindsAll`, `FindsNearest`: that a search leaves nothing out. A skip goes to the last place where the pattern holds
  the letter under its end, so it passes over no match (`StrideMissesNone`, `ScanMissesNone`); what is dropped
  of the matches found touches unreadable bytes (`FilterKeeps`); and a window reads as far behind its end as a
  match may reach (`FoundMissesNone`). The invariant `SearchedInv` says of an undisturbed job that the text and
  the range are those it was asked about, and that every match the searcher has been past is answered: by a
  match that overlaps it, in the list or unreadable (`Progress`), and for "Find all" over readable text the list so
  far is the beginning of the left-to-right choice (`Listing`; `GreedyRecursion` and `GreedyBegins` unfold that
  choice window by window). Where the matches cannot overlap, the last of a window is the nearest
  backwards, hence the exception for patterns that overlap themselves (finding 4).
* `ReplacesAll`: that replace-all replaces every match, although it changes the text it searches. The invariant
  `ReplacingInv` says of an undisturbed job that the text it sees is the text it began with, with the matches of
  a list replaced (`PutIn`), that this list is where the left-to-right choice begins (`FoundSoFar`), and that the
  searcher sees the rest of the first text, moved by the change of length so far, and has been past no match
  outside the list (`Ahead`). A step finds in the one text what it would find in the other (`BehindOccurs`,
  `SteppedAhead`); its replacements, made in the text as it is, are those of a longer list in the text as it was
  (`PutInTwice`); and the searcher that a change of length starts anew goes on with nothing between it and
  the old one (`RestartAhead`).
* `ReplaceAllIsOneTransaction`. `AskedInv` remembers the document an undisturbed replace-all began with: what
  the job has made of it since is nothing, or one transaction, which undo takes back.

**The jobs** (`WorkbenchProofs`). `WorkbenchInvariant` proves `WorkInv` and `CompareInv`.

* `NoHalfOutput`. While a job runs, the files differ from those at its start only in what `OutputsOf` reads off
  the job's record: the one file of a text, the parts of a split counted so far and the one that is open, nothing
  for a join, which writes at its end. So what a cancellation, a failure or a closed tab undoes is what was
  done. For a split this needs arithmetic: full parts and the bytes of the open one add up to the position
  (`SplitPlace`), and the parts never outnumber the names (`PartsOf`).
* `DifferencesReported`, an action property. As long as neither tab changed, no place between the cursor and the
  position of the search differs (`CompareInv`), so that the place found is the next difference. `DiffRangesAre`:
  the list of ranges that the highlighting builds, byte by byte, is the set of the longest ranges that
  differ, by induction over the bytes compared.
* `PartsWhole`. The invariant `PartsInv` says of a running split that the parts named so far are the first parts of
  its document and that the open one holds the bytes behind them (`Filled`), of a running join that it has
  written the inputs before the current one and what it read of that (`JoinTells`); and that the inputs are
  still what they were. A piece keeps this wherever the budget cuts it (`SplitPieceTells`, `JoinReadTells`); the
  parts that a step names take the name of none before, since the names differ (`PartsAreWritten`); and
  a job that is over has all of it (`SplitPlace`, `JoinEndsWhole`).
* `PanicsOnlyChanged`. Until its document changes, the range of an analysis ends in the document, so each read gives
  as many bytes as it was asked for (`ReadsWhatIsThere`), a signature reaching at least one byte; a
  step never moves the end of the range, and no job of the tools panel indexes what it read (`ToolsNeverPanic`).
  Both follow the steps of the panels by what they do to the jobs (`EveryStepMoves`).

Only model-checked: that the blocking calls agree (`BlockingCallsAgree`), what the analyses, the reports and
the record files hold (`ResultsAreWhole`, `RecordsReadBack`), and the panels.
Out of the provers' reach here: the liveness properties `JobEnds`, `JobsEnd` and `CallsReturn`, anything
with `ENABLED`, and what a recursive *operator* computes. `Executables` has one (the nodes of a tree, for the
properties), so nothing can be proved in it or in `Panels`; the other modules use recursive functions and folds.
What the recursive functions of the codecs, scanners and reference definitions compute for every input
would need an induction over data for each of them.

## 6. Plan

The modules planned are written; the document, saving, the helper, the editor and its keyboard are proved, of
searching and replacing that they find only matches and miss none, of the jobs that they clean up, lose nothing in
the parts of a file and read only what is there, and of the comparison that it is right. What is left:

1. `BlockingCallsAgree`: the arguments of `FindsAll` and `ReplacesAll` over loops that run in one step, with a
   bound on how many steps such a loop takes.
2. `ResultsAreWhole` and `RecordsReadBack` of the jobs, and round trips of `Words`, `Codecs` and `Bookmarks`, as far as no induction
   over data is needed.

## 7. Not modelled

* Changes to the file by other programs, beyond the notice the editor shows.
* File permissions, the temporary file that a crash leaves behind, and a dialog's choice of a path that does not
  exist yet: the destination of `saving` always exists, so that it has something to lose.
* `BlockCache::invalidate`: nothing calls it. Which block the cache gives up first: with room for one there is no choice.
* Files named on the command line, which replace the session; starting with the restoring of sessions turned off.
* The other names of a recipe's operations, and bars written without blanks around them: a recipe's text is a
  sequence of words, split at the bars, those inside an argument included.
* The parsing of patterns; a tolerance on floats, which takes the same path as a wildcard.
* The bytes of a fill pattern: a filled byte is just an added byte.
* Writing to devices from the window or the command line: both open them read-only; `DeviceSource` has
  the writes because the source offers them. There is no timeout on a request, so none is modelled, and
  a lock poisoned by a panicking thread is left out.
* The instruction decoders, the cryptographic hashes, compression and ciphers: libraries. A decoder is any
  map from addresses to instructions, a hash is the bytes it was fed. Symbol names are abstract.
* Mach-O, imports, exports, resources and TLS of PE, and crash dumps: further tables of records with
  offsets, read as those of ELF and PE that are modelled; modelling them would restate the formats.
* Identification of a file's type by prefix and entropy, the inspector's conversions, character sets
  beyond UTF-8 and UTF-16: functions of a few bytes to a label, with no reference but themselves.
* Disks, the tracer, the shredder: input and output of the operating system. The command line: one call
  at a time of operations modelled here. Rendering, themes, layout, and the text of preferences.
* Two windows of `Panels` open together: each keeps its own state and reads the same tabs.
