--------------------------- MODULE DocumentFiles ---------------------------
(***************************************************************************)
(* A document, the block cache it reads its source through, and the files  *)
(* its tab is saved to: core/src/document/io.rs, cache.rs, source/file.rs  *)
(* and gui/src/app/files.rs (save_active).                                 *)
(*                                                                         *)
(* Saving is synchronous, so the document does not change under it, but    *)
(* every write, sync and rename is a step of its own: the disk may refuse  *)
(* any of them, the process may die between any two, and so may the        *)
(* machine.                                                                *)
(*                                                                         *)
(* A tab has the path of the file it was opened from, or none: a disk,     *)
(* imported records and a new document are read from elsewhere, and their  *)
(* first Save asks for a path.                                             *)
(*                                                                         *)
(* A file holds cells.  The opened file starts as <<"Original", 0>>, ..    *)
(* (the cells the table's original pieces stand for); an added byte is     *)
(* <<"Added", k>>, a byte that was never written is Hole, and the zero that  *)
(* stands in for an unreadable byte is Zero.                               *)
(***************************************************************************)
EXTENDS Document

SE == INSTANCE SequencesExt

CONSTANTS
  BlockSize,      \* bytes per block of the cache
  Capacity,       \* blocks the cache may hold
  MaxSaves,       \* bound: saves begun
  TabPaths,       \* bound: the path a tab starts with, of Opened and NoPath
  SaveAsPaths,    \* bound: the paths chosen in the dialog, of Opened and Other
  Backups,        \* the values of the preference backup_before_save
  BadBlocks,      \* the sets of unreadable blocks the source may have
  DiskMayFail,    \* writes, syncs and renames may be refused
  ReadsMayFail    \* a read may fail for the moment

VARIABLES
  cache,
  file,       \* the files by path: [now |-> cells, durable |-> cells on the disk]
  displaced,  \* by path: the files a lost rename would bring back
  orphan,     \* the source's bytes when no path names it
  linked,     \* the source is the file the opened path names
  bad,        \* unreadable blocks of the source
  tabPath,    \* where the tab saves to, NoPath if it must ask
  backup,     \* whether a save makes a backup first
  save,       \* the save in progress
  saves,      \* saves begun so far, kept below MaxSaves
  alive       \* "running", "crashed" (the process) or "cut" (the machine)

fsvars == <<cache, file, displaced, orphan, linked, bad, tabPath, backup, save, saves, alive>>
docvars == <<doc, panicked, edits>>

Opened == "file"
Other == "other"
NoPath == "none"
Paths == {Opened, Other}

ASSUME CacheAssumption == BlockSize \in Nat \ {0} /\ Capacity \in Nat \ {0}
ASSUME FilesAssumption ==
  /\ TabPaths \subseteq {Opened, NoPath}
  /\ SaveAsPaths \subseteq Paths
  /\ Backups \subseteq BOOLEAN

\* A plausible slip: one backup for every file that is saved.
OneBackup(path) == "file.bak"

BakOf(path) == IF path = Opened THEN "file.bak" ELSE "other.bak"

NewFile(cells) == [now |-> cells, durable |-> cells]
With(f, p, v) == [q \in DOMAIN f \cup {p} |-> IF q = p THEN v ELSE f[q]]

Hole == <<"Hole", 0>>
Zero == <<"Zero", 0>>

Idle == [phase |-> "Idle"]

-----------------------------------------------------------------------------
(* The block cache of a source, cache.rs: the blocks last read, least recently *)
(* used first.  c.blocks is what the source answered, for every cached block; *)
(* c.order the cached indices.  An answer is [kind, data]: the bytes of the   *)
(* block, or an error without data.                                         *)

EmptyCache == [blocks |-> <<>>, order |-> <<>>]

BlockOf(offset) == offset \div BlockSize

\* A plausible slip: every answer is remembered.
RemembersAll(answer) == TRUE

\* ErrorKind::is_cacheable: a bad block stays bad, anything else may pass.
Cacheable(answer) == answer.kind \in {"Ok", "BadBlock", "OutOfBounds"}

\* A cached block is in the order once.
Position(s, i) == CHOOSE k \in 1 .. Len(s) : s[k] = i
Touch(c, i) ==
  LET k == Position(c.order, i)
  IN  [c EXCEPT !.order = SubSeq(@, 1, k - 1) \o SubSeq(@, k + 1, Len(@)) \o <<i>>]

\* How many of the oldest blocks `while order.len() >= capacity` drops.
Evicted(c) == IF Len(c.order) >= Capacity THEN Len(c.order) - Capacity + 1 ELSE 0

Insertion(c, i, answer) ==
  LET gone == {c.order[k] : k \in 1 .. Evicted(c)}
  IN  [blocks |-> [j \in (DOMAIN c.blocks \ gone) \cup {i} |->
                     IF j = i THEN answer ELSE c.blocks[j]],
       order |-> Append(SubSeq(c.order, Evicted(c) + 1, Len(c.order)), i)]

\* The cache after it was asked for block i; `answer` is what it gave out.
Asked(c, i, answer) ==
  IF i \in DOMAIN c.blocks THEN Touch(c, i)
  ELSE IF Cacheable(answer) THEN Insertion(c, i, answer) ELSE c

-----------------------------------------------------------------------------
(* The source.                                                              *)

SourceBytes == IF linked THEN file[Opened].now ELSE orphan
BlockStart(i) == i * BlockSize
BlockLen(i) == Smaller(BlockSize, doc.size - BlockStart(i))

\* FileSource::read_at of one block: an unreadable sector, a passing error, or
\* the bytes the file has now.
SourceAnswers(i) ==
  LET s == BlockStart(i)
  IN  (IF i \in bad THEN {[kind |-> "BadBlock", data |-> <<>>]}
       ELSE {[kind |-> "Ok", data |-> SubSeq(SourceBytes, s + 1, s + BlockLen(i))]})
      \cup (IF ReadsMayFail THEN {[kind |-> "Io", data |-> <<>>]} ELSE {})

Answers(i) == IF i \in DOMAIN cache.blocks THEN {cache.blocks[i]} ELSE SourceAnswers(i)

\* The bytes of an original piece inside one block, zeros if it cannot be read.
Zeros(n) == [k \in 1 .. n |-> Zero]

\* A plausible slip: the copy starts at the block's start, not at the piece's.
FromBlockStart(answer, piece) ==
  IF answer.kind = "Ok" THEN SubSeq(answer.data, 1, piece.len) ELSE Zeros(piece.len)

FromBlock(answer, piece) ==
  IF answer.kind = "Ok"
    THEN LET s == piece.offset - BlockStart(BlockOf(piece.offset))
         IN  SubSeq(answer.data, s + 1, s + piece.len)
    ELSE Zeros(piece.len)

\* An original piece cut at the block boundaries; each part is read at once.
CutAtBlocks(p) ==
  IF p.store = "Added" THEN <<p>>
  ELSE LET first == BlockOf(p.offset)
           last == BlockOf(p.offset + p.len - 1)
       IN  [k \in 1 .. last - first + 1 |->
              Clip(p, p.offset, BlockStart(first + k - 1), BlockStart(first + k))[1]]

Parts(t) == SE!FlattenSeq([k \in 1 .. Len(t) |-> CutAtBlocks(t[k])])

\* Any read of the user (view, search, inspector) asks for blocks under the
\* original pieces, in some order.
ReadBlock ==
  /\ save = Idle
  /\ \E k \in 1 .. Len(Parts(doc.table)) :
       LET part == Parts(doc.table)[k]
           i == BlockOf(part.offset)
       IN  /\ part.store = "Original"
           /\ \E answer \in Answers(i) : cache' = Asked(cache, i, answer)
  /\ UNCHANGED <<doc, panicked, edits, file, displaced, orphan, linked, bad, tabPath,
                 backup, save, saves, alive>>

-----------------------------------------------------------------------------
(* save_active: the backup first, then the choice of how to save.          *)

\* What the steps of a save leave alone until it succeeds.
Rest == <<doc, panicked, edits, displaced, orphan, linked, bad, tabPath, backup, saves, alive>>

BeginSave(path, saveAs) ==
  /\ save = Idle /\ saves < MaxSaves
  /\ saves' = saves + 1
  /\ save' = [phase |-> IF backup /\ path \in DOMAIN file THEN "Backup" ELSE "Choose",
              path |-> path, saveAs |-> saveAs]
  /\ UNCHANGED <<doc, panicked, edits, cache, file, displaced, orphan, linked, bad, tabPath,
                 backup, alive>>

\* Save keeps the tab's path and asks for one if there is none; Save As always
\* asks (the same is allowed).
Save1 ==
  \/ tabPath # NoPath /\ BeginSave(tabPath, FALSE)
  \/ tabPath = NoPath /\ \E path \in SaveAsPaths : BeginSave(path, FALSE)
SaveAs == \E path \in SaveAsPaths : BeginSave(path, TRUE)

\* backup_file: std::fs::copy truncates the target, then fills it; nothing is
\* synced.  If it fails the save is abandoned.
CreateBackup ==
  /\ save.phase = "Backup"
  /\ LET bak == BakOf(save.path)
         was == IF bak \in DOMAIN file THEN file[bak].durable ELSE <<>>
     IN  file' = With(file, bak, [now |-> <<>>, durable |-> was])
  /\ save' = [save EXCEPT !.phase = "Copy"]
  /\ UNCHANGED cache /\ UNCHANGED Rest

CopyBackup ==
  /\ save.phase = "Copy"
  /\ file' = [file EXCEPT ![BakOf(save.path)].now = file[save.path].now]
  /\ save' = [save EXCEPT !.phase = "Choose"]
  /\ UNCHANGED cache /\ UNCHANGED Rest

\* `!save_as && can_save_in_place()`: by the command, not by where the path came
\* from, so that a tab without a path patches the file just chosen.  (Both files
\* exist; save_in_place creates none.)
Patches == ~ save.saveAs /\ CanSaveInPlace(doc.table, doc.size)

Choose ==
  /\ save.phase = "Choose"
  /\ save' = IF Patches
               THEN [phase |-> "Patch", path |-> save.path, left |-> DirtyRanges(doc.table)]
               ELSE [phase |-> "Stream", path |-> save.path, left |-> Parts(doc.table),
                     tmp |-> [now |-> <<>>, durable |-> <<>>], unreadable |-> FALSE]
  /\ UNCHANGED <<cache, file>> /\ UNCHANGED Rest

Saved(path) ==
  /\ doc' = MarkSaved(doc)
  /\ tabPath' = path
  /\ save' = Idle

-----------------------------------------------------------------------------
(* save_in_place: one pwrite per dirty range, then a sync.                  *)

\* pwrite of `cells` at `at`: a gap past the end is filled with holes.
Overlaid(f, at, cells) ==
  [i \in 1 .. Larger(Len(f), at + Len(cells)) |->
     IF at < i /\ i <= at + Len(cells) THEN cells[i - at]
     ELSE IF i <= Len(f) THEN f[i] ELSE Hole]

RangeBytes(r) == Content(PiecesIn(doc.table, r[1], r[2]))

WriteRange ==
  /\ save.phase = "Patch" /\ save.left # <<>>
  /\ file' = [file EXCEPT ![save.path].now =
                Overlaid(@, save.left[1][1], RangeBytes(save.left[1]))]
  /\ save' = [save EXCEPT !.left = Tail(@)]
  /\ UNCHANGED cache /\ UNCHANGED Rest

SyncPatched ==
  /\ save.phase = "Patch" /\ save.left = <<>>
  /\ file' = [file EXCEPT ![save.path].durable = file[save.path].now]
  /\ Saved(save.path)
  /\ UNCHANGED <<panicked, edits, cache, displaced, orphan, linked, bad, backup, saves, alive>>

-----------------------------------------------------------------------------
(* save_as: the document is streamed into a temporary file, synced, and     *)
(* renamed over the destination.                                           *)

\* A plausible slip: an error is only what the cache would remember.
BadAnswerIfCached(answer) == answer.kind = "BadBlock"

BadAnswer(answer) == answer.kind # "Ok"

\* One more part is in the temporary file.
Streamed(s, bytes, isBad) ==
  [s EXCEPT !.left = Tail(@), !.tmp.now = @ \o bytes, !.unreadable = @ \/ isBad]

StreamPart ==
  /\ save.phase = "Stream" /\ save.left # <<>>
  /\ LET part == save.left[1]
         i == BlockOf(part.offset)
     IN  IF part.store = "Added"
           THEN /\ save' = Streamed(save, Bytes(part), FALSE)
                /\ UNCHANGED cache
           ELSE \E answer \in Answers(i) :
                  /\ cache' = Asked(cache, i, answer)
                  /\ save' = Streamed(save, FromBlock(answer, part), BadAnswer(answer))
  /\ UNCHANGED file /\ UNCHANGED Rest

\* A plausible slip: the rename comes before the data has reached the disk.
SyncsNothing(f) == f
SyncsData(f) == NewFile(f.now)

\* "save aborted": the temporary file is dropped.
Refuse ==
  /\ save.phase = "Stream" /\ save.left = <<>> /\ save.unreadable
  /\ save' = Idle
  /\ UNCHANGED <<cache, file>> /\ UNCHANGED Rest

SyncTemporary ==
  /\ save.phase = "Stream" /\ save.left = <<>> /\ ~ save.unreadable
  /\ save' = [phase |-> "Rename", path |-> save.path, tmp |-> SyncsData(save.tmp)]
  /\ UNCHANGED <<cache, file>> /\ UNCHANGED Rest

\* A file after the machine stopped: of the cells written since the last sync
\* any may have reached the disk, and its length may be the old or the new one.
Torn(f, n, reached) ==
  [k \in 1 .. n |-> IF k <= Len(f.now) /\ k \in reached THEN f.now[k]
                    ELSE IF k <= Len(f.durable) THEN f.durable[k] ELSE Hole]

Survivors(f) ==
  IF f.now = f.durable THEN {f}
  ELSE {NewFile(Torn(f, n, reached)) :
          n \in {Len(f.now), Len(f.durable)}, reached \in SUBSET (1 .. Len(f.now))}

\* The directory is never synced, so the machine may forget the rename.  The
\* source keeps reading the file it opened, which may have lost its name.
Rename ==
  /\ save.phase = "Rename"
  /\ file' = [file EXCEPT ![save.path] = save.tmp]
  /\ displaced' = [displaced EXCEPT ![save.path] = @ \cup Survivors(file[save.path])]
  /\ orphan' = IF save.path = Opened /\ linked THEN file[Opened].now ELSE orphan
  /\ linked' = (linked /\ save.path # Opened)
  /\ Saved(save.path)
  /\ UNCHANGED <<panicked, edits, cache, bad, backup, saves, alive>>

-----------------------------------------------------------------------------
(* What may go wrong: a step of the save is refused, or there is no next    *)
(* step.                                                                   *)

\* A refused copy or write may have done any part of its work.
Fail ==
  /\ DiskMayFail /\ save # Idle /\ save.phase # "Choose"
  /\ \/ UNCHANGED file
     \/ /\ save.phase = "Copy"
        /\ \E n \in 1 .. Len(file[save.path].now) - 1 :
             file' = [file EXCEPT ![BakOf(save.path)].now = SubSeq(file[save.path].now, 1, n)]
     \/ /\ save.phase = "Patch" /\ save.left # <<>>
        /\ LET cells == RangeBytes(save.left[1])
           IN  \E n \in 1 .. Len(cells) - 1 :
                 file' = [file EXCEPT ![save.path].now =
                            Overlaid(@, save.left[1][1], SubSeq(cells, 1, n))]
  /\ save' = Idle
  /\ UNCHANGED cache /\ UNCHANGED Rest

\* What the process had in memory is gone; the counters with it.
Die(how) ==
  /\ alive' = how
  /\ doc' = NewDocument(doc.size, TRUE) /\ cache' = EmptyCache /\ save' = Idle
  /\ linked' = TRUE /\ orphan' = <<>> /\ tabPath' = Opened
  /\ displaced' = [p \in Paths |-> {}]
  /\ edits' = 0 /\ saves' = 0
  /\ UNCHANGED <<panicked, bad, backup>>

Crash == Die("crashed") /\ UNCHANGED file

AfterCut(p) == Survivors(file[p]) \cup displaced[p]

\* Between two saves the disk holds what the last one left it, so a cut there
\* shows nothing new unless a rename may be lost.  Backups are never synced and
\* are not followed past a cut.
PowerCut ==
  /\ save # Idle \/ \E p \in Paths : displaced[p] # {}
  /\ Die("cut")
  /\ \E opened \in AfterCut(Opened), other \in AfterCut(Other) :
       file' = [p \in Paths |-> IF p = Opened THEN opened ELSE other]

-----------------------------------------------------------------------------
FInit ==
  /\ Init
  /\ tabPath \in TabPaths
  /\ doc.resizable \/ tabPath = NoPath
  /\ cache = EmptyCache
  /\ file = [p \in Paths |->
               NewFile(IF p = tabPath THEN Content(doc.table) ELSE <<<<"Foreign", 0>>>>)]
  /\ displaced = [p \in Paths |-> {}]
  /\ linked = (tabPath = Opened)
  /\ orphan = IF linked THEN <<>> ELSE Content(doc.table)
  /\ bad \in BadBlocks
  /\ backup \in Backups
  /\ save = Idle
  /\ saves = 0
  /\ alive = "running"

\* Merging two transactions changes no byte; Document alone covers it.
UserStep ==
  /\ save = Idle
  /\ \/ \E offset \in Offsets, n \in Sizes : EditAt(offset, n)
     \/ UndoStep \/ RedoStep
  /\ UNCHANGED fsvars

Begin == Save1 \/ SaveAs
Work == save # Idle /\ (\/ CreateBackup \/ CopyBackup \/ WriteRange
                       \/ StreamPart \/ Refuse \/ SyncTemporary)
Succeed == save # Idle /\ (SyncPatched \/ Rename)

FNext ==
  /\ alive = "running" /\ ~ panicked
  /\ \/ UserStep \/ ReadBlock
     \/ Begin \/ (save # Idle /\ Choose) \/ Work \/ Succeed
     \/ Fail \/ Crash \/ PowerCut

FSpec == FInit /\ [][FNext]_<<docvars, fsvars>>
=============================================================================
