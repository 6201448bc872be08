--------------------------- MODULE SavingHistory ---------------------------
(***************************************************************************)
(* DocumentFiles with history variables on what has been saved, by path:   *)
(*                                                                         *)
(*   held     what the file held after the last successful save (or open)  *)
(*   versions everything it held before                                    *)
(*   meant    the document at that save                                    *)
(*   tries    saves begun since                                            *)
(*   patching a save in place has begun, and no save has succeeded since   *)
(*   buried   a file was replaced while it was patched: the machine may     *)
(*            forget the rename and bring it back                          *)
(***************************************************************************)
EXTENDS DocumentFiles, FiniteSets

VARIABLES held, versions, meant, tries, patching, buried
savehistory == <<held, versions, meant, tries, patching, buried>>
svars == <<docvars, fsvars, savehistory>>

SInit ==
  /\ FInit
  /\ held = [p \in Paths |-> file[p].now]
  /\ versions = [p \in Paths |-> {}]
  /\ meant = held
  /\ tries = [p \in Paths |-> 0]
  /\ patching = [p \in Paths |-> FALSE]
  /\ buried = [p \in Paths |-> FALSE]

SBegin ==
  /\ Begin
  /\ tries' = [tries EXCEPT ![save'.path] = @ + 1]
  /\ UNCHANGED <<held, versions, meant, patching, buried>>

SChoose ==
  /\ save # Idle /\ Choose
  /\ patching' = [patching EXCEPT ![save.path] = @ \/ save'.phase = "Patch"]
  /\ UNCHANGED <<held, versions, meant, tries, buried>>

SSucceed ==
  /\ Succeed
  /\ LET p == save.path
     IN  /\ versions' = [versions EXCEPT ![p] = @ \cup {held[p]}]
         /\ held' = [held EXCEPT ![p] = file'[p].now]
         /\ meant' = [meant EXCEPT ![p] = Content(doc.table)]
         /\ tries' = [tries EXCEPT ![p] = 0]
         /\ patching' = [patching EXCEPT ![p] = FALSE]
         /\ buried' = [buried EXCEPT ![p] = @ \/ (patching[p] /\ save.phase = "Rename")]

SOther ==
  /\ UserStep \/ ReadBlock \/ Work \/ Fail \/ Crash \/ PowerCut
  /\ UNCHANGED savehistory

SNext ==
  /\ alive = "running" /\ ~ panicked
  /\ SBegin \/ SChoose \/ SSucceed \/ SOther

SSpec == SInit /\ [][SNext]_svars

-----------------------------------------------------------------------------
\* The offsets of the source that a save in place has overwritten.
Overwritten == {i \in 0 .. doc.size - 1 : SourceBytes[i + 1] # <<"Original", i>>}

Cells(s) == {s[k] : k \in 1 .. Len(s)}
Sourced(t) == {c[2] : c \in {x \in Cells(Content(t)) : x[1] = "Original"}}

\* The added bytes of the document are at their offsets.
CarriesTheEdits(cells) ==
  LET d == Content(doc.table)
  IN  \A i \in 1 .. Len(d) : d[i][1] = "Added" => i <= Len(cells) /\ cells[i] = d[i]

\* The file at `path` is the one the source reads.
IsTheSource(path) == linked /\ path = Opened

\* A successful save leaves exactly the document in the file, on the disk, as long
\* as no byte the document takes from its source has been overwritten there: when
\* it streams, from any source into any file; when it patches, into the file the
\* source reads (document/io.rs:54-55, 92-98, 172-174).  A patch of another file
\* leaves every edited byte at its offset, and nothing else of the document;
\* save_active makes one after a rename (SavedFileIsTheDocument), and at the first
\* Save of a tab without a path, against files.rs:83 and 239.
SavesTheDocument ==
  [][Succeed =>
       /\ Sourced(doc.table) \cap Overwritten = {}
          /\ (save.phase = "Patch" => IsTheSource(save.path))
            => file'[save.path] = NewFile(Content(doc.table))
       /\ save.phase = "Patch" => CarriesTheEdits(file'[save.path].now)]_svars

\* The zeros that stand in for unreadable bytes reach no file
\* (document/io.rs:96-98).
UnreadableNeverSaved == \A p \in DOMAIN file : Zero \notin Cells(file[p].now)

\* Without a save in place, a file holds a saved version at every moment, even
\* when the machine stops in the middle of a save (document/io.rs:92-94).
RewriteIsAtomic ==
  \A p \in Paths : ~ patching[p] =>
    IF alive # "cut" THEN file[p].now = held[p]
                     ELSE buried[p] \/ file[p].now \in {held[p]} \cup versions[p]

\* With backups on, the first save that goes wrong leaves the version before it
\* in the file or in its backup (document/io.rs:201-203).
BackupKeepsThePrevious ==
  \A p \in Paths : backup /\ alive # "cut" /\ tries[p] <= 1 =>
    \/ file[p].now = held[p]
    \/ BakOf(p) \in DOMAIN file /\ file[BakOf(p)].now = held[p]

\* The cache's two structures name the same blocks, within the capacity; a
\* cached block is what the source holds, except for the bytes a save has
\* overwritten since, and a cached error is a permanent one (cache.rs:62-75,
\* error.rs:27-31).
CacheIsTruthful ==
  /\ Len(cache.order) <= Capacity
  /\ Len(cache.order) = Cardinality(DOMAIN cache.blocks)
  /\ DOMAIN cache.blocks = Cells(cache.order)
  /\ \A i \in DOMAIN cache.blocks :
       LET answer == cache.blocks[i]
       IN  /\ answer.kind = "BadBlock" <=> i \in bad
           /\ answer.kind # "Io"
           /\ answer.kind = "Ok" => \A k \in 1 .. Len(answer.data) :
                \/ BlockStart(i) + k - 1 \in Overwritten
                \/ answer.data[k] = SourceBytes[BlockStart(i) + k]

-----------------------------------------------------------------------------
\* gui/src/app/files.rs:121: a save over the same file with an unchanged size
\* writes only the dirty bytes; so the rest is there already, and a saved file is
\* the document, at least while the source is what it was.
SavedFileIsTheDocument ==
  alive = "running" /\ Overwritten = {} =>
    \A p \in Paths : tries[p] = 0 => file[p].now = meant[p]
=============================================================================
