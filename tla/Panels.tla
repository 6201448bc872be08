------------------------------- MODULE Panels --------------------------------
(***************************************************************************)
(* The windows of the editor that show what the core makes of the active    *)
(* document: the structure tree (gui/src/structure.rs), the disassembly     *)
(* (gui/src/disasm.rs), the function diff (gui/src/bindiff.rs), the recipe  *)
(* (gui/src/recipe.rs) and the bookmarks (gui/src/app/frame.rs, dialogs.rs, *)
(* files.rs).                                                               *)
(*                                                                         *)
(* All but the bookmarks cache their result under a key and look at the key *)
(* again in every frame; between frames the user edits, switches and closes *)
(* tabs.  A step of this module is what the user does in a frame, or the    *)
(* drawing of the next one.  Tabs are counted from 1.                       *)
(***************************************************************************)
EXTENDS FunctionDiff, Recipes, Bookmarks

CONSTANTS
  Images,        \* the contents that documents have
  EditsOf,       \* bound: what an edit makes of a content, by its index
  InitialTabs,   \* bound: by window, the sequences of contents of the open tabs
  Selections,    \* bound: the selections <<from, to>>
  Composed,      \* bound: the operations of the steps after the first
  Arguments,     \* bound: the arguments typed, sequences of words
  Names,         \* bound: the names of bookmarks typed, trimmed
  Descriptions,  \* bound: their descriptions
  Paths,         \* the paths of files
  ContentAt,     \* the content of the files at the start
  Sidecars,      \* bound: what the sidecar files hold at the start
  NoPath,
  MaxTabs, MaxSteps, MaxMarks, MaxMoves   \* bounds

VARIABLES
  open,          \* the window that is open: bound, one and the same
  tabs, active,
  window,        \* the state of that window
  drawn,         \* the frame after what the user did was drawn
  disturbed,     \* since it computed, its document changed under the same key
  disk,          \* by path: the content of the file
  sidecars,      \* by path: the sidecar file
  written,       \* by path: the marks that the last save of them held
  moves

panelvars == <<open, tabs, active, window, drawn, disturbed, disk, sidecars, written, moves>>

Windows == {"structure", "disasm", "recipe", "bindiff", "bookmarks"}

NewTab(content, path, marks) ==
  [content |-> content, checksum |-> Images[content].stored, cursor |-> 0, selection |-> <<>>,
   path |-> path, marks |-> marks]
ImageOf(tab) == Images[tab.content]
Size(tab) == ImageOf(tab).size
InfoOf(tab) == Parse(ImageOf(tab), tab.checksum)
IsOpen(ts, i) == i \in DOMAIN ts

\* A plausible slip: the key names the tab alone.
TabKey(ts, a) == IF IsOpen(ts, a) THEN <<a>> ELSE <<>>

\* What the tree and the listing are cached under.
KeyOfTab(ts, a) == IF IsOpen(ts, a) THEN <<a, Size(ts[a])>> ELSE <<>>

(***************************************************************************)
(* What each window does in a frame before it draws.                        *)
(***************************************************************************)
NoTree == [result |-> Refused, parsed |-> <<>>, force |-> FALSE]

StructureFrame(w, ts, a) ==
  IF ~ w.force /\ w.parsed = KeyOfTab(ts, a) THEN w
  ELSE [result |-> IF IsOpen(ts, a) THEN InfoOf(ts[a]) ELSE Refused,
        parsed |-> KeyOfTab(ts, a), force |-> FALSE]

DisasmFrame(w, ts, a) ==
  IF IsOpen(ts, a) THEN SectionsEnsured(w, KeyOfTab(ts, a), InfoOf(ts[a])) ELSE w

RecipeFrame(w, ts, a) ==
  IF IsOpen(ts, a) THEN Recomputed(w, ImageOf(ts[a]).bytes, ts[a].selection, FALSE) ELSE w

NoDiff == [other |-> 0, result |-> [there |-> FALSE], pair |-> <<>>]
\* The other tab is never the active one, and always open.
BindiffFrame(w, ts, a) ==
  IF w.other = a \/ ~ IsOpen(ts, w.other) THEN [w EXCEPT !.other = 0] ELSE w

Redrawn(w, ts, a) ==
  CASE open = "structure" -> StructureFrame(w, ts, a)
    [] open = "disasm" -> DisasmFrame(w, ts, a)
    [] open = "recipe" -> RecipeFrame(w, ts, a)
    [] open = "bindiff" -> BindiffFrame(w, ts, a)
    [] OTHER -> w

\* The key of what the window shows.
KeyOfWindow(w) ==
  CASE open = "structure" -> w.parsed
    [] open = "disasm" -> w.forTab
    [] open = "recipe" -> w.lastSig
    [] open = "bindiff" -> w.pair
    [] OTHER -> <<>>

Forced(w) == open = "structure" /\ w.force

\* The user did something, which the next frame shows.
Then(ts, a, w, disturbs) ==
  /\ tabs' = ts
  /\ active' = a
  /\ window' = w
  /\ disturbed' = (disturbed \/ disturbs)
  /\ drawn' = FALSE
  /\ moves' = moves + 1
  /\ UNCHANGED open
\* A result was computed, of the documents as they are.
Computed(w) ==
  /\ window' = w
  /\ disturbed' = FALSE
  /\ drawn' = FALSE
  /\ moves' = moves + 1
  /\ UNCHANGED <<open, tabs, active>>

\* The next frame.  A window that finds its key changed, or that was asked to,
\* shows the documents as they are.
Draw ==
  /\ ~ drawn
  /\ window' = Redrawn(window, tabs, active)
  /\ disturbed' = (disturbed /\ KeyOfWindow(window') = KeyOfWindow(window) /\ ~ Forced(window))
  /\ drawn' = TRUE
  /\ UNCHANGED <<open, tabs, active, disk, sidecars, written, moves>>

Files == <<disk, sidecars, written>>
Marks == <<sidecars, written>>
Ready == drawn /\ moves < MaxMoves
May(name) == Ready /\ open = name /\ IsOpen(tabs, active)

(***************************************************************************)
(* Tabs and edits.                                                          *)
(***************************************************************************)
SwitchTab(i) ==
  /\ Ready /\ IsOpen(tabs, i) /\ i # active
  /\ Then(tabs, i, window, open = "recipe")
  /\ UNCHANGED Files

\* The tabs after the closed one move down; the active index is only clamped.
CloseTab(i) ==
  LET left == RemoveAt(tabs, i)
      a == IF active > Len(left) THEN Len(left) ELSE active
  IN  /\ Ready /\ IsOpen(tabs, i)
      /\ Then(left, a, window, TRUE)
      /\ UNCHANGED Files

EditActive(content) ==
  /\ Ready /\ IsOpen(tabs, active) /\ content \in EditsOf[tabs[active].content]
  /\ LET tab == [tabs[active] EXCEPT !.content = content, !.checksum = Images[content].stored,
                                     !.selection = <<>>,
                                     !.cursor = Least(@, Images[content].size)]
     IN  Then([tabs EXCEPT ![active] = tab], active, window,
              open \in {"recipe", "bindiff"} \/ Images[content].size = Size(tabs[active]))
  /\ UNCHANGED Files

SelectBytes(range) ==
  /\ open \in {"recipe", "bookmarks"} /\ May(open) /\ range[2] <= Size(tabs[active])
  /\ tabs[active].selection # range
  /\ Then([tabs EXCEPT ![active].selection = range, ![active].cursor = range[2]], active, window, FALSE)
  /\ UNCHANGED Files

(***************************************************************************)
(* Structure.                                                               *)
(***************************************************************************)
Reparse ==
  /\ May("structure")
  /\ Then(tabs, active, [window EXCEPT !.force = TRUE], FALSE)
  /\ UNCHANGED Files

\* The checksum is written into the document, and the tree parsed anew.
FixChecksum ==
  LET fixed == PeChecksum(ImageOf(tabs[active]))
  IN  /\ May("structure") /\ window.result.ok /\ window.result.format = "Pe"
      /\ fixed.ok
      /\ Then([tabs EXCEPT ![active].checksum = fixed.value], active, [window EXCEPT !.force = TRUE], FALSE)
      /\ UNCHANGED Files

(***************************************************************************)
(* Disassembly.                                                             *)
(***************************************************************************)
ChooseMode(recursive) ==
  /\ May("disasm") /\ window.recursive # recursive
  /\ Then(tabs, active, [window EXCEPT !.recursive = recursive], FALSE)
  /\ UNCHANGED Files
ChooseSection(name) ==
  /\ May("disasm") /\ name \in window.sections \cup {"auto"} /\ name # window.section
  /\ Then(tabs, active, [window EXCEPT !.section = name], FALSE)
  /\ UNCHANGED Files
Disassemble ==
  /\ May("disasm")
  /\ \E built \in {BuiltListing(ImageOf(tabs[active]), InfoOf(tabs[active]), window.recursive,
                                window.section)} :
       Computed([window EXCEPT !.result = [there |-> TRUE, built |-> built]])
  /\ UNCHANGED Files

(***************************************************************************)
(* Recipe.                                                                  *)
(***************************************************************************)
ChangeSteps(steps) ==
  /\ May("recipe")
  /\ Then(tabs, active, [window EXCEPT !.steps = steps], FALSE)
  /\ UNCHANGED Files
AddStep == open = "recipe" /\ Len(window.steps) < MaxSteps /\ ChangeSteps(Append(window.steps, NewStep))
\* Bound: the operation and its argument are chosen together.
SetStep(i, op, arg) ==
  /\ open = "recipe" /\ i \in DOMAIN window.steps
  /\ op \in TakesArgument \/ arg = window.steps[i].arg
  /\ i > 1 => op \in Composed
  /\ ChangeSteps([window.steps EXCEPT ![i] = [op |-> op, arg |-> arg]])
RemoveStep(i) == open = "recipe" /\ i \in DOMAIN window.steps /\ ChangeSteps(RemoveAt(window.steps, i))
MoveStepUp(i) ==
  /\ open = "recipe" /\ i \in DOMAIN window.steps /\ i > 1
  /\ ChangeSteps([window.steps EXCEPT ![i - 1] = window.steps[i], ![i] = window.steps[i - 1]])
ClearSteps == open = "recipe" /\ window.steps # <<>> /\ ChangeSteps(<<>>)
ToggleSelection ==
  /\ May("recipe")
  /\ Then(tabs, active, [window EXCEPT !.inSelection = ~ @], FALSE)
  /\ UNCHANGED Files
ApplyRecipe ==
  /\ May("recipe")
  /\ Computed(Recomputed(window, ImageOf(tabs[active]).bytes, tabs[active].selection, TRUE))
  /\ UNCHANGED Files

(***************************************************************************)
(* Function diff.                                                           *)
(***************************************************************************)
PickOther(i) ==
  /\ May("bindiff") /\ IsOpen(tabs, i) /\ i \notin {active, window.other}
  /\ Then(tabs, active, [window EXCEPT !.other = i], FALSE)
  /\ UNCHANGED Files

SectionsOf(info) == IF info.ok THEN info.sections ELSE <<>>
CompareWith(a, b, infoA, infoB) ==
  Computed([window EXCEPT !.pair = <<active, window.other>>,
              !.result = [there |-> TRUE, diff |-> FunctionDiff(ImageOf(a), infoA, ImageOf(b), infoB),
                          sectionsA |-> SectionsOf(infoA), sectionsB |-> SectionsOf(infoB)]])
Compare ==
  /\ May("bindiff") /\ window.other # 0
  /\ LET a == tabs[active]
         b == tabs[window.other]
     IN  CompareWith(a, b, InfoOf(a), InfoOf(b))
  /\ UNCHANGED Files

\* A click on a function of the report: the tab it is in, and its address.
Clickable(report, pair) ==
  {<<pair[1], report.functionsA[i].address>> : i \in DOMAIN report.functionsA}
    \cup {<<pair[2], report.functionsB[report.added[k]].address>> : k \in DOMAIN report.added}
Navigate(ti, va) ==
  LET sections == IF ti = window.pair[1] THEN window.result.sectionsA ELSE window.result.sectionsB
      bytes == VaToFile(sections, va, 1)
  IN  /\ May("bindiff") /\ Len(tabs) >= 2
      /\ bytes # <<>> /\ IsOpen(tabs, ti)
      /\ Then([tabs EXCEPT ![ti].cursor = Least(bytes[1], Size(tabs[ti])), ![ti].selection = <<>>],
              ti, window, FALSE)
      /\ UNCHANGED Files
NavigateToFunction ==
  /\ open = "bindiff" /\ window.result.there /\ window.result.diff.ok
  /\ \E target \in Clickable(window.result.diff.report, window.pair) : Navigate(target[1], target[2])

(***************************************************************************)
(* Bookmarks.                                                               *)
(***************************************************************************)
Lost == [there |-> FALSE]
Held(marks) == [there |-> TRUE, marks |-> marks]

\* Writing the sidecar truncates it first: a write that fails leaves it empty.
Persisted(path, marks) ==
  \/ path = NoPath /\ UNCHANGED Marks
  \/ /\ path # NoPath
     /\ sidecars' = [sidecars EXCEPT ![path] = Save(marks)]
     /\ written' = [written EXCEPT ![path] = Held(marks)]
  \/ /\ path # NoPath
     /\ sidecars' = [sidecars EXCEPT ![path] = FileOf(<<>>)]
     /\ written' = [written EXCEPT ![path] = Lost]

Marking(marks) ==
  /\ Then([tabs EXCEPT ![active].marks = marks], active, window, FALSE)
  /\ Persisted(tabs[active].path, marks)
  /\ UNCHANGED disk

\* Over the selection, or at the cursor.
AddBookmark(name, description) ==
  LET tab == tabs[active]
      range == IF tab.selection = <<>> THEN <<tab.cursor, tab.cursor>> ELSE tab.selection
  IN  /\ May("bookmarks") /\ name # <<>> /\ Len(tab.marks) < MaxMarks
      /\ Marking(AddMark(tab.marks, [offset |-> range[1], len |-> range[2] - range[1],
                                     name |-> name, description |-> description]))
RemoveBookmark(i) ==
  /\ May("bookmarks") /\ i \in DOMAIN tabs[active].marks
  /\ Marking(RemoveMark(tabs[active].marks, i))

ClickBookmark(i) ==
  LET mark == tabs[active].marks[i]
      to == Least(mark.offset + mark.len, Size(tabs[active]))
      from == Least(mark.offset, Size(tabs[active]))
  IN  /\ May("bookmarks") /\ i \in DOMAIN tabs[active].marks
      /\ Then([tabs EXCEPT ![active].cursor = to,
                           ![active].selection = IF mark.len = 0 \/ from = to THEN <<>> ELSE <<from, to>>],
              active, window, FALSE)
      /\ UNCHANGED Files

\* What a sidecar that cannot be read holds is not missed.
OpenPath(path) ==
  LET loaded == Load(sidecars[path])
  IN  /\ open = "bookmarks" /\ Ready /\ Len(tabs) < MaxTabs
      /\ Then(Append(tabs, NewTab(disk[path], path, IF loaded.ok THEN loaded.marks ELSE <<>>)),
              Len(tabs) + 1, window, FALSE)
      /\ UNCHANGED Files

\* The document was saved: its marks follow, unless there are none.
SaveTo(path) ==
  /\ May("bookmarks")
  /\ Then([tabs EXCEPT ![active].path = path], active, window, FALSE)
  /\ disk' = [disk EXCEPT ![path] = tabs[active].content]
  /\ IF tabs[active].marks = <<>> THEN UNCHANGED Marks ELSE Persisted(path, tabs[active].marks)

(***************************************************************************)
(* The specification.                                                       *)
(***************************************************************************)
NothingShown ==
  CASE open = "structure" -> NoTree
    [] open = "disasm" -> NoDisasm
    [] open = "recipe" -> NoRecipe
    [] open = "bindiff" -> NoDiff
    [] OTHER -> [there |-> FALSE]

PanelsInit ==
  /\ open \in Windows
  /\ \E contents \in InitialTabs[open] :
       tabs = [i \in DOMAIN contents |-> NewTab(contents[i], NoPath, <<>>)]
  /\ active = Len(tabs)
  /\ window = NothingShown
  /\ drawn = FALSE
  /\ disturbed = FALSE
  /\ IF open = "bookmarks" THEN sidecars \in Sidecars ELSE sidecars = [p \in Paths |-> NoFile]
  /\ disk = ContentAt
  /\ written = [p \in Paths |-> Lost]
  /\ moves = 0

PanelsNext ==
  \/ \E i \in 1 .. MaxTabs : SwitchTab(i) \/ CloseTab(i) \/ PickOther(i)
  \/ \E content \in DOMAIN Images : EditActive(content)
  \/ \E range \in Selections : SelectBytes(range)
  \/ Draw
  \/ Reparse
  \/ FixChecksum
  \/ \E recursive \in BOOLEAN : ChooseMode(recursive)
  \/ open = "disasm" /\ \E name \in window.sections \cup {"auto"} : ChooseSection(name)
  \/ Disassemble
  \/ AddStep
  \/ \E i \in 1 .. MaxSteps : RemoveStep(i) \/ MoveStepUp(i)
  \/ \E i \in 1 .. MaxSteps, op \in ToSet(Menu), arg \in Arguments : SetStep(i, op, arg)
  \/ ClearSteps
  \/ ToggleSelection
  \/ ApplyRecipe
  \/ Compare
  \/ NavigateToFunction
  \/ \E name \in Names, description \in Descriptions : AddBookmark(name, description)
  \/ \E i \in 1 .. MaxMarks : RemoveBookmark(i) \/ ClickBookmark(i)
  \/ \E path \in Paths : OpenPath(path) \/ SaveTo(path)

PanelsSpec == PanelsInit /\ [][PanelsNext]_panelvars

-----------------------------------------------------------------------------
(* What the windows of Panels promise about what they show. *)
(***************************************************************************)
(* Structure.                                                               *)
(***************************************************************************)
\* The checksum as it is documented: the file as 16-bit words, the field zero,
\* added modulo 65535 (but never 0 unless all words are), plus the length.
DocumentedChecksum(img) ==
  LET Byte(i) == IF i \in FieldOffset(img) .. FieldOffset(img) + 3 \/ i >= img.size THEN 0
                 ELSE img.bytes[i + 1]
      Word(k) == Byte(2 * k) + 256 * Byte(2 * k + 1)
      add[k \in 0 .. (img.size + 1) \div 2] ==
        IF k = 0 THEN 0 ELSE (add[k - 1] + Word(k - 1)) % 65535
      anything == \E k \in 0 .. (img.size + 1) \div 2 : Word(k) # 0
      sum == add[(img.size + 1) \div 2]
  IN  (IF sum = 0 /\ anything THEN 65535 ELSE sum) + img.size

\* Tables of relocations may lie in the file in any order, and the group over
\* them then has no extent.
Inside(node, outer) ==
  node.lo >= node.hi \/ (outer.lo <= node.lo /\ node.hi <= outer.hi)
Nested(node) == \A m \in NodesOf(node) : \A k \in DOMAIN m.kids :
                  m.lo >= m.hi \/ Inside(m.kids[k], m)

\* structure.rs:8 and tree.rs: clicking a field selects the bytes it was read
\* from.  Whatever was edited, switched and closed since, every field shown lies
\* inside the active document and inside its parent; the tree is the one of the
\* document as it is now unless that document was overwritten, or replaced by
\* a closing, at the same length since; and a checksum that was recomputed
\* (structure.rs:100) is shown where the parser reads it, with the value that
\* the bytes of the file imply.
TreesShowTheFile ==
  (open = "structure" /\ drawn /\ window.result.ok /\ IsOpen(tabs, active)) =>
    LET tab == tabs[active]
        tree == window.result.tree
    IN  /\ \A m \in NodesOf(tree) : m.lo >= m.hi \/ (0 <= m.lo /\ m.hi <= Size(tab))
        /\ Nested(tree)
        /\ ~ disturbed => window.result = InfoOf(tab)
        /\ (~ disturbed /\ window.result.format = "Pe" /\ PeChecksum(ImageOf(tab)).ok) =>
             /\ window.result.checksum.at = PeChecksum(ImageOf(tab)).at
             /\ tab.checksum # ImageOf(tab).stored =>
                  window.result.checksum.value = DocumentedChecksum(ImageOf(tab))

(***************************************************************************)
(* Disassembly.                                                             *)
(***************************************************************************)
Disjoint(regions) ==
  \A i, j \in DOMAIN regions : i # j => Addresses(regions[i]) \cap Addresses(regions[j]) = {}
SpanOf(va, insn) == va .. va + insn.len - 1

\* Every byte of the regions belongs to exactly one instruction.
Tiled(listing) ==
  LET insns == listing.insns
      covered == UNION {SpanOf(va, insns[va].insn) : va \in DOMAIN insns}
      width == FoldSet(LAMBDA va, n : n + insns[va].insn.len, 0, DOMAIN insns)
  IN  /\ covered = Space(listing.regions)
      /\ width = Cardinality(covered)

\* Where control may go from an instruction, as disasm.rs:58 describes the flows.
MayFollow(va, insn) ==
  (IF insn.flow \in {"Normal", "Call", "CondJump"} THEN {va + insn.len} ELSE {})
    \cup (IF insn.flow \in {"Jump", "Call", "CondJump"} THEN {insn.target} \ {NoTarget} ELSE {})

\* The addresses that the walk starts from: those of the functions and the
\* entry point, or the sections when none of them is in one.
StartsOf(info, regions) ==
  LET seeds == {va \in {s.value : s \in {f \in ToSet(info.symbols) : IsFunction(f)}} \cup {info.entry} :
                  va # 0 /\ va \in Space(regions)}
  IN  IF seeds # {} THEN seeds ELSE {regions[i].vaddr : i \in DOMAIN regions}

\* What is reachable from the starts and nothing else.
Explored(listing, code, starts) ==
  LET found == DOMAIN listing.insns
  IN  /\ starts \subseteq found
      /\ \A va \in found \cap DOMAIN code :
           MayFollow(va, code[va]) \cap Space(listing.regions) \subseteq found
      /\ \A va \in found \ starts :
           \E from \in found : va \in MayFollow(from, listing.insns[from].insn)

\* A click on an instruction selects the bytes it was decoded from.
SelectsItsBytes(img, code, va, entry) ==
  (entry.file # <<>> /\ va \in DOMAIN code) =>
    img.code[entry.file[1]] = entry.insn /\ entry.file[2] - entry.file[1] = entry.insn.len

\* What a listing shows of the image and its symbols.
IsComplete(img, info, listing, code) ==
  /\ IF listing.linear THEN Tiled(listing) ELSE Explored(listing, code, StartsOf(info, listing.regions))
  /\ listing.xrefs = {<<listing.insns[va].insn.target, va>> :
                        va \in {v \in DOMAIN listing.insns : listing.insns[v].insn.target # NoTarget}}
  /\ \A va \in DOMAIN listing.insns : SelectsItsBytes(img, code, va, listing.insns[va])

\* view.rs:17: a linear sweep decodes every byte in range, a recursive descent
\* what is reachable from its seeds and nothing else; every direct branch found
\* is a cross-reference; and an instruction names the bytes of the file it was
\* decoded from.  All of it however few instructions a step decodes, with
\* undecodable bytes and branches into the middle of instructions.  Sections
\* whose addresses overlap, and listings cut at MAX_INSNS, are excluded.
ListingsAreComplete ==
  (/\ open = "disasm" /\ drawn /\ window.result.there /\ IsOpen(tabs, active) /\ ~ disturbed
   /\ window.result.built.ok) =>
    \A listing \in {window.result.built.listing} :
      (listing.done /\ Disjoint(listing.regions)) =>
        IsComplete(ImageOf(tabs[active]), InfoOf(tabs[active]), listing,
                   Decoded(ImageOf(tabs[active]), listing.regions))

(***************************************************************************)
(* Function diff.                                                           *)
(***************************************************************************)
\* How often an element occurs as the side-th of the pairs of a sequence.
Times(pairs, side, e) == Cardinality({k \in DOMAIN pairs : pairs[k][side] = e})
Occurs(seq, e) == Cardinality({k \in DOMAIN seq : seq[k] = e})

\* funcdiff.rs:7: functions are paired by name, then by fingerprint.  Also with
\* names that occur several times on either side, every function is in exactly
\* one bucket, a pair is identical, changed or renamed as its names and
\* fingerprints say, and no two functions that could be paired are left over;
\* the functions are those of the documents as they are, each where the code of
\* its first instruction is.
FunctionsPairOnce ==
  (open = "bindiff" /\ drawn /\ window.result.there /\ window.result.diff.ok) =>
    LET r == window.result.diff.report
        A == r.functionsA
        B == r.functionsB
        Pairs == r.identical \o r.changed \o r.renamed
    IN  /\ \A i \in DOMAIN A : Times(Pairs, 1, i) + Occurs(r.removed, i) = 1
        /\ \A j \in DOMAIN B : Times(Pairs, 2, j) + Occurs(r.added, j) = 1
        /\ \A p \in ToSet(r.identical) : A[p[1]].print = B[p[2]].print /\ A[p[1]].name = B[p[2]].name
        /\ \A p \in ToSet(r.changed) : A[p[1]].print # B[p[2]].print /\ A[p[1]].name = B[p[2]].name
        /\ \A p \in ToSet(r.renamed) : A[p[1]].print = B[p[2]].print /\ A[p[1]].name # B[p[2]].name
        /\ \A i \in ToSet(r.removed), j \in ToSet(r.added) :
             A[i].print # B[j].print /\ A[i].name # B[j].name
        /\ ~ disturbed =>
             \A i \in DOMAIN A :
               LET img == ImageOf(tabs[window.pair[1]])
                   bytes == VaToFile(window.result.sectionsA, A[i].address, 1)
               IN  bytes # <<>> => img.code[bytes[1]].text = A[i].print[1]

(***************************************************************************)
(* Recipe.                                                                  *)
(***************************************************************************)
Mirror ==
  [to \in {"to-hex", "to-base64", "to-base64url", "to-base32", "to-base85", "to-z85", "to-url",
           "xor", "add", "sub", "rol", "ror", "not", "reverse"} |->
     CASE to = "to-hex" -> "from-hex" [] to = "to-base64" -> "from-base64"
       [] to = "to-base64url" -> "from-base64url" [] to = "to-base32" -> "from-base32"
       [] to = "to-base85" -> "from-base85" [] to = "to-z85" -> "from-z85"
       [] to = "to-url" -> "from-url" [] to = "add" -> "sub" [] to = "sub" -> "add"
       [] to = "rol" -> "ror" [] to = "ror" -> "rol" [] OTHER -> to]
Mirrored(spec) ==
  [i \in DOMAIN spec |-> LET step == spec[Len(spec) + 1 - i] IN [step EXCEPT ![1] = Mirror[step[1]]]]

\* recipe/bitwise.rs:2 and codec.rs: every operation has a sibling that undoes
\* it, so what a pipeline of encodings and byte operations made goes back to its
\* input through the siblings in reverse order, for every length and content;
\* only Z85, which takes whole words, may refuse.  And the output shown
\* (gui recipe.rs:86) is that of the bytes of the active document now, unless
\* it says that it is stale, or they were edited or the tab switched or closed
\* while the range to transform stayed the same.
RecipesGiveBack ==
  (open = "recipe" /\ drawn /\ window.output.there /\ IsOpen(tabs, active) /\ ~ disturbed /\ ~ window.stale) =>
    LET doc == ImageOf(tabs[active]).bytes
        spec == ParseRecipe(window.lastSig[1])
        range == window.lastSig[2]
        result == window.output.result
        invertible == \A i \in DOMAIN spec : Understood(spec[i]) /\ spec[i][1] \in DOMAIN Mirror
        input == SubSeq(doc, range[1] + 1, Least(range[2], Len(doc)))
    IN  /\ (IsClean(input) /\ Len(input) <= DEFAULT_CAP /\ invertible) =>
             IF result.ok THEN Through(Mirrored(spec), result.bytes) = Made(input)
             ELSE \E i \in DOMAIN spec : spec[i][1] = "to-z85"
        /\ result.ok => IsClean(input) /\ Len(input) <= DEFAULT_CAP
        /\ window.lastSig = <<BuildSpec(window.steps),
                              RecipeRange(window, doc, tabs[active].selection)>>

(***************************************************************************)
(* Bookmarks.                                                               *)
(***************************************************************************)
\* bookmarks.rs:44: the sidecar file gives back exactly the marks that were last
\* saved to it, whatever their names hold and whichever tab saved them, also
\* after they were loaded, removed and saved again; and every list of marks is
\* sorted by offset.
BookmarksSurvive ==
  open = "bookmarks" =>
    /\ \A path \in Paths :
         written[path].there => Load(sidecars[path]) = [ok |-> TRUE, marks |-> written[path].marks]
    /\ \A i \in DOMAIN tabs :
         LET marks == tabs[i].marks
         IN  \A j, k \in DOMAIN marks : j <= k => marks[j].offset <= marks[k].offset
=============================================================================
