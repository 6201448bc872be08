----------------------------- MODULE Executables -----------------------------
(***************************************************************************)
(* core/src/format.rs and format/{tree,elf,pe}.rs: what parsing an          *)
(* executable gives, and the provenance tree that says where in the file    *)
(* every field was read.                                                    *)
(*                                                                         *)
(* A file is an image: its size, its unreadable offsets, and what is stored *)
(* in the headers and tables the parsers follow.  Names of fields, values   *)
(* nobody follows and the import, export and TLS tables of a PE are left    *)
(* out; so is Mach-O.                                                       *)
(***************************************************************************)
EXTENDS Integers, Sequences, FiniteSetsExt, Words, ByteJobs

Refused == [ok |-> FALSE]

\* A short read, or one over an unreadable block, is an error.
ReadExact(img, at, len) ==
  len = 0 \/ (at + len <= img.size /\ \A b \in img.bad : b \notin at .. at + len - 1)

(***************************************************************************)
(* tree.rs                                                                  *)
(***************************************************************************)
Node(lo, hi, kids) == [lo |-> lo, hi |-> hi, kids |-> kids]
Width(widths) == FoldLeft(LAMBDA n, w : n + w, 0, widths)
\* Consecutive fields read by a Cursor from at on.
Fields(at, widths) ==
  [k \in DOMAIN widths |-> LET lo == at + Width(SubSeq(widths, 1, k - 1))
                           IN  Node(lo, lo + widths[k], <<>>)]
RECURSIVE NodesOf(_)
NodesOf(node) == {node} \cup UNION {NodesOf(node.kids[k]) : k \in DOMAIN node.kids}

\* A table of n entries of ent bytes, the fields of each one inside it.
Table(at, ent, n, widths) ==
  [i \in 1 .. n |-> LET base == at + (i - 1) * ent
                    IN  Node(base, base + ent, Fields(base, widths))]

(***************************************************************************)
(* elf.rs and elf/: headers, sections, symbols, dynamic table, relocations. *)
(***************************************************************************)
Native(bits) == bits \div 8
ElfHeaderSize(bits) == IF bits = 64 THEN 64 ELSE 52

ElfHeader(img) ==
  LET w == Native(img.bits)
      ident == Node(0, 16, Fields(0, <<4, 1, 1, 1, 1>>))
      rest == Fields(16, <<2, 2, 4, w, w, w, 4, 2, 2, 2, 2, 2, 2>>)
  IN  IF ReadExact(img, 0, ElfHeaderSize(img.bits))
      THEN [ok |-> TRUE, node |-> Node(0, ElfHeaderSize(img.bits), <<ident>> \o rest)]
      ELSE Refused

PhdrWidths(bits) == IF bits = 64 THEN <<4, 4, 8, 8, 8, 8, 8, 8>> ELSE <<4, 4, 4, 4, 4, 4, 4, 4>>
Segments(img) ==
  LET total == img.phnum * img.phentsize
  IN  IF 0 \in {img.phnum, img.phentsize, img.phoff}
      THEN [ok |-> TRUE, node |-> Node(img.phoff, img.phoff, <<>>)]
      ELSE IF ~ ReadExact(img, img.phoff, total) \/ Width(PhdrWidths(img.bits)) > img.phentsize
      THEN Refused
      ELSE [ok |-> TRUE,
            node |-> Node(img.phoff, img.phoff + total,
                          Table(img.phoff, img.phentsize, img.phnum, PhdrWidths(img.bits)))]

\* sh_name, sh_type, then words of the class, but sh_link and sh_info.
ShdrWidths(bits) == LET w == Native(bits) IN <<4, 4, w, w, w, w, 4, 4, w, w>>

\* The section that a raw header describes; NOBITS occupies no bytes of the file.
SectionOf(raw) ==
  [name |-> raw.name, lo |-> raw.offset,
   hi |-> IF raw.type = "NOBITS" THEN raw.offset ELSE raw.offset + raw.size,
   vaddr |-> raw.addr, size |-> raw.size, x |-> raw.exec]

\* The headers of the table; the null section is not a real one.
Sections(img) ==
  LET total == img.shnum * img.shentsize
      raws == SubSeq(img.headers, 1, img.shnum)
      used == Width(ShdrWidths(img.bits))
      nodes == [i \in DOMAIN raws |-> LET base == img.shoff + (i - 1) * img.shentsize
                                      IN  Node(base, base + used, Fields(base, ShdrWidths(img.bits)))]
      names == img.shstrndx + 1
  IN  IF 0 \in {img.shnum, img.shentsize, img.shoff}
      THEN [ok |-> TRUE, node |-> Node(img.shoff, img.shoff, <<>>), sections |-> <<>>, raws |-> <<>>]
      ELSE IF \/ ~ ReadExact(img, img.shoff, total) \/ used > img.shentsize
              \/ /\ names \in DOMAIN raws /\ raws[names].type # "NULL"
                 /\ ~ ReadExact(img, raws[names].offset, raws[names].size)
      THEN Refused
      ELSE [ok |-> TRUE, node |-> Node(img.shoff, img.shoff + total, nodes), raws |-> raws,
            sections |-> [i \in 1 .. Len(raws) - 1 |-> SectionOf(raws[i + 1])]]

OfType(raws, type) == SelectSeq([i \in DOMAIN raws |-> i], LAMBDA i : raws[i].type = type)
\* The section sh_link names, if there is one, is read whole.
LinkReads(img, raws, i) ==
  raws[i].link + 1 \in DOMAIN raws =>
    LET to == raws[raws[i].link + 1] IN ReadExact(img, to.offset, to.size)
\* The whole entries of section i, and what is stored in them.
Entries(img, raws, i, ent) == SubSeq(img.content[i], 1, raws[i].size \div ent)
TableReads(img, raws, i) ==
  LinkReads(img, raws, i) /\ ReadExact(img, raws[i].offset, raws[i].size)

SymSize(bits) == IF bits = 64 THEN 24 ELSE 16
\* .symtab, falling back to .dynsym; unnamed symbols are dropped.
Symbols(img, raws) ==
  LET tables == OfType(raws, "SYMTAB") \o OfType(raws, "DYNSYM")
      i == tables[1]
  IN  IF tables = <<>> \/ raws[i].size = 0 THEN [ok |-> TRUE, symbols |-> <<>>]
      ELSE IF ~ TableReads(img, raws, i) THEN Refused
      ELSE [ok |-> TRUE, symbols |-> SelectSeq(Entries(img, raws, i, SymSize(img.bits)),
                                               LAMBDA s : s.name # "")]

\* Entries up to DT_NULL, which ends the table.
Dynamic(img, raws) ==
  LET i == OfType(raws, "DYNAMIC")[1]
      ent == 2 * Native(img.bits)
      tags == Entries(img, raws, i, ent)
      ends == {k \in DOMAIN tags : tags[k] = "DT_NULL"}
      n == IF ends = {} THEN Len(tags) ELSE Min(ends)
      at == raws[i].offset
  IN  IF OfType(raws, "DYNAMIC") = <<>> \/ raws[i].size = 0 THEN [ok |-> TRUE, nodes |-> <<>>]
      ELSE IF ~ TableReads(img, raws, i) THEN Refused
      ELSE [ok |-> TRUE,
            nodes |-> <<Node(at, at + raws[i].size,
                             Table(at, ent, n, <<Native(img.bits), Native(img.bits)>>))>>]

\* The names of the symbols a relocation refers to are read for it.
NamesRead(img, raws, i) ==
  LET to == raws[i].link + 1
  IN  (to \in DOMAIN raws /\ raws[to].type \in {"SYMTAB", "DYNSYM"} /\ raws[to].size # 0)
        => TableReads(img, raws, to)
RelocWidths(bits, type) == LET w == Native(bits) IN IF type = "RELA" THEN <<w, w, w>> ELSE <<w, w>>
Relocations(img, raws) ==
  LET tables == SelectSeq([i \in DOMAIN raws |-> i],
                          LAMBDA i : /\ raws[i].type \in {"REL", "RELA"}
                                     /\ raws[i].size # 0 /\ raws[i].offset # 0)
      GroupOf(raw) == LET widths == RelocWidths(img.bits, raw.type)
                      IN  Node(raw.offset, raw.offset + raw.size,
                               Table(raw.offset, Width(widths), raw.size \div Width(widths), widths))
      groups == [k \in DOMAIN tables |-> GroupOf(raws[tables[k]])]
  IN  IF \E k \in DOMAIN tables : \/ ~ NamesRead(img, raws, tables[k])
                                  \/ ~ ReadExact(img, raws[tables[k]].offset, raws[tables[k]].size)
      THEN Refused
      ELSE [ok |-> TRUE, nodes |-> IF groups = <<>> THEN <<>>
                                   ELSE <<Node(groups[1].lo, Last(groups).hi, groups)>>]

ParseElf(img) ==
  LET head == ElfHeader(img)
      segs == Segments(img)
      secs == Sections(img)
      syms == Symbols(img, secs.raws)
      dyns == Dynamic(img, secs.raws)
      rels == Relocations(img, secs.raws)
  IN  IF ~ (head.ok /\ segs.ok /\ secs.ok) THEN Refused
      ELSE IF ~ (syms.ok /\ dyns.ok /\ rels.ok) THEN Refused
      ELSE [ok |-> TRUE, format |-> "Elf", arch |-> img.arch, entry |-> img.entry,
            sections |-> secs.sections, symbols |-> syms.symbols,
            tree |-> Node(0, img.size, <<head.node, segs.node, secs.node>> \o dyns.nodes \o rels.nodes)]

(***************************************************************************)
(* pe.rs: DOS header, signature, file header, optional header, sections.    *)
(***************************************************************************)
FileHeaderAt(img) == img.lfanew + 4
OptionalAt(img) == img.lfanew + 24
\* The fields up to NumberOfRvaAndSizes; CheckSum is the 21st (PE32: 22nd).
OptionalWidths(bits) ==
  LET w == Native(bits)
  IN  <<2, 1, 1, 4, 4, 4, 4, 4>> \o (IF bits = 32 THEN <<4>> ELSE <<>>)
        \o <<w, 4, 4, 2, 2, 2, 2, 2, 2, 4, 4, 4, 4, 2, 2, w, w, w, w, 4, 4>>
CheckSumField(img) == Fields(OptionalAt(img), OptionalWidths(img.bits))[IF img.bits = 32 THEN 22 ELSE 21]

OptionalHeader(img) ==
  LET at == OptionalAt(img)
      used == Width(OptionalWidths(img.bits))
      dirs == Table(at + used, 8, Min({img.ndirs, 16}), <<4, 4>>)
  IN  IF \/ img.optSize < 2 \/ ~ ReadExact(img, at, img.optSize) \/ ~ img.optional
         \/ used + 8 * Len(dirs) > img.optSize
      THEN Refused
      ELSE [ok |-> TRUE,
            node |-> Node(at, at + img.optSize,
                          Append(Fields(at, OptionalWidths(img.bits)), Node(at, at + img.optSize, dirs)))]

PeSectionWidths == <<8, 4, 4, 4, 4>>
PeSections(img) ==
  LET at == OptionalAt(img) + img.optSize
      n == Len(img.sections)
      ofRow(base) == Append(Fields(base, PeSectionWidths), Node(base + 36, base + 40, <<>>))
  IN  IF ~ ReadExact(img, at, 40 * n) THEN Refused
      ELSE [ok |-> TRUE, sections |-> img.sections,
            node |-> Node(at, at + 40 * n,
                          [i \in 1 .. n |-> LET base == at + 40 * (i - 1)
                                            IN  Node(base, base + 40, ofRow(base))])]

HasPeHeaders(img) == ReadExact(img, 0, 64) /\ ReadExact(img, img.lfanew, 4) /\ img.signature

ParsePe(img, checksum) ==
  LET dos == Node(0, 64, <<Node(0, 2, <<>>), Node(60, 64, <<>>)>>)
      coff == Node(FileHeaderAt(img), FileHeaderAt(img) + 20,
                   Fields(FileHeaderAt(img), <<2, 2, 4, 4, 4, 2, 2>>))
      optional == OptionalHeader(img)
      secs == PeSections(img)
  IN  IF ~ HasPeHeaders(img) THEN Refused
      ELSE IF ~ (ReadExact(img, FileHeaderAt(img), 20) /\ optional.ok /\ secs.ok) THEN Refused
      ELSE [ok |-> TRUE, format |-> "Pe", arch |-> img.arch, entry |-> img.entry,
            sections |-> secs.sections, symbols |-> <<>>,
            checksum |-> [at |-> CheckSumField(img).lo, value |-> checksum],
            tree |-> Node(0, img.size, <<dos, coff, optional.node, secs.node>>)]

(***************************************************************************)
(* format.rs                                                                *)
(***************************************************************************)
Detect(img) == IF ReadExact(img, 0, 4) THEN img.format ELSE "Unknown"
\* checksum: what is stored in the CheckSum field of a PE at the moment.
Parse(img, checksum) ==
  CASE Detect(img) = "Elf" -> ParseElf(img)
    [] Detect(img) = "Pe" -> ParsePe(img, checksum)
    [] OTHER -> Refused

FileRange(s, va, len) ==
  LET at == s.lo + (va - s.vaddr)
  IN  IF va \in s.vaddr .. s.vaddr + s.size - 1 /\ at < s.hi
      THEN <<at, Min({at + len, s.hi})>> ELSE <<>>
\* The first section with file bytes at va wins.
VaToFile(sections, va, len) ==
  LET found == SelectSeq([i \in DOMAIN sections |-> FileRange(sections[i], va, len)],
                         LAMBDA r : r # <<>>)
  IN  IF found = <<>> THEN <<>> ELSE found[1]

-----------------------------------------------------------------------------
(***************************************************************************)
(* core/src/patch.rs: the checksum of a PE image, summed window by window   *)
(* over the file as 32-bit words with its own field taken as zero.          *)
(***************************************************************************)
\* CheckSum is 64 bytes into the optional header, PE32 or PE32+.
FieldOffset(img) == img.lfanew + 88

\* The words of one window, its tail padded with zeros.
WordsOf(img, from, n) ==
  LET Byte(i) == IF i >= from + n \/ i \in FieldOffset(img) .. FieldOffset(img) + 3 THEN 0
                 ELSE img.bytes[i + 1]
  IN  [k \in 1 .. (n + 3) \div 4 |->
         LET at == from + 4 * (k - 1)
         IN  FromLE(<<Byte(at), Byte(at + 1), Byte(at + 2), Byte(at + 3)>>)]

\* A plausible slip: windows that end inside a word.
AnyLength(c) == NextLen(c, WINDOW, 1)

\* Whole words, so that only the last window can be short.
WindowLength(c) == NextLen(c, WINDOW, 4)

FileSum(img) ==
  LET Window(r, i) ==
        LET n == WindowLength(r.cursor)
        IN  IF IsDone(r.cursor) THEN r
            ELSE [sum |-> FoldLeft(FoldedSum, r.sum, WordsOf(img, r.cursor.pos, n)),
                  cursor |-> Advanced(r.cursor, n)]
  IN  Repeat(Window, [sum |-> Zero, cursor |-> CursorOver(0, img.size, img.size, WINDOW)],
             (img.size + 3) \div 4).sum

\* Folded to 16 bits, plus the length of the file.
ComputedChecksum(img) ==
  LET sum == FileSum(img)
      cs == sum[1] + sum[2]
  IN  ((cs + cs \div Half) % Half) + img.size

\* Where the field is and what belongs there; nothing unreadable is summed.
PeChecksum(img) ==
  IF \/ img.format # "Pe" \/ ~ HasPeHeaders(img) \/ ~ img.optional
     \/ ~ ReadExact(img, img.lfanew + 24, 2) \/ ~ ReadExact(img, FieldOffset(img), 4)
     \/ ~ ReadExact(img, 0, img.size)
  THEN Refused
  ELSE [ok |-> TRUE, at |-> FieldOffset(img), value |-> ComputedChecksum(img)]
=============================================================================
