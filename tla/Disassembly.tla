----------------------------- MODULE Disassembly -----------------------------
(***************************************************************************)
(* core/src/disasm/view.rs: linear sweep and recursive descent over the     *)
(* executable sections, and gui/src/disasm.rs, the window that shows what   *)
(* they found.                                                              *)
(*                                                                         *)
(* The instructions of an image are img.code: a file offset to [len, flow,  *)
(* target, text]; the decoder fails everywhere else.  A target is a virtual *)
(* address, or NoTarget.                                                    *)
(***************************************************************************)
EXTENDS Executables, Functions

CONSTANTS
  StepBudget,     \* instructions decoded by a step
  MAX_INSNS,      \* instructions after which the window stops stepping
  RegionCap       \* bytes loaded of a section

NoTarget == 0 - 1
Decoders == {"X86", "X86_64", "Aarch64"}

(***************************************************************************)
(* The job.                                                                 *)
(***************************************************************************)
\* A region: its first address, its length, and where its bytes are in the file.
\* A read is cut at the end of the file; an unreadable section is left out.
RegionOf(img, s) ==
  [vaddr |-> s.vaddr, lo |-> s.lo, len |-> Least(Least(s.hi - s.lo, RegionCap), img.size - s.lo)]
Loaded(img, sections) ==
  SelectSeq([i \in DOMAIN sections |-> RegionOf(img, sections[i])],
            LAMBDA r : r.len > 0 /\ \A b \in img.bad : b \notin r.lo .. r.lo + r.len - 1)
Addresses(r) == r.vaddr .. r.vaddr + r.len - 1
Space(regions) == UNION {Addresses(regions[i]) : i \in DOMAIN regions}

\* region_of and decode_one: by address, the instruction that the bytes of the
\* first region with it give; the instruction must end inside that region.
Decoded(img, regions) ==
  LET Found(i, va) ==
        {img.code[at] : at \in {a \in DOMAIN img.code :
           /\ a = regions[i].lo + (va - regions[i].vaddr)
           /\ va + img.code[a].len <= regions[i].vaddr + regions[i].len}}
      First(va) == CHOOSE i \in DOMAIN regions :
                     /\ va \in Addresses(regions[i])
                     /\ \A j \in 1 .. i - 1 : va \notin Addresses(regions[j])
      found == [va \in Space(regions) |-> Found(First(va), va)]
  IN  [va \in {v \in DOMAIN found : found[v] # {}} |-> CHOOSE insn \in found[va] : TRUE]
BadByte == [len |-> 1, flow |-> "Normal", target |-> NoTarget, text |-> ".byte"]

Pushed(job, va) ==
  IF va \notin job.visited /\ va \in job.space
  THEN [job EXCEPT !.pending = Append(@, va)] ELSE job
PushedAll(job, vas) == FoldLeft(Pushed, job, vas)

\* With no seed in a region, the starts of the regions are the seeds.
NewJob(img, regions, linear, seeds) ==
  LET empty == [space |-> Space(regions), code |-> Decoded(img, regions), linear |-> linear,
                pending |-> <<>>, visited |-> {}, insns |-> <<>>, xrefs |-> {}]
  IN  With(PushedAll(empty, seeds), LAMBDA seeded :
        IF seeded.pending # <<>> THEN seeded
        ELSE PushedAll(seeded, [i \in DOMAIN regions |-> regions[i].vaddr]))

\* Where the walk goes on after an instruction; the last is taken first.
Successors(insn, addr, linear) ==
  LET next == addr + insn.len
      target == IF insn.target = NoTarget THEN <<>> ELSE <<insn.target>>
  IN  CASE linear -> <<next>>
        [] insn.flow \in {"Return", "Halt"} -> <<>>
        [] insn.flow = "Jump" -> target
        [] insn.flow \in {"Call", "CondJump"} -> Append(target, next)
        [] OTHER -> <<next>>

Bound(map, at, value) == [a \in DOMAIN map \cup {at} |-> IF a = at THEN value ELSE map[a]]

\* An instruction at addr, and the cross-reference of its direct target.
Recorded(job, addr, insn) ==
  [job EXCEPT !.insns = Bound(@, addr, insn),
              !.xrefs = @ \cup {<<t, addr>> : t \in {insn.target} \ {NoTarget}}]

\* A plausible slip: an undecodable byte ends a linear sweep too.
StopsAtBadByte(job, addr) ==
  IF addr \in DOMAIN job.code
  THEN PushedAll(Recorded(job, addr, job.code[addr]), Successors(job.code[addr], addr, job.linear))
  ELSE Recorded(job, addr, BadByte)

\* One address taken off the worklist for the first time.
Visit(job, addr) ==
  IF addr \in DOMAIN job.code
  THEN PushedAll(Recorded(job, addr, job.code[addr]), Successors(job.code[addr], addr, job.linear))
  ELSE PushedAll(Recorded(job, addr, BadByte), IF job.linear THEN <<addr + 1>> ELSE <<>>)

\* step: up to StepBudget turns; scanned counts the first visits.
Turned(state, addr) ==
  LET popped == [state.job EXCEPT !.pending = Front(@), !.visited = @ \cup {addr}]
  IN  IF addr \in state.job.visited THEN [state EXCEPT !.job = popped]
      ELSE [job |-> Visit(popped, addr), scanned |-> state.scanned + 1]
Finished(state) == state.job.pending = <<>>
Stepped(state) ==
  Repeat(LAMBDA s, i : IF Finished(s) THEN s ELSE Turned(s, Last(s.job.pending)), state, StepBudget)

\* The window steps until the job ends or MAX_INSNS were scanned: an address is
\* pushed as a seed or by one of the instructions found, twice at most.
Swept(job) ==
  Repeat(LAMBDA s, i : IF i > 1 /\ (Finished(s) \/ s.scanned >= MAX_INSNS) THEN s ELSE Stepped(s),
         [job |-> job, scanned |-> 0], Len(job.pending) + 2 * (MAX_INSNS + StepBudget) + 1)

(***************************************************************************)
(* build and seeds_for: which sections, and where the walk starts.          *)
(***************************************************************************)
IsFunction(sym) == sym.defined /\ sym.kind = "Func" /\ sym.value # 0
Code(sections) == SelectSeq(sections, LAMBDA s : s.x /\ s.lo < s.hi)
Chosen(sections, name) ==
  IF name = "auto" THEN Code(sections) ELSE SelectSeq(sections, LAMBDA s : s.name = name)

SeedsFor(info, linear, regions) ==
  LET functions == SelectSeq(info.symbols, IsFunction)
  IN  IF linear THEN [i \in DOMAIN regions |-> regions[i].vaddr]
      ELSE (IF info.entry = 0 THEN <<>> ELSE <<info.entry>>)
             \o [i \in DOMAIN functions |-> functions[i].value]

RegionsFor(img, info, name) ==
  Loaded(img, SelectSeq(Chosen(info.sections, name), LAMBDA s : s.lo < s.hi))

(***************************************************************************)
(* The window.                                                              *)
(***************************************************************************)
NoListing == [there |-> FALSE]
NoDisasm == [forTab |-> <<>>, recursive |-> TRUE, section |-> "auto", sections |-> {},
             result |-> NoListing]

Labelled(info, job, va) ==
  \/ \E sym \in ToSet(info.symbols) : sym.defined /\ sym.value = va /\ va # 0
  \/ \E xref \in job.xrefs : xref[1] = va
\* The listing: every instruction with the file bytes a click on it selects,
\* and the addresses that get a label.
Rendered(info, regions, job) ==
  [insns |-> [va \in DOMAIN job.insns |->
                [insn |-> job.insns[va], file |-> VaToFile(info.sections, va, job.insns[va].len)]],
   xrefs |-> job.xrefs, linear |-> job.linear, regions |-> regions, done |-> job.pending = <<>>,
   labels |-> {va \in DOMAIN job.insns : Labelled(info, job, va)}]
Listing(img, info, regions, linear) ==
  Rendered(info, regions, Swept(NewJob(img, regions, linear, SeedsFor(info, linear, regions))).job)
BuiltListing(img, info, recursive, name) ==
  IF ~ info.ok THEN Refused
  ELSE IF info.arch \notin Decoders THEN Refused
  ELSE With(RegionsFor(img, info, name), LAMBDA regions :
         IF regions = <<>> THEN Refused
         ELSE [ok |-> TRUE, listing |-> Listing(img, info, regions, ~ recursive)])

\* Every frame: a tab or length that changed drops the listing.
SectionsEnsured(w, key, info) ==
  LET names == IF info.ok THEN {s.name : s \in ToSet(Code(info.sections))} ELSE {}
  IN  IF w.forTab = key THEN w
      ELSE [w EXCEPT !.forTab = key, !.result = NoListing, !.sections = names,
                     !.section = IF w.section \in names THEN @ ELSE "auto"]
=============================================================================
