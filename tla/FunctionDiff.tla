---------------------------- MODULE FunctionDiff ----------------------------
(***************************************************************************)
(* core/src/funcdiff.rs and funcdiff/extract.rs: the functions of two       *)
(* executables, paired by name and then by what their instructions are.     *)
(* The fingerprint of a function is the sequence of its normalized          *)
(* instructions; the code keeps a 64-bit hash of it.                        *)
(***************************************************************************)
EXTENDS Disassembly

CONSTANTS
  MAX_SPAN,          \* a function ends within this many bytes of its entry
  MAX_WALKED         \* instructions collected of a function

(***************************************************************************)
(* extract.rs                                                               *)
(***************************************************************************)
\* A call's target is another function; the walk goes on after the call.
WithinFunction(insn, addr) ==
  IF insn.flow = "Call" THEN <<addr + insn.len>> ELSE Successors(insn, addr, FALSE)

\* One address taken off the worklist.
Walked(code, start, w, va) ==
  LET popped == [w EXCEPT !.work = Front(@)]
      seen == [popped EXCEPT !.visited = @ \cup {va}]
  IN  IF va \notin start .. start + MAX_SPAN - 1 \/ va \in w.visited THEN popped
      ELSE IF Cardinality(DOMAIN w.insns) >= MAX_WALKED THEN [w EXCEPT !.full = TRUE]
      ELSE IF va \notin DOMAIN code THEN seen
      ELSE [seen EXCEPT !.insns = Bound(@, va, code[va].text),
                        !.work = @ \o WithinFunction(code[va], va)]

Sorted(addresses) == SortSeq(SetToSeq(addresses), <)

\* The instructions reached from start, by address.  An address is pushed by
\* one of those collected, twice at most.
Walk(code, start) ==
  LET first == [work |-> <<start>>, visited |-> {}, insns |-> <<>>, full |-> FALSE]
  IN  With(Repeat(LAMBDA w, i : IF w.work = <<>> \/ w.full THEN w ELSE Walked(code, start, w, Last(w.work)),
                  first, 2 * MAX_WALKED + 2),
           LAMBDA end : LET at == Sorted(DOMAIN end.insns) IN [k \in DOMAIN at |-> end.insns[at[k]]])

\* The defined functions by address, the first name of each; those without a
\* decodable instruction are dropped.
FunctionsIn(code, symbols) ==
  LET at == Sorted({symbols[i].value : i \in DOMAIN symbols})
      NameAt(va) == symbols[Min({i \in DOMAIN symbols : symbols[i].value = va})].name
  IN  SelectSeq([k \in DOMAIN at |-> [name |-> NameAt(at[k]), address |-> at[k],
                                      print |-> Walk(code, at[k])]],
                LAMBDA f : f.print # <<>>)
FunctionsOf(img, info) ==
  With(Decoded(img, Loaded(img, Code(info.sections))),
       LAMBDA code : FunctionsIn(code, SelectSeq(info.symbols, IsFunction)))

(***************************************************************************)
(* match_functions                                                          *)
(***************************************************************************)
NoPairs == [used |-> {}, pairs |-> <<>>, left |-> <<>>]

\* A plausible slip: the first function of that name, whether taken or not.
AnyOfThatName(fb, used, name) == {j \in DOMAIN fb : fb[j].name = name}

FreeOfThatName(fb, used, name) == {j \in DOMAIN fb \ used : fb[j].name = name}
FreeWithThatPrint(fb, used, print) == {j \in DOMAIN fb \ used : fb[j].print = print}

\* Each function of A, in order, takes the first candidate; left are those
\* without one.
Paired(fa, indices, used, Candidates(_, _)) ==
  LET Take(p, i) ==
        LET free == Candidates(p.used, fa[i])
        IN  IF free = {} THEN [p EXCEPT !.left = Append(@, i)]
            ELSE [p EXCEPT !.used = @ \cup {Min(free)}, !.pairs = Append(@, <<i, Min(free)>>)]
  IN  FoldLeft(Take, [NoPairs EXCEPT !.used = used], indices)

Indices(seq) == [i \in DOMAIN seq |-> i]

Report(fa, fb, byName, byPrint) ==
  LET Same(p) == fa[p[1]].print = fb[p[2]].print
      SameName(p) == fa[p[1]].name = fb[p[2]].name
  IN  [totalA |-> Len(fa), totalB |-> Len(fb),
       identical |-> SelectSeq(byName.pairs, Same) \o SelectSeq(byPrint.pairs, SameName),
       changed |-> SelectSeq(byName.pairs, LAMBDA p : ~ Same(p)),
       renamed |-> SelectSeq(byPrint.pairs, LAMBDA p : ~ SameName(p)),
       removed |-> byPrint.left,
       added |-> SelectSeq(Indices(fb), LAMBDA j : j \notin byPrint.used),
       functionsA |-> fa, functionsB |-> fb]
MatchFunctions(fa, fb) ==
  With(Paired(fa, Indices(fa), {}, LAMBDA used, f : FreeOfThatName(fb, used, f.name)),
       LAMBDA byName :
         Report(fa, fb, byName,
                Paired(fa, byName.left, byName.used,
                       LAMBDA used, f : FreeWithThatPrint(fb, used, f.print))))

\* Both must be executables of one architecture with a decoder.
FunctionDiff(imgA, infoA, imgB, infoB) ==
  IF ~ infoA.ok \/ ~ infoB.ok THEN Refused
  ELSE IF infoA.arch \notin Decoders \/ infoB.arch # infoA.arch THEN Refused
  ELSE [ok |-> TRUE, report |-> MatchFunctions(FunctionsOf(imgA, infoA), FunctionsOf(imgB, infoB))]
=============================================================================
