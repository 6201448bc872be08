------------------------------ MODULE MCPanels ------------------------------
(* Instances of the panels for TLC: small executables, and raw bytes. *)
EXTENDS Panels

Insn(len, flow, target, text) == [len |-> len, flow |-> flow, target |-> target, text |-> text]
Plain(len, text) == Insn(len, "Normal", NoTarget, text)
Function(name, at) == [name |-> name, value |-> at, kind |-> "Func", defined |-> TRUE]
Puts == [name |-> "puts", value |-> 0, kind |-> "Func", defined |-> FALSE]
Global == [name |-> "data", value |-> 1011, kind |-> "Object", defined |-> TRUE]
Header(type, name, offset, size, link, addr, exec) ==
  [type |-> type, name |-> name, offset |-> offset, size |-> size, link |-> link, addr |-> addr,
   exec |-> exec]

\* .text is 16 bytes of file from 128, at addresses from 1000; .init 8 bytes
\* from 144, at address initAt.
Code1 ==
  (128 :> Plain(2, "push")) @@ (130 :> Insn(3, "CondJump", 1008, "je"))
    @@ (133 :> Insn(2, "Call", 1100, "call")) @@ (135 :> Insn(1, "Return", NoTarget, "ret"))
    @@ (136 :> Insn(2, "Jump", 1001, "jmp")) @@ (129 :> Insn(1, "Halt", NoTarget, "hlt"))
    @@ (139 :> Plain(1, "nop")) @@ (140 :> Plain(4, "mov"))
    @@ (144 :> Plain(1, "push")) @@ (145 :> Insn(2, "Jump", 1106, "jmp"))
    @@ (150 :> Insn(1, "Return", NoTarget, "ret")) @@ (151 :> Plain(3, "mov"))
Code2 == (144 :> Plain(1, "xor")) @@ (136 :> Insn(2, "Jump", NoTarget, "jmp"))
           @@ (141 :> Insn(1, "Return", NoTarget, "ret")) @@ Code1

Elf(size, arch, entry, code, symbols, initAt, phentsize, bad) ==
  [size |-> size, bad |-> bad, format |-> "Elf", bits |-> 64, arch |-> arch, entry |-> entry,
   phoff |-> 64, phentsize |-> phentsize, phnum |-> 1, shoff |-> 440, shentsize |-> 64, shnum |-> 9,
   shstrndx |-> 7, code |-> code, stored |-> 0, bytes |-> <<>>,
   headers |-> <<Header("NULL", "", 0, 0, 0, 0, FALSE),
                 Header("PROGBITS", ".text", 128, 16, 0, 1000, TRUE),
                 Header("PROGBITS", ".init", 144, 8, 0, initAt, TRUE),
                 Header("SYMTAB", ".symtab", 160, 24 * Len(symbols), 4, 0, FALSE),
                 Header("STRTAB", ".strtab", 330, 10, 0, 0, FALSE),
                 Header("DYNAMIC", ".dynamic", 340, 32, 4, 0, FALSE),
                 Header("RELA", ".rela", 372, 48, 3, 0, FALSE),
                 Header("STRTAB", ".shstrtab", 420, 10, 0, 0, FALSE),
                 Header("NOBITS", ".bss", 430, 64, 0, 2000, FALSE)>>,
   content |-> [i \in 1 .. 9 |-> IF i = 4 THEN symbols
                                 ELSE IF i = 6 THEN <<"DT_NEEDED", "DT_NULL">> ELSE <<>>]]

Full == 440 + 9 * 64
SymbolsA == <<Function("main", 1000), Function("dup", 1011), Function("dup", 1008),
              Function("init", 1100), Function("alias", 1100), Puts>>
SymbolsB == <<Function("main", 1000), Function("dup", 1106), Function("start", 1100),
              Function("dup", 1008), Function("dup", 1011), Global, Function("gone", 1012)>>

Pe(bits, step) ==
  LET optSize == IF bits = 32 THEN 112 ELSE 128
      raw == 128 + optSize
  IN  [size |-> raw + 18, bad |-> {}, format |-> "Pe", bits |-> bits, arch |-> "X86", entry |-> 1000,
       lfanew |-> 64, signature |-> TRUE, optional |-> TRUE, optSize |-> optSize, ndirs |-> 2,
       stored |-> step, code |-> <<>>,
       sections |-> <<[name |-> ".text", lo |-> raw, hi |-> raw + 16, vaddr |-> 1000, size |-> 12,
                       x |-> TRUE]>>,
       bytes |-> [i \in 1 .. raw + 18 |-> (i * step) % 256]]

Raw(bytes) ==
  [size |-> Len(bytes), bad |-> {i - 1 : i \in {j \in DOMAIN bytes : bytes[j] = Unreadable}},
   format |-> "Unknown", bytes |-> bytes, stored |-> 0, code |-> <<>>]

MCImages ==
  <<Elf(Full, "X86_64", 1000, Code1, SymbolsA, 1100, 56, {}),
    Elf(Full, "X86_64", 1000, Code2, SymbolsB, 1100, 56, {}),
    Elf(Full + 7, "X86_64", 0, Code2, <<>>, 1100, 56, {}),
    Elf(Full - 1, "X86_64", 1000, Code1, SymbolsA, 1100, 56, {}),
    Elf(Full, "Aarch64", 1002, Code2, SymbolsA, 1000, 64, {150}),
    Elf(Full, "X86_64", 1000, Code1, SymbolsA, 1100, 40, {}),
    Pe(32, 37), Pe(32, 255), Pe(64, 251), [Pe(64, 5) EXCEPT !.bad = {260}],
    Raw(<<0, 0, 0, 0, 255, 37, 43>>), Raw(<<72, 101, 108, 108>>), Raw(<<90, 48, 120, 65>>),
    Raw(<<1, Unreadable>>), Raw(<<>>), Raw(<<251, 255, 191, 92, 0>>)>>

MCEditsOf ==
  <<{2, 3, 4}, {1}, {1, 5}, {1}, {3}, {1}, {8, 9}, {7}, {10}, {7}, {12}, {13, 14}, {12, 16}, {15},
    {11}, {12}>>

MCInitialTabs ==
  [structure |-> {<<7, 1>>, <<1, 2, 9>>, <<6, 11>>, <<10>>},
   disasm |-> {<<1>>, <<2, 5>>, <<7, 3>>, <<4>>, <<1, 1>>},
   recipe |-> {<<11>>, <<12, 13>>, <<14>>},
   bindiff |-> {<<1, 2>>, <<2, 1, 5>>, <<3, 1>>, <<7, 2>>},
   bookmarks |-> {<<12>>}]

MCPaths == {"a", "b"}
MCSidecars ==
  {[p \in MCPaths |-> NoFile],
   [p \in MCPaths |-> IF p = "a" THEN FileOf(<<<<Hash>>, <<65, Tab, Number(3)>>>>) ELSE NoFile],
   [p \in MCPaths |-> Save(<<[offset |-> 2, len |-> 1, name |-> <<65>>, description |-> <<>>]>>)]}

\* hex.rs over the words that are typed.
Words1 == {"dead", "10", "3", "300", "9999", "|", "reverse", "zz"}
MCKeyOf == [w \in Words1 |-> CASE w = "dead" -> Made(<<222, 173>>) [] w = "10" -> Made(<<16>>)
                               [] OTHER -> Broken]
MCNumberOf == [w \in Words1 |-> CASE w = "10" -> 10 [] w = "3" -> 3 [] w = "300" -> 300
                                  [] w = "9999" -> 9999
                                  [] OTHER -> 0 - 1]
MCComposed == {"to-base85", "from-base85", "to-z85", "xor", "reverse"}
MCArguments == {<<>>, <<"dead">>, <<"10", "3", "|", "reverse">>, <<"300">>, <<"9999">>}
MCNames == {<<92, 116>>, <<65, 9, 92>>, <<66>>}
MCDescriptions == {<<>>, <<92, 92, 110>>}
MCSelections == {<<0, 4>>, <<1, 3>>}
MCContentAt == [p \in MCPaths |-> IF p = "a" THEN 12 ELSE 11]
MCNotANumber == 0 - 1
=============================================================================
