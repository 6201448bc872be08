------------------------------- MODULE MCTools -------------------------------
(* Instances of the panels for TLC: documents, files and what is asked. *)
EXTENDS Workbench

Bad == 256

\* A text with two-byte characters, one of them broken, and UTF-16.
TextDoc == <<65, 195, 169, 66, 226, 130, 67, 68>>
WideDoc == <<0, 65, 0, 66, 0, 67, 1>>
\* ABC and BCD overlap, and the second needs a further byte.
CarvedDoc == <<65, 66, 67, 68, 65, 69, 66>>
RawDoc == <<200, 255, 65>>
BrokenDoc == <<65, 66, Bad, 66, 65>>

MCTabSets ==
  {<<TextDoc, RawDoc>>, <<WideDoc>>, <<CarvedDoc, SubSeq(CarvedDoc, 1, 4)>>, <<BrokenDoc, <<>>>>,
   <<RawDoc, <<200, 255, 66, 65>>>>}

MCPartNames == <<"p0", "p1", "p2", "p3", "p4", "p5", "p6", "p7">>
MCFiles == {"a", "b", "out"} \cup ToSet(MCPartNames)
MCFileSets ==
  {[f \in MCFiles |-> CASE f = "a" -> File(<<1, 2>>) [] f = "b" -> File(<<3, 4, 5>>)
                        [] f = "p1" -> File(<<9>>) [] OTHER -> NoFile]}

MCSelections == {<<1, 3>>, <<2, 2>>}

MCAnalysis ==
  {[kind |-> "Digest", algos |-> <<"Sha256", "Adler32", "Sum64">>],
   [kind |-> "Strings", encodings |-> <<"Utf8", "Utf16Le">>, minChars |-> 2],
   [kind |-> "Stats", blockSize |-> 3], [kind |-> "Stats", blockSize |-> 0],
   [kind |-> "Magic"]}

MCTools ==
  {[kind |-> "Export", fmt |-> fmt, cols |-> 2, offset |-> 10] : fmt \in {"HexText", "C", "Html"}}
  \cup {[kind |-> "Record", fmt |-> fmt, base |-> base, recLen |-> 2] :
          fmt \in RecordFormats, base \in {65533, 16777214}}
  \cup {[kind |-> "Split", partSize |-> size] : size \in {1, 3}}
  \cup {[kind |-> "Concat", inputs |-> inputs] : inputs \in {<<"b", "a">>, <<"a", "out">>}}

MCSecond ==
  {[kind |-> "Concat", inputs |-> <<"b", "a">>],
   [kind |-> "Record", fmt |-> "Srec", base |-> 0, recLen |-> 2]}

MCSignatures ==
  <<[offset |-> 0, magic |-> <<65, 66, 67>>, also |-> <<>>],
    [offset |-> 0, magic |-> <<66, 67, 68>>, also |-> <<4, <<69>>>>],
    [offset |-> 1, magic |-> <<68, 65>>, also |-> <<>>]>>
=============================================================================
