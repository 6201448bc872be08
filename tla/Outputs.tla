------------------------------- MODULE Outputs -------------------------------
(* The jobs of the tools panel: texts, record files, split and join. *)
EXTENDS ByteJobs

(***************************************************************************)
(* core/src/export: a range as byte literals of a language, or as a dump.   *)
(* The text is a sequence of tokens: Open and Close stand for the wording   *)
(* around the bytes.  The text column of a dump is one cell per byte, as in *)
(* the one-byte character sets; the others decode each step's bytes alone.  *)
(***************************************************************************)
CONSTANT EXPORT_WINDOW   \* export.rs WINDOW, smaller than the jobs' own

Dumps == {"Txt", "Html", "Rtf", "Tex"}
Literals == {"C", "Java", "CSharp", "Pascal", "Python"}
ExportFormats == {"HexText"} \cup Literals \cup Dumps

IsDump(fmt) == fmt \in Dumps
Plain(fmt) == fmt \in {"HexText", "Txt"}

Byte(b) == [t |-> "Byte", b |-> b]
Comma == [t |-> "Comma"]
NewLine == [t |-> "NewLine"]
Space == [t |-> "Space"]
DumpLine(offset, data) == [t |-> "Line", offset |-> offset, data |-> data]

\* cols, the format and the offset of the first byte on the display.
NewExport(fmt, cols, offsetStart, lo, hi, docLen) ==
  [kind |-> "Export", fmt |-> fmt, cols |-> Most(cols, 1), offsetStart |-> offsetStart,
   cursor |-> CursorOver(lo, hi, docLen, EXPORT_WINDOW), headerDone |-> FALSE, finished |-> FALSE]

Header(fmt, len) == IF Plain(fmt) THEN <<>> ELSE <<[t |-> "Open", fmt |-> fmt, len |-> len]>>
Footer(fmt) == IF Plain(fmt) THEN <<>> ELSE <<[t |-> "Close", fmt |-> fmt]>>

\* Separators are decided by the index in the whole range, so that no comma
\* dangles however the range is cut.
Separator(fmt, cols, i) ==
  IF fmt = "HexText"
  THEN IF i = 0 THEN <<>> ELSE IF i % cols = 0 THEN <<NewLine>> ELSE <<Space>>
  ELSE (IF i > 0 THEN <<Comma>> ELSE <<>>) \o (IF i % cols = 0 THEN <<NewLine>> ELSE <<Space>>)

LiteralChunk(j, at, data) ==
  FlattenSeq([k \in DOMAIN data |->
                Separator(j.fmt, j.cols, at - j.cursor.start + k - 1) \o <<Byte(data[k])>>])
    \o (IF j.fmt = "HexText" /\ at + Len(data) = j.cursor.end THEN <<NewLine>> ELSE <<>>)

DumpChunk(j, at, data) ==
  [row \in 1 .. (Len(data) + j.cols - 1) \div j.cols |->
     DumpLine(at + (row - 1) * j.cols + j.offsetStart, Slice(data, (row - 1) * j.cols, j.cols))]

\* Whole lines: a step never cuts one.
ExportStep(j, doc, budget) ==
  LET pos == j.cursor.pos
      n == NextLen(j.cursor, budget, j.cols)
      data == Slice(doc, pos, n)
      cursor == Advanced(j.cursor, n)
      head == IF j.headerDone THEN <<>> ELSE Header(j.fmt, Total(j.cursor))
      body == IF IsDone(j.cursor) THEN <<>>
              ELSE IF IsDump(j.fmt) THEN DumpChunk(j, pos, data) ELSE LiteralChunk(j, pos, data)
      foot == IF IsDone(cursor) THEN Footer(j.fmt) ELSE <<>>
      after == [j EXCEPT !.cursor = cursor, !.headerDone = TRUE, !.finished = IsDone(cursor)]
  IN  IF j.finished THEN Done(j)
      ELSE IF ~IsClean(data) THEN Failed(j)
      ELSE Went(after, head \o body \o foot, n, after.finished)

-----------------------------------------------------------------------------
(* The text of a range, line by line.                                       *)

LinesOf(data, cols) ==
  [row \in 1 .. (Len(data) + cols - 1) \div cols |-> Slice(data, (row - 1) * cols, cols)]

Joined(line, separator) ==
  FlattenSeq([k \in DOMAIN line |-> (IF k > 1 THEN separator ELSE <<>>) \o <<Byte(line[k])>>])

ExportOf(fmt, cols, display, data) ==
  LET lines == LinesOf(data, cols)
      Line(row) ==
        CASE fmt = "HexText" -> Joined(lines[row], <<Space>>) \o <<NewLine>>
          [] fmt \in Dumps -> <<DumpLine(display + (row - 1) * cols, lines[row])>>
          [] OTHER -> (IF row > 1 THEN <<Comma>> ELSE <<>>) \o <<NewLine>>
                        \o Joined(lines[row], <<Comma, Space>>)
  IN  Header(fmt, Len(data)) \o FlattenSeq([row \in DOMAIN lines |-> Line(row)]) \o Footer(fmt)

-----------------------------------------------------------------------------
(***************************************************************************)
(* core/src/hexfile: Intel HEX and Motorola S-record files.  A file is a     *)
(* sequence of records; the hexadecimal digits of a record are left out,    *)
(* its bytes and its checksum are not.                                      *)
(***************************************************************************)
CONSTANTS
  RECORD_WINDOW,   \* hexfile/export.rs WINDOW
  MAX_REC_LEN,     \* 250: data bytes of a record
  ADDR_LIMIT       \* 2^32, the end of both address spaces

RecordFormats == {"IntelHex", "Srec"}
Bank == 65536        \* 2^16: what the address of an Intel HEX record reaches
Medium == 16777216   \* 2^24

SumOfBytes(data) == OverIndices(LAMBDA acc, i : (acc + data[i]) % 256, 0, data)

\* The last width bytes of a number, the most significant first.
BytesOf(value, width) == [i \in 1 .. width |-> (value \div 256 ^ (width - i)) % 256]
ValueOf(data) == OverIndices(LAMBDA acc, i : acc * 256 + data[i], 0, data)

\* The bytes of a record after its start code: length, address, type and data,
\* then the checksum.
IhexRecord(type, addr, data) ==
  With(<<Len(data) % 256>> \o BytesOf(addr, 2) \o <<type>> \o data,
       LAMBDA body : [start |-> "Colon", bytes |-> Append(body, (256 - SumOfBytes(body)) % 256)])
SrecRecord(type, width, addr, data) ==
  With(<<(width + Len(data) + 1) % 256>> \o BytesOf(addr, width) \o data,
       LAMBDA body : [start |-> "S", type |-> type, bytes |-> Append(body, 255 - SumOfBytes(body))])

-----------------------------------------------------------------------------
(* The export.                                                              *)

AddressesFit(base, len) == base + len <= ADDR_LIMIT
SrecType(endAddr) == IF endAddr <= Bank THEN 1 ELSE IF endAddr <= Medium THEN 2 ELSE 3
AddrWidth(type) == 1 + type

NewRecords(fmt, lo, hi, base, recLen, docLen) ==
  LET cursor == CursorOver(lo, hi, docLen, RECORD_WINDOW)
  IN  [kind |-> "Record", fmt |-> fmt, cursor |-> cursor, base |-> base,
       recLen |-> Least(Most(recLen, 1), MAX_REC_LEN),
       linearBase |-> 0, srecType |-> SrecType(base + Total(cursor)),
       dataRecords |-> 0, headerDone |-> FALSE, finished |-> FALSE]

\* A plausible slip: a record that crosses into the next bank.
NextTakeAcross(j, addr, rest) == Least(j.recLen, rest)

\* One data record of a step, from off on: in Intel HEX it ends with its bank,
\* and another bank is announced first.
NextTake(j, addr, rest) ==
  LET take == Least(j.recLen, rest)
  IN  IF j.fmt = "IntelHex" THEN Least(take, Bank - (addr % Bank)) ELSE take

OneRecord(j, addr, data) ==
  LET upper == addr \div Bank
  IN  IF j.fmt = "Srec" THEN <<SrecRecord(j.srecType, AddrWidth(j.srecType), addr, data)>>
      ELSE (IF j.linearBase = upper THEN <<>> ELSE <<IhexRecord(4, 0, BytesOf(upper, 2))>>)
             \o <<IhexRecord(0, addr % Bank, data)>>

\* The records of a step's bytes, the first of which has address addr.
RecordsFrom(j, addr, data) ==
  LET Record(acc, i) ==
        LET at == addr + acc.off
            take == NextTake(acc.job, at, Len(data) - acc.off)
        IN  IF acc.off = Len(data) THEN acc
            ELSE [off |-> acc.off + take,
                  out |-> acc.out \o OneRecord(acc.job, at, Slice(data, acc.off, take)),
                  job |-> IF j.fmt = "Srec" THEN [acc.job EXCEPT !.dataRecords = @ + 1]
                          ELSE [acc.job EXCEPT !.linearBase = at \div Bank]]
  IN  OverIndices(Record, [off |-> 0, out |-> <<>>, job |-> j], data)

RecordHeader(fmt) == IF fmt = "Srec" THEN <<SrecRecord(0, 2, 0, <<104, 101, 120, 101, 100>>)>> ELSE <<>>

\* The count of data records, where it fits, and the terminator paired with the
\* type of the data records, pointing at the start.
Terminators(j) ==
  IF j.fmt = "IntelHex" THEN <<IhexRecord(1, 0, <<>>)>>
  ELSE (IF j.dataRecords < Bank THEN <<SrecRecord(5, 2, j.dataRecords, <<>>)>>
        ELSE IF j.dataRecords < Medium THEN <<SrecRecord(6, 3, j.dataRecords, <<>>)>> ELSE <<>>)
       \o <<SrecRecord(10 - j.srecType, AddrWidth(j.srecType), j.base, <<>>)>>

RecordsStep(j, doc, budget) ==
  LET n == NextLen(j.cursor, budget, j.recLen)
      data == Slice(doc, j.cursor.pos, n)
      cursor == Advanced(j.cursor, n)
      head == IF j.headerDone THEN <<>> ELSE RecordHeader(j.fmt)
      foot(job) == IF IsDone(cursor) THEN Terminators(job) ELSE <<>>
  IN  IF j.finished THEN Done(j)
      ELSE IF ~IsClean(data) THEN Failed(j)
      ELSE With(RecordsFrom(j, j.base + (j.cursor.pos - j.cursor.start), data),
                LAMBDA records :
                  Went([records.job EXCEPT !.cursor = cursor, !.headerDone = TRUE, !.finished = IsDone(cursor)],
                       head \o records.out \o foot(records.job), n, IsDone(cursor)))

-----------------------------------------------------------------------------
(* The import: the segments <<address, bytes>> in order, and the entry.     *)

NoEntry == -1
Refused == [kind |-> "Refused"]
Image(segments, entry) == [kind |-> "Image", segments |-> segments, entry |-> entry]

\* Sorted and merged; two records that write one address are a corrupt file.
Normalized(segments, entry) ==
  LET full == SelectSeq(segments, LAMBDA s : s.data # <<>>)
      Before(i, k) == full[i].addr < full[k].addr \/ (full[i].addr = full[k].addr /\ i < k)
      order == SortSeq([i \in DOMAIN full |-> i], Before)
      Merge(acc, k) ==
        LET seg == full[order[k]]
            prev == acc.segments[Len(acc.segments)]
            prevEnd == prev.addr + Len(prev.data)
        IN  IF acc.kind = "Refused" THEN acc
            ELSE IF acc.segments = <<>> \/ seg.addr > prevEnd
            THEN [acc EXCEPT !.segments = Append(@, seg)]
            ELSE IF seg.addr < prevEnd THEN Refused
            ELSE [acc EXCEPT !.segments[Len(acc.segments)].data = @ \o seg.data]
  IN  OverIndices(Merge, Image(<<>>, entry), order)

\* What the records read so far give: the image, or why no more are read.
Parsing(segments, entry, base, records, ended) ==
  [kind |-> "Parsing", segments |-> segments, entry |-> entry, base |-> base,
   records |-> records, ended |-> ended]

IhexLine(acc, r) ==
  LET bytes == r.bytes
      len == bytes[1]
      addr == ValueOf(SubSeq(bytes, 2, 3))
      type == bytes[4]
      data == SubSeq(bytes, 5, 4 + len)
      wellFormed == /\ r.start = "Colon" /\ Len(bytes) >= 5
                    /\ Len(bytes) = len + 5 /\ SumOfBytes(bytes) = 0
  IN  IF acc.kind = "Refused" \/ acc.ended THEN acc
      ELSE IF ~wellFormed THEN Refused
      ELSE CASE type = 0 -> [acc EXCEPT !.segments = Append(@, [addr |-> acc.base + addr, data |-> data])]
             [] type = 1 -> [acc EXCEPT !.ended = TRUE]
             [] type \in {2, 4} /\ len = 2 ->
                  [acc EXCEPT !.base = IF type = 2 THEN ValueOf(data) * 16 ELSE ValueOf(data) * Bank]
             [] type = 3 /\ len = 4 ->
                  [acc EXCEPT !.entry = ValueOf(SubSeq(data, 1, 2)) * 16 + ValueOf(SubSeq(data, 3, 4))]
             [] type = 5 /\ len = 4 -> [acc EXCEPT !.entry = ValueOf(data)]
             [] OTHER -> Refused

SrecLine(acc, r) ==
  LET bytes == r.bytes
      width == CASE r.type \in {0, 1, 5, 9} -> 2 [] r.type \in {2, 6, 8} -> 3 [] OTHER -> 4
      addr == ValueOf(SubSeq(bytes, 2, 1 + width))
      data == SubSeq(bytes, 2 + width, Len(bytes) - 1)
      wellFormed == /\ r.start = "S" /\ Len(bytes) >= 3 /\ Len(bytes) = bytes[1] + 1
                    /\ 255 - SumOfBytes(SubSeq(bytes, 1, Len(bytes) - 1)) = bytes[Len(bytes)]
                    /\ r.type \in (0 .. 3) \cup (5 .. 9) /\ bytes[1] >= width + 1
  IN  IF acc.kind = "Refused" THEN acc
      ELSE IF acc.ended \/ ~wellFormed THEN Refused
      ELSE CASE r.type = 0 -> acc
             [] r.type \in 1 .. 3 -> [acc EXCEPT !.segments = Append(@, [addr |-> addr, data |-> data]),
                                                 !.records = @ + 1]
             [] r.type \in {5, 6} -> IF addr = acc.records THEN acc ELSE Refused
             [] OTHER -> [acc EXCEPT !.entry = addr, !.ended = TRUE]

ParseRecords(fmt, file) ==
  LET Line(acc, i) == IF fmt = "IntelHex" THEN IhexLine(acc, file[i]) ELSE SrecLine(acc, file[i])
      read == OverIndices(Line, Parsing(<<>>, NoEntry, 0, 0, FALSE), file)
  IN  IF read.kind = "Refused" \/ ~read.ended THEN Refused ELSE Normalized(read.segments, read.entry)

\* The format is that of the first line.
ParseFile(file) ==
  IF file = <<>> THEN Refused
  ELSE ParseRecords(IF file[1].start = "Colon" THEN "IntelHex" ELSE "Srec", file)

\* The image as one run of bytes, its gaps filled.
Flattened(image, fill) ==
  LET Lay(acc, i) ==
        LET seg == image.segments[i] IN
        [at |-> seg.addr + Len(seg.data),
         out |-> acc.out \o [k \in 1 .. seg.addr - acc.at |-> fill] \o seg.data]
  IN  IF image.segments = <<>> THEN <<>>
      ELSE OverIndices(Lay, [at |-> image.segments[1].addr, out |-> <<>>], image.segments).out

-----------------------------------------------------------------------------
(***************************************************************************)
(* core/src/transform.rs: a document split into part files, and files       *)
(* joined into one.  Both write into a temporary file, and give it its name *)
(* when it is complete.                                                     *)
(***************************************************************************)
CONSTANT MAX_PARTS   \* 1000000: more parts than that is a typo

PartsOf(len, partSize) == (len + partSize - 1) \div partSize
SplitAllowed(len, partSize) == partSize > 0 /\ len > 0 /\ PartsOf(len, partSize) <= MAX_PARTS

NewSplit(docLen, partSize) ==
  [kind |-> "Split", partSize |-> partSize, docLen |-> docLen, pos |-> 0,
   open |-> FALSE, current |-> <<>>, filled |-> 0, written |-> 0]

SplitFinished(j) == j.pos >= j.docLen /\ ~j.open

\* One piece of a step: what the part under construction still takes.  A part
\* that is full, or the last one, gets its name: out is what is named.
\* ioFails: the temporary file, the write or the renaming fails.
SplitPiece(acc, doc, ioFails) ==
  LET j == acc.job
      n == Least(Least(j.partSize - j.filled, acc.left), j.docLen - j.pos)
      data == Slice(doc, j.pos, n)
      current == j.current \o data
      pos == j.pos + n
      full == j.filled + n = j.partSize \/ pos = j.docLen
  IN  IF ~IsClean(data) \/ ioFails THEN [acc EXCEPT !.ok = FALSE, !.left = 0]
      ELSE [ok |-> TRUE, left |-> acc.left - n,
            out |-> IF full THEN Append(acc.out, current) ELSE acc.out,
            job |-> IF full
                    THEN [j EXCEPT !.pos = pos, !.open = FALSE, !.current = <<>>, !.filled = 0,
                                   !.written = @ + 1]
                    ELSE [j EXCEPT !.pos = pos, !.open = TRUE, !.current = current, !.filled = @ + n]]

\* failAt is the piece whose files fail, 0 for none.
SplitStep(j, doc, budget, failAt) ==
  LET left == Least(Most(budget, 1), WINDOW)
      Piece(acc, i) ==
        IF acc.left = 0 \/ acc.job.pos >= acc.job.docLen THEN acc ELSE SplitPiece(acc, doc, i = failAt)
  IN  IF SplitFinished(j) THEN Done(j)
      ELSE With(Repeat(Piece, [ok |-> TRUE, left |-> left, out |-> <<>>, job |-> j], left),
                LAMBDA acc : IF acc.ok THEN Went(acc.job, acc.out, acc.job.pos - j.pos, SplitFinished(acc.job))
                             ELSE Failed(acc.job))

\* The parts a document of this content has.
SplitOf(data, partSize) ==
  [k \in 1 .. PartsOf(Len(data), partSize) |-> Slice(data, (k - 1) * partSize, partSize)]

-----------------------------------------------------------------------------
\* The output may not be one of the inputs.
JoinAllowed(inputs, out) == inputs # <<>> /\ \A i \in DOMAIN inputs : inputs[i] # out

\* pos is the offset in the open input, and 0 before it is opened.
NewJoin(inputs) == [kind |-> "Concat", inputs |-> inputs, index |-> 1, pos |-> 0, written |-> <<>>]

\* A plausible slip: the job is over when the last input is reached.
JoinFinishedAtLast(j) == j.index >= Len(j.inputs)

JoinFinished(j) == j.index > Len(j.inputs)

\* An input ends with the read that gives nothing: one that ends together with
\* the budget is left open for the next step.
JoinRead(acc, files) ==
  LET j == acc.job
      read == Slice(files[j.inputs[j.index]], j.pos, acc.left)
  IN  IF acc.left = 0 \/ JoinFinished(j) THEN acc
      ELSE IF read = <<>> THEN [acc EXCEPT !.job.index = @ + 1, !.job.pos = 0]
      ELSE [job |-> [j EXCEPT !.pos = @ + Len(read), !.written = @ \o read], left |-> acc.left - Len(read)]

JoinStep(j, files, budget, ioFails) ==
  LET left == Least(Most(budget, 1), WINDOW)
  IN  IF JoinFinished(j) THEN Done(j)
      ELSE IF ioFails THEN Failed(j)
      ELSE With(Repeat(LAMBDA acc, i : JoinRead(acc, files), [job |-> j, left |-> left], left + Len(j.inputs)),
                LAMBDA acc : Went(acc.job, <<>>, Len(acc.job.written) - Len(j.written), JoinFinished(acc.job)))

JoinOf(inputs, files) == FlattenSeq([i \in DOMAIN inputs |-> files[inputs[i]]])
=============================================================================
