------------------------------- MODULE Codecs --------------------------------
(***************************************************************************)
(* core/src/recipe/codec.rs and bitwise.rs: the text encodings and the      *)
(* byte-wise operations a recipe is made of.  Bytes are 0..255, text is its *)
(* ASCII codes.  An operation gives Made(bytes) or Broken.                  *)
(***************************************************************************)
EXTENDS Words, SequencesExt

Made(bytes) == [ok |-> TRUE, bytes |-> bytes]
Broken == [ok |-> FALSE]

Upper == 65 .. 90
Lower == 97 .. 122
Digits == 48 .. 57
Spaces == {9, 10, 12, 13, 32}
Pad == 61

Chunks(data, n) ==
  [k \in 1 .. (Len(data) + n - 1) \div n |->
     SubSeq(data, (k - 1) * n + 1, IF k * n < Len(data) THEN k * n ELSE Len(data))]
OverChunks(Op(_), data, n) == FlattenSeq([k \in DOMAIN Chunks(data, n) |-> Op(Chunks(data, n)[k])])

\* The characters of an alphabet: its k-th is alphabet[k + 1].
B64Common == [k \in 1 .. 62 |-> IF k <= 26 THEN 64 + k ELSE IF k <= 52 THEN 70 + k ELSE k - 5]
B64(urlSafe) == B64Common \o (IF urlSafe THEN <<45, 95>> ELSE <<43, 47>>)
B32 == [k \in 1 .. 32 |-> IF k <= 26 THEN 64 + k ELSE 23 + k]
Z85 == [k \in 1 .. 62 |-> IF k <= 10 THEN 47 + k ELSE IF k <= 36 THEN 86 + k ELSE 28 + k]
         \o <<46, 45, 58, 43, 61, 94, 33, 47, 42, 63, 38, 60, 62, 40, 41, 91, 93, 123, 125, 64, 37, 36, 35>>

None == 256
Value(alphabet, c) == IF \E k \in DOMAIN alphabet : alphabet[k] = c
                      THEN (CHOOSE k \in DOMAIN alphabet : alphabet[k] = c) - 1 ELSE None
B64Value(c) == IF Value(B64(FALSE), c) # None THEN Value(B64(FALSE), c) ELSE Value(B64(TRUE), c)
B32Value(c) == Value(B32, IF c \in Lower THEN c - 32 ELSE c)

(***************************************************************************)
(* Base64 and Base32: the bits of a group, zero-padded, width at a time.    *)
(***************************************************************************)
BitAt(chunk, k) == IF k \div 8 < Len(chunk)
                   THEN (chunk[k \div 8 + 1] \div 2^(7 - (k % 8))) % 2 ELSE 0
Field(chunk, i, width) ==
  FoldLeftDomain(LAMBDA n, b : n + BitAt(chunk, i * width + b - 1) * 2^(width - b), 0,
                 [b \in 1 .. width |-> b])
Characters(chunk, width, count, carrying, alphabet) ==
  [i \in 1 .. count |->
     IF i <= carrying THEN alphabet[Field(chunk, i - 1, width) + 1] ELSE Pad]

Base64Encode(data, urlSafe) ==
  OverChunks(LAMBDA chunk : Characters(chunk, 6, 4, Len(chunk) + 1, B64(urlSafe)), data, 3)
Base32Encode(data) ==
  OverChunks(LAMBDA chunk : Characters(chunk, 5, 8, <<2, 4, 5, 7, 8>>[Len(chunk)], B32), data, 5)

\* The decoders skip padding and white space and give a byte per full eight
\* bits; acc holds the bits not given yet.
Unpacked(data, width, ValueOf(_)) ==
  LET Take(r, c) ==
        LET bits == r.bits + width
            acc == r.acc * 2^width + ValueOf(c)
        IN  IF ~ r.ok \/ c = Pad \/ c \in Spaces THEN r
            ELSE IF ValueOf(c) = None THEN [r EXCEPT !.ok = FALSE]
            ELSE IF bits < 8 THEN [r EXCEPT !.acc = acc, !.bits = bits]
            ELSE [r EXCEPT !.acc = acc % 2^(bits - 8), !.bits = bits - 8,
                           !.bytes = Append(@, acc \div 2^(bits - 8))]
      end == FoldLeft(Take, [ok |-> TRUE, bytes |-> <<>>, acc |-> 0, bits |-> 0], data)
  IN  IF end.ok THEN Made(end.bytes) ELSE Broken

Base64Decode(data) == Unpacked(data, 6, B64Value)
Base32Decode(data) == Unpacked(data, 5, B32Value)

(***************************************************************************)
(* Base85: five digits for a word of four bytes.                            *)
(***************************************************************************)
Zeros(n) == [i \in 1 .. n |-> 0]
Group(chunk) ==   \* the five digits of a chunk, most significant first
  LET word == FromBE(chunk \o Zeros(4 - Len(chunk)))
      left[i \in 0 .. 5] == IF i = 0 THEN word ELSE DivBy(left[i - 1], 85)
  IN  [k \in 1 .. 5 |-> ModBy(left[5 - k], 85)]
WordOf(digits) == FoldLeft(LAMBDA w, g : MulAdd(w, 85, g), Zero, digits)

Ascii85Encode(data) ==
  LET Of(chunk) == IF chunk = Zeros(4) THEN <<122>>
                   ELSE [k \in 1 .. Len(chunk) + 1 |-> 33 + Group(chunk)[k]]
  IN  OverChunks(Of, data, 4)

\* A plausible slip: the missing digits of the last group are taken as zeros.
ZeroPadded(group) == group \o Zeros(5 - Len(group))

MaxPadded(group) == group \o [i \in 1 .. 5 - Len(group) |-> 84]

Ascii85Decode(data) ==
  LET Bytes(group) == SubSeq(ToBE(WordOf(MaxPadded(group))), 1, Len(group) - 1)
      Take(r, c) ==
        LET group == Append(r.group, c - 33)
        IN  IF ~ r.ok \/ c \in Spaces THEN r
            ELSE IF c = 122 /\ r.group = <<>> THEN [r EXCEPT !.bytes = @ \o Zeros(4)]
            ELSE IF c \notin 33 .. 117 THEN [r EXCEPT !.ok = FALSE]
            ELSE IF Len(group) < 5 THEN [r EXCEPT !.group = group]
            ELSE [r EXCEPT !.group = <<>>, !.bytes = @ \o Bytes(group)]
      end == FoldLeft(Take, [ok |-> TRUE, bytes |-> <<>>, group |-> <<>>], data)
  IN  IF ~ end.ok THEN Broken
      ELSE IF end.group = <<>> THEN Made(end.bytes)
      ELSE Made(end.bytes \o Bytes(end.group))

Z85Encode(data) ==
  IF Len(data) % 4 # 0 THEN Broken
  ELSE Made(OverChunks(LAMBDA chunk : [k \in 1 .. 5 |-> Z85[Group(chunk)[k] + 1]], data, 4))
Z85Decode(data) ==
  LET clean == SelectSeq(data, LAMBDA c : c \notin Spaces)
      values == [i \in DOMAIN clean |-> Value(Z85, clean[i])]
  IN  IF Len(clean) % 5 # 0 \/ \E i \in DOMAIN values : values[i] = None THEN Broken
      ELSE Made(OverChunks(LAMBDA group : ToBE(WordOf(group)), values, 5))

(***************************************************************************)
(* Hex and percent-encoding.                                                *)
(***************************************************************************)
Nibble(n) == IF n < 10 THEN 48 + n ELSE 87 + n
UpperNibble(n) == IF n < 10 THEN 48 + n ELSE 55 + n
HexValue(c) == CASE c \in Digits -> c - 48
                 [] c \in 97 .. 102 -> c - 87
                 [] c \in 65 .. 70 -> c - 55
                 [] OTHER -> None

HexEncode(data) == FlattenSeq([i \in DOMAIN data |-> <<Nibble(data[i] \div 16), Nibble(data[i] % 16)>>])
\* Skips white space, the delimiters , : - _ and a 0x before the digits.
HexDecode(data) ==
  LET Delimiters == {32, 9, 10, 13, 44, 58, 45, 95}
      Prefix(i) == i < Len(data) /\ data[i] = 48 /\ data[i + 1] \in {88, 120}
      InPrefix(i) == Prefix(i) \/ (i > 1 /\ Prefix(i - 1))
      Kept == SelectSeq([i \in DOMAIN data |-> i], LAMBDA i : ~ InPrefix(i) /\ data[i] \notin Delimiters)
      digits == [k \in DOMAIN Kept |-> HexValue(data[Kept[k]])]
  IN  IF Len(digits) % 2 # 0 \/ \E k \in DOMAIN digits : digits[k] = None THEN Broken
      ELSE Made([k \in 1 .. Len(digits) \div 2 |-> digits[2 * k - 1] * 16 + digits[2 * k]])

Unreserved == Upper \cup Lower \cup Digits \cup {45, 95, 46, 126}
UrlEncode(data) ==
  FlattenSeq([i \in DOMAIN data |->
                IF data[i] \in Unreserved THEN <<data[i]>>
                ELSE <<37, UpperNibble(data[i] \div 16), UpperNibble(data[i] % 16)>>])
UrlDecode(data) ==
  LET Digit(i) == IF i <= Len(data) THEN HexValue(data[i]) ELSE None
      from[i \in 1 .. Len(data) + 3] ==
        IF i > Len(data) THEN Made(<<>>)
        ELSE LET wide == data[i] = 37
                 rest == from[IF wide THEN i + 3 ELSE i + 1]
                 byte == IF wide THEN Digit(i + 1) * 16 + Digit(i + 2)
                         ELSE IF data[i] = 43 THEN 32 ELSE data[i]
             IN  IF (wide /\ None \in {Digit(i + 1), Digit(i + 2)}) \/ ~ rest.ok THEN Broken
                 ELSE Made(<<byte>> \o rest.bytes)
  IN  from[1]

(***************************************************************************)
(* bitwise.rs: byte by byte, in place.                                      *)
(***************************************************************************)
XorByte(a, b) == FoldLeftDomain(LAMBDA n, k : n + (IF (a \div 2^(k - 1)) % 2 # (b \div 2^(k - 1)) % 2
                                                   THEN 2^(k - 1) ELSE 0), 0, [k \in 1 .. 8 |-> k])
Xor(data, key) == IF key = <<>> THEN data
                  ELSE [i \in DOMAIN data |-> XorByte(data[i], key[((i - 1) % Len(key)) + 1])]
Added(data, delta) == [i \in DOMAIN data |-> (data[i] + delta) % 256]
Subtracted(data, delta) == [i \in DOMAIN data |-> (data[i] + 256 - delta) % 256]
RotatedLeft(data, bits) ==
  [i \in DOMAIN data |-> ((data[i] * 2^(bits % 8)) % 256) + data[i] \div 2^(8 - (bits % 8))]
RotatedRight(data, bits) == RotatedLeft(data, 8 - (bits % 8))
Not(data) == [i \in DOMAIN data |-> 255 - data[i]]
=============================================================================
