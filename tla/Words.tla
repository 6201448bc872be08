-------------------------------- MODULE Words --------------------------------
(***************************************************************************)
(* 32-bit words, kept as two halves of 16 bits: core/src/recipe/codec.rs    *)
(* takes base-85 digits out of them and core/src/patch.rs adds them up.     *)
(***************************************************************************)
EXTENDS Naturals, Sequences

Half == 65536
Zero == <<0, 0>>

\* u32::from_be_bytes, to_be_bytes.
FromBE(b) == <<b[1] * 256 + b[2], b[3] * 256 + b[4]>>
ToBE(w) == <<w[1] \div 256, w[1] % 256, w[2] \div 256, w[2] % 256>>
\* u32::from_le_bytes, to_le_bytes.
FromLE(b) == FromBE(<<b[4], b[3], b[2], b[1]>>)
ToLE(w) == <<w[2] % 256, w[2] \div 256, w[1] % 256, w[1] \div 256>>

\* n / 85 and n % 85.
DivBy(w, d) == <<w[1] \div d, ((w[1] % d) * Half + w[2]) \div d>>
ModBy(w, d) == ((w[1] % d) * Half + w[2]) % d

\* n.wrapping_mul(m).wrapping_add(a).
MulAdd(w, m, a) ==
  LET low == w[2] * m + a
  IN  <<(w[1] * m + low \div Half) % Half, low % Half>>

\* a + b with the carry out of 32 bits added back in.
FoldedSum(v, w) ==
  LET low == v[2] + w[2]
      high == v[1] + w[1] + low \div Half
      back == (low % Half) + high \div Half
  IN  <<(high % Half) + back \div Half, back % Half>>
=============================================================================
