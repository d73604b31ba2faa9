------------------------------- MODULE Words -------------------------------
(***************************************************************************)
(* The words of the machine and what the arithmetic instructions of        *)
(* yevm-core/src/ops/basic.rs compute on them.  A word is a number below   *)
(* W == 2^N; it has Bytes bytes of ByteBits bits (32 of 8 in the code) and *)
(* its bits are the set of the positions that are 1.  A conversion to      *)
(* usize keeps the low bits: U is 2^64 in the code.                        *)
(***************************************************************************)
EXTENDS Integers, Sequences, FiniteSets, FiniteSetsExt

CONSTANTS ByteBits, Bytes, U

\* The powers of two.
Two[i \in Nat] == IF i = 0 THEN 1 ELSE 2 * Two[i - 1]

N == ByteBits * Bytes
W == Two[N]
Word == 0 .. W - 1

ASSUME WordsAssumption ==
  /\ ByteBits \in Nat \ {0} /\ Bytes \in Nat \ {0}
  /\ U \in Nat \ {0} /\ W % U = 0

AsUsize(x) == x % U

Bit(x, i)   == (x \div Two[i]) % 2 = 1
Bits(x)     == {i \in 0 .. N - 1 : Bit(x, i)}
FromBits(S) == MapThenSumSet(LAMBDA i : Two[i], S)
Bool(p)     == IF p THEN 1 ELSE 0

Not(x)    == W - 1 - x
And(a, b) == FromBits(Bits(a) \cap Bits(b))
Or(a, b)  == FromBits(Bits(a) \cup Bits(b))
Xor(a, b) == FromBits((Bits(a) \cup Bits(b)) \ (Bits(a) \cap Bits(b)))
Shl(s, x) == IF s >= N THEN 0 ELSE (x * Two[s]) % W
Shr(s, x) == IF s >= N THEN 0 ELSE x \div Two[s]

Neg(x)    == (Not(x) + 1) % W
Minus(x)  == Bit(x, N - 1)
Abs(x)    == IF Minus(x) THEN Neg(x) ELSE x

Div(a, b) == IF b = 0 THEN 0 ELSE a \div b
Mod(a, b) == IF b = 0 THEN 0 ELSE a % b

\* Mutant: the sign of the quotient is that of the dividend.
SdivOneSign(a, b) ==
  IF b = 0 THEN 0
  ELSE LET q == Abs(a) \div Abs(b) IN IF Minus(a) THEN Neg(q) ELSE q

Sdiv(a, b) ==
  IF b = 0 THEN 0
  ELSE LET q == Abs(a) \div Abs(b)
       IN  IF Minus(a) # Minus(b) THEN Neg(q) ELSE q

Smod(a, b) ==
  IF b = 0 THEN 0
  ELSE LET r == Abs(a) % Abs(b)
       IN  IF Minus(a) /\ r # 0 THEN Neg(r) ELSE r

\* The order of signed numbers, by flipping the sign bit of both.
Key(x)    == Xor(x, Two[N - 1])
Slt(a, b) == Bool(Key(a) < Key(b))

Signextend(b, x) ==
  IF b >= Bytes THEN x
  ELSE LET low  == Two[b * ByteBits + ByteBits]
           mask == low - 1
       IN  IF Bit(x, b * ByteBits + ByteBits - 1)
           THEN Or(x, Not(mask)) ELSE And(x, mask)

\* The bytes are counted from the most significant one.
Byte(i, x) ==
  IF AsUsize(i) >= Bytes THEN 0
  ELSE Shr((Bytes - 1 - AsUsize(i)) * ByteBits, x) % Two[ByteBits]

\* Arithmetic shift: what is shifted in is the sign.
Sar(s, x) ==
  LET k == IF s < N THEN s ELSE N
  IN  IF Minus(x) THEN Or(Shr(k, x), Not(Shr(k, W - 1))) ELSE Shr(k, x)

BitLen(x) == IF x = 0 THEN 0 ELSE Max(Bits(x)) + 1
Clz(x)    == N - BitLen(x)

\* EIP-160: by the bytes of the exponent.
ExpCost(b) == 10 + 50 * ((BitLen(b) + ByteBits - 1) \div ByteBits)

Pow(a, b) ==
  LET p[k \in 0 .. b] == IF k = 0 THEN 1 ELSE (a * p[k - 1]) % W IN p[b]

Compute(op, x) ==
  CASE op = "ADD" -> (x[1] + x[2]) % W
    [] op = "MUL" -> (x[1] * x[2]) % W
    [] op = "SUB" -> (x[1] - x[2]) % W
    [] op = "DIV" -> Div(x[1], x[2])
    [] op = "SDIV" -> Sdiv(x[1], x[2])
    [] op = "MOD" -> Mod(x[1], x[2])
    [] op = "SMOD" -> Smod(x[1], x[2])
    [] op = "ADDMOD" -> Mod(x[1] + x[2], x[3])
    [] op = "MULMOD" -> Mod(x[1] * x[2], x[3])
    [] op = "EXP" -> Pow(x[1], x[2])
    [] op = "SIGNEXTEND" -> Signextend(x[1], x[2])
    [] op = "LT" -> Bool(x[1] < x[2])
    [] op = "GT" -> Bool(x[1] > x[2])
    [] op = "SLT" -> Slt(x[1], x[2])
    [] op = "SGT" -> Slt(x[2], x[1])
    [] op = "EQ" -> Bool(x[1] = x[2])
    [] op = "ISZERO" -> Bool(x[1] = 0)
    [] op = "AND" -> And(x[1], x[2])
    [] op = "OR" -> Or(x[1], x[2])
    [] op = "XOR" -> Xor(x[1], x[2])
    [] op = "NOT" -> Not(x[1])
    [] op = "BYTE" -> Byte(x[1], x[2])
    [] op = "SHL" -> Shl(x[1], x[2])
    [] op = "SHR" -> Shr(x[1], x[2])
    [] op = "SAR" -> Sar(x[1], x[2])
    [] op = "CLZ" -> Clz(x[1])

----------------------------------------------------------------------------
(* The definitions these are held against: arithmetic on signed numbers.   *)

Signed(x) == IF x >= W \div 2 THEN x - W ELSE x
Wrap(i)   == i % W

\* Division that truncates towards zero, and its remainder.
Quotient(n, d) ==
  CHOOSE q \in -W .. W :
    LET r == n - q * d
    IN  r * r < d * d /\ (r = 0 \/ (r < 0 <=> n < 0))
Remainder(n, d) == n - d * Quotient(n, d)

\* x as a signed number of b + 1 bytes.
Low(b, x) ==
  LET m == Two[(b + 1) * ByteBits]
      y == x % m
  IN  IF 2 * y >= m THEN y - m ELSE y

Reference(op, x) ==
  CASE op = "SDIV" -> IF x[2] = 0 THEN 0 ELSE Wrap(Quotient(Signed(x[1]), Signed(x[2])))
    [] op = "SMOD" -> IF x[2] = 0 THEN 0 ELSE Wrap(Remainder(Signed(x[1]), Signed(x[2])))
    [] op = "SLT" -> Bool(Signed(x[1]) < Signed(x[2]))
    [] op = "SGT" -> Bool(Signed(x[1]) > Signed(x[2]))
    [] op = "SAR" -> Wrap(Signed(x[2]) \div Two[x[1]])
    [] op = "SIGNEXTEND" -> IF x[1] >= Bytes THEN x[2] ELSE Wrap(Low(x[1], x[2]))
    [] op = "CLZ" -> Cardinality({k \in 1 .. N : x[1] < Two[N - k]})

Referenced == {"SDIV", "SMOD", "SLT", "SGT", "SAR", "SIGNEXTEND", "CLZ"}
=============================================================================
