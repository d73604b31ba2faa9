---------------------------- MODULE Precompiles ----------------------------
(***************************************************************************)
(* The precompiled contracts, yevm-core/src/pre: what a call of one costs, *)
(* whether it succeeds and what it returns.  Curves, hashes and signatures *)
(* belong to libraries: of an input it matters how long it is, and what    *)
(* the points (or signature, proof, flag) in it are.                       *)
(*                                                                         *)
(* MODEXP is modelled in full, on bytes of Base values.  It is priced by   *)
(* sizes it reads from the input, before there need be that much input.    *)
(***************************************************************************)
EXTENDS Integers, Sequences, FiniteSets
LOCAL S == INSTANCE SequencesExt

CONSTANTS
  Base,      \* the values of a byte: 256
  HeadLen,   \* bytes of the exponent that are looked at for the price: 32
  Chunk,     \* bytes of a limb: 8
  MinGas,    \* 500
  MaxU,      \* u64::MAX
  MaxI,      \* i64::MAX
  Ids,       \* the precompiles called
  Inputs,    \* what each of them is given
  Gases      \* the gas a caller lends

ASSUME PrecompilesAssumption ==
  /\ Base \in Nat \ {0, 1} /\ HeadLen \in Nat \ {0} /\ Chunk \in Nat \ {0} /\ MinGas \in Nat
  /\ MaxU \in Nat /\ MaxI \in 0 .. MaxU
  /\ Gases \subseteq 0 .. MaxI

VARIABLE call   \* the call under way, if any: id, in, gas and answer

\* All of the gas is gone, and nothing is returned.
Failure(gas)    == [ok |-> FALSE, out |-> <<>>, size |-> 0, used |-> gas]
Success(n, gas) == [ok |-> TRUE, out |-> <<>>, size |-> n, used |-> gas]

Kinds == {"infinity", "subgroup", "curve", "bad"}
Low(a, b)  == IF a < b THEN a ELSE b
High(a, b) == IF a > b THEN a ELSE b
CeilDiv(a, b) == (a + b - 1) \div b

\* What a precompile asks of an input, takes for it and returns.
Rule(fits, price, takes, size) ==
  [fits |-> fits, price |-> price, takes |-> takes, size |-> size]

----------------------------------------------------------------------------
(* Hashes and signatures do not fail on what they are given.               *)

PerWord(base, word, n, size) == Rule(TRUE, base + word * CeilDiv(n, 32), Kinds, size)

Sha256(in)    == PerWord(60, 12, in.len, 32)
Ripemd160(in) == PerWord(600, 120, in.len, 32)
Identity(in)  == PerWord(15, 3, in.len, in.len)

\* A signature that does not check returns nothing, and costs the same.
Ecrecover(in)  == Rule(TRUE, 3000, Kinds, IF "bad" \in in.kinds THEN 0 ELSE 32)
P256Verify(in) ==
  Rule(TRUE, 6900, Kinds, IF in.len # 160 \/ "bad" \in in.kinds THEN 0 ELSE 32)

----------------------------------------------------------------------------
(* The others fail on an input of a wrong length, or that is no point.     *)

\* A batch of none is as good as any; the library refuses to pair what is not
\* in the subgroup.
Bn128(id, in) ==
  CASE id = 6 -> Rule(TRUE, 150, Kinds \ {"bad"}, 64)
    [] id = 7 -> Rule(TRUE, 6000, Kinds \ {"bad"}, 64)
    [] id = 8 -> Rule(in.len % 192 = 0, 45000 + 34000 * (in.len \div 192),
                      {"infinity", "subgroup"}, 32)

Blake2f(in)         == Rule(in.len = 213, in.rounds, Kinds \ {"bad"}, 64)
PointEvaluation(in) == Rule(in.len = 192, 50000, Kinds \ {"bad"}, 64)

G1Discount ==
  <<1000, 949, 848, 797, 764, 750, 738, 728, 719, 712, 705, 698, 692, 687, 682, 677,
    673, 669, 665, 661, 658, 654, 651, 648, 645, 642, 640, 637, 635, 632, 630, 627,
    625, 623, 621, 619, 617, 615, 613, 611, 609, 608, 606, 604, 603, 601, 599, 598,
    596, 595, 593, 592, 591, 589, 588, 586, 585, 584, 582, 581, 580, 579, 577, 576,
    575, 574, 573, 572, 570, 569, 568, 567, 566, 565, 564, 563, 562, 561, 560, 559,
    558, 557, 556, 555, 554, 553, 552, 551, 550, 549, 548, 547, 547, 546, 545, 544,
    543, 542, 541, 540, 540, 539, 538, 537, 536, 536, 535, 534, 533, 532, 532, 531,
    530, 529, 528, 528, 527, 526, 525, 525, 524, 523, 522, 522, 521, 520, 520, 519>>

G2Discount ==
  <<1000, 1000, 923, 884, 855, 832, 812, 796, 782, 770, 759, 749, 740, 732, 724, 717,
    711, 704, 699, 693, 688, 683, 679, 674, 670, 666, 663, 659, 655, 652, 649, 646,
    643, 640, 637, 634, 632, 629, 627, 624, 622, 620, 618, 615, 613, 611, 609, 607,
    606, 604, 602, 600, 598, 597, 595, 593, 592, 590, 589, 587, 586, 584, 583, 582,
    580, 579, 578, 576, 575, 574, 573, 571, 570, 569, 568, 567, 566, 565, 563, 562,
    561, 560, 559, 558, 557, 556, 555, 554, 553, 552, 552, 551, 550, 549, 548, 547,
    546, 545, 545, 544, 543, 542, 541, 541, 540, 539, 538, 537, 537, 536, 535, 535,
    534, 533, 532, 532, 531, 530, 530, 529, 528, 528, 527, 526, 526, 525, 524, 524>>

\* Mutant: past the table, items are not counted.
MsmPastTable(k, mul, discount) ==
  LET n == Low(k, Len(discount)) IN
  IF k = 0 THEN 0 ELSE (n * mul * discount[n]) \div 1000

Msm(k, mul, discount) ==
  IF k = 0 THEN 0 ELSE (k * mul * discount[Low(k, Len(discount))]) \div 1000

\* The bytes of one item of a batch.
Item == [id \in {8, 12, 14, 15} |->
           CASE id = 8 -> 192 [] id = 12 -> 160 [] id = 14 -> 288 [] id = 15 -> 384]

\* Adding takes any point of the curve, multiplying and pairing only those of
\* the subgroup; a batch of none is refused.
Bls12381(id, in) ==
  LET any      == Kinds \ {"bad"}
      subgroup == {"infinity", "subgroup"}
      batch    == id \in DOMAIN Item /\ in.len # 0 /\ in.len % Item[id] = 0
  IN
  CASE id = 11 -> Rule(in.len = 256, 375, any, 128)
    [] id = 12 -> Rule(batch, Msm(in.len \div 160, 12000, G1Discount), subgroup, 128)
    [] id = 13 -> Rule(in.len = 512, 600, any, 256)
    [] id = 14 -> Rule(batch, Msm(in.len \div 288, 22500, G2Discount), subgroup, 256)
    [] id = 15 -> Rule(batch, 37700 + 32600 * (in.len \div 384), subgroup, 32)
    [] id = 16 -> Rule(in.len = 64, 5500, any, 128)
    [] id = 17 -> Rule(in.len = 128, 23800, any, 256)

----------------------------------------------------------------------------
(* MODEXP: in.b, in.e and in.m are the three size words, in.data what      *)
(* follows them.                                                           *)

\* read_u64, and the saturating operations.
Clamp(n)   == Low(n, MaxU)
Times(a, b) == IF b # 0 /\ a > MaxU \div b THEN MaxU ELSE a * b

\* safe_slice
Slice(data, at, n) == [i \in 1 .. n |-> IF at + i <= Len(data) THEN data[at + i] ELSE 0]

Number(bytes)  == S!FoldLeft(LAMBDA v, b : v * Base + b, 0, bytes)
Digits(v, n)   == [i \in 1 .. n |-> (v \div Base ^ (n - i)) % Base]
BitLength(v)   == IF v = 0 THEN 0 ELSE CHOOSE n \in 1 .. v : 2 ^ (n - 1) <= v /\ v < 2 ^ n

\* Mutant: the exponent is looked for where the base is.
IterationCountOfBase(b, e, data) ==
  IF e <= HeadLen
  THEN High(BitLength(Number(Slice(data, 0, e))), 1) - 1
  ELSE Clamp(High(BitLength(Number(Slice(data, 0, HeadLen))), 1) - 1 + Times(16, e - HeadLen))

\* The whole exponent if it is short, else its head.
IterationCount(b, e, data) ==
  LET at == Low(b, 3 * HeadLen + Len(data)) IN
  IF e <= HeadLen
  THEN High(BitLength(Number(Slice(data, at, e))), 1) - 1
  ELSE Clamp(High(BitLength(Number(Slice(data, at, HeadLen))), 1) - 1 + Times(16, e - HeadLen))

Complexity(n) ==
  IF n <= HeadLen THEN 16 ELSE Times(2, Times(CeilDiv(n, Chunk), CeilDiv(n, Chunk)))

ModexpPrice(b, e, m, data) ==
  Low(MaxI, High(MinGas, Times(Complexity(High(b, m)), High(1, IterationCount(b, e, data)))))

Power(x, y) == IF y = 0 THEN 1 ELSE x ^ y
PowMod(x, y, m) == IF m <= 1 THEN 0 ELSE Power(x, y) % m

Modexp(in, gas) ==
  LET b == Clamp(in.b)  e == Clamp(in.e)  m == Clamp(in.m)
      price == ModexpPrice(b, e, m, in.data)
  IN  IF price > gas THEN Failure(gas)
      ELSE IF m = 0 THEN Success(0, price)
      ELSE [Success(m, price) EXCEPT !.out =
              Digits(PowMod(Number(Slice(in.data, 0, b)), Number(Slice(in.data, b, e)),
                            Number(Slice(in.data, b + e, m))), m)]

----------------------------------------------------------------------------
\* run, of pre/mod.rs.
RuleOf(id, in) ==
  CASE id = 1 -> Ecrecover(in)
    [] id = 2 -> Sha256(in)
    [] id = 3 -> Ripemd160(in)
    [] id = 4 -> Identity(in)
    [] id \in 6 .. 8 -> Bn128(id, in)
    [] id = 9 -> Blake2f(in)
    [] id = 10 -> PointEvaluation(in)
    [] id \in 11 .. 17 -> Bls12381(id, in)
    [] id = 256 -> P256Verify(in)
    [] OTHER -> Rule(TRUE, 0, Kinds, 0)

Run(id, in, gas) ==
  IF id = 5 THEN Modexp(in, gas)
  ELSE LET r == RuleOf(id, in) IN
       IF r.fits /\ r.price <= gas /\ in.kinds \subseteq r.takes
       THEN Success(r.size, r.price) ELSE Failure(gas)

Init == call = <<>>

Call ==
  /\ call = <<>>
  /\ \E id \in Ids, gas \in Gases : \E in \in Inputs[id] :
       call' = <<[id |-> id, in |-> in, gas |-> gas, answer |-> Run(id, in, gas)]>>

Return == call # <<>> /\ call' = <<>>

Spec == Init /\ [][Call \/ Return]_call

----------------------------------------------------------------------------
(* Properties.                                                             *)

\* Doing two batches in one is never dearer than doing them apart, and a
\* longer batch never cheaper, through the whole of the discount tables and
\* past their ends (pairings, multiplications on BLS12-381).
BatchPrice(id, k) == RuleOf(id, [len |-> k * Item[id]]).price

BatchingPays ==
  \A c \in {call[i] : i \in DOMAIN call} :
    c.id \in DOMAIN Item /\ c.answer.ok =>
      LET k == c.in.len \div Item[c.id] IN
      \A j \in 1 .. k - 1 :
        /\ c.answer.used <= BatchPrice(c.id, j) + BatchPrice(c.id, k - j)
        /\ c.answer.used > BatchPrice(c.id, j)

\* What follows the sizes, with zeros after it for ever.
Padded(data, i) == IF i <= Len(data) THEN data[i] ELSE 0
Part(data, at, n) ==
  LET Horner[i \in 0 .. n] == IF i = 0 THEN 0 ELSE Base * Horner[i - 1] + Padded(data, at + i)
  IN  Horner[n]

\* EIP-198 reads base, exponent and modulus from an input that goes on with
\* zeros.  What MODEXP returns is their power, in as many bytes as the modulus
\* has; it costs at least 16 a bit of the exponent (EIP-7883), and the sizes are
\* "guaranteed reasonable" (modexp.rs:29) once the price is paid: so much work
\* as the gas allows, for whatever sizes an input announces.
ModexpIsOfPaddedInput ==
  \A c \in {call[i] : i \in DOMAIN call} :
    c.id = 5 /\ c.answer.ok =>
      LET in   == c.in
          M    == Part(in.data, in.b + in.e, in.m)
          E    == Part(in.data, in.b, in.e)
          res  == S!FoldLeft(LAMBDA v, d : v * Base + d, 0, c.answer.out)
      IN  /\ in.m # 0 =>
               /\ Len(c.answer.out) = in.m
               /\ M > 1 => res < M /\ (Power(Part(in.data, 0, in.b), E) - res) % M = 0
               /\ M <= 1 => res = 0
               /\ 2 * CeilDiv(in.b, Chunk) ^ 2 <= c.answer.used \/ in.b <= HeadLen
               /\ in.e > HeadLen => 256 * (in.e - HeadLen) <= c.answer.used
          /\ \A n \in 1 .. 8 : in.e <= HeadLen /\ E >= 2 ^ n => 16 * n <= c.answer.used
          /\ c.answer.used <= c.gas
=============================================================================
