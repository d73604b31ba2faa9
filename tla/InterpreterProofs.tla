-------------------------- MODULE InterpreterProofs --------------------------
(***************************************************************************)
(* What holds of every run of the interpreter (Interpreter.tla, Machine.tla,*)
(* Opcodes.tla), for every width of a word, every set of jobs and every     *)
(* table of delegations.                                                    *)
(*                                                                         *)
(* The proof follows the way an instruction is written: Dispatch gives an  *)
(* operation a program of steps and Handle folds the steps over the frame. *)
(*   words      the operators of Words stay within words                   *)
(*   signed     what the signed instructions compute with masks is         *)
(*              arithmetic on signed numbers                               *)
(*   frames     the type of each field, and which fields a step may change *)
(*   programs   Legal: which step may stand where, of the program of every *)
(*              operation (operands are checked before they are read,      *)
(*              memory is paid for before it is used, ...)                 *)
(*   steps      what each kind of step does to a frame                     *)
(*   middle     Mid: what holds of the frame after the first k steps of a  *)
(*              legal program, by induction on k                           *)
(*   frames     Safe: what holds of a frame between two instructions, and  *)
(*              that each action of Interpreter keeps it                   *)
(*   data       Alike: a frame and the one that holds all data from the    *)
(*              start differ in nothing else, and every step of a program  *)
(*              that asks for none keeps them so: the refinement of        *)
(*              AtomicFrame                                                *)
(***************************************************************************)
EXTENDS FrameRefinement, Sums, SequenceTheorems, TLAPS

----------------------------------------------------------------------------
(* The powers of two.                                                      *)

\* g is Two on 0..n.
Doubles(g, n) == \A i \in 0 .. n : g[i] = IF i = 0 THEN 1 ELSE 2 * g[i - 1]

LEMMA DoublesExists == \A n \in Nat : \E g \in [0 .. n -> Nat \ {0}] : Doubles(g, n)
<1> DEFINE Bad == {n \in Nat : ~ \E g \in [0 .. n -> Nat \ {0}] : Doubles(g, n)}
<1>1. SUFFICES ASSUME Bad # {} PROVE FALSE
  OBVIOUS
<1>2. PICK n \in Bad : \A m \in Bad : n <= m
  BY <1>1, LeastExists
<1>3. n # 0
  <2>1. [i \in 0 .. 0 |-> 1] \in [0 .. 0 -> Nat \ {0}] /\ Doubles([i \in 0 .. 0 |-> 1], 0)
    BY DEF Doubles
  <2> QED BY <2>1
<1>4. n - 1 \in Nat /\ n - 1 \notin Bad
  <2>1. n \in Nat /\ n - 1 \in Nat /\ ~ n <= n - 1
    BY <1>3
  <2> HIDE DEF Bad
  <2> QED BY <1>2, <2>1
<1>5. PICK g \in [0 .. n - 1 -> Nat \ {0}] : Doubles(g, n - 1)
  BY <1>4
<1> DEFINE h == [i \in 0 .. n |-> IF i = n THEN 2 * g[n - 1] ELSE g[i]]
<1>6. h \in [0 .. n -> Nat \ {0}]
  BY <1>4
<1>7. \A i \in 0 .. n : h[i] = IF i = 0 THEN 1 ELSE 2 * h[i - 1]
  BY <1>3, <1>4, <1>5 DEF Doubles
<1> HIDE DEF h
<1> QED BY <1>2, <1>6, <1>7 DEF Doubles

LEMMA DoublesUnique ==
  ASSUME NEW n \in Nat, NEW m \in Nat, NEW g, NEW h, Doubles(g, n), Doubles(h, m)
  PROVE  \A i \in 0 .. n : i <= m => g[i] = h[i]
<1> DEFINE Bad == {i \in 0 .. n : i <= m /\ g[i] # h[i]}
<1>1. SUFFICES ASSUME Bad # {} PROVE FALSE
  OBVIOUS
<1>2. PICK i \in Bad : \A j \in Bad : i <= j
  <2>1. Bad \subseteq Nat OBVIOUS
  <2> QED BY <1>1, <2>1, LeastExists
<1>3. /\ g[i] = IF i = 0 THEN 1 ELSE 2 * g[i - 1]
      /\ h[i] = IF i = 0 THEN 1 ELSE 2 * h[i - 1]
  BY DEF Doubles
<1>4. i # 0 => i - 1 \in 0 .. n /\ i - 1 <= m /\ i - 1 \notin Bad
  BY <1>2
<1>5. i # 0 => g[i - 1] = h[i - 1]
  BY <1>4
<1> QED BY <1>3, <1>5

LEMMA TwoRecursion == Two = [i \in Nat |-> IF i = 0 THEN 1 ELSE 2 * Two[i - 1]]
<1> DEFINE row(n) == CHOOSE g \in [0 .. n -> Nat \ {0}] : Doubles(g, n)
           t == [i \in Nat |-> row(i)[i]]
<1>1. \A n \in Nat : row(n) \in [0 .. n -> Nat \ {0}] /\ Doubles(row(n), n)
  BY DoublesExists
<1> HIDE DEF row
<1>2. ASSUME NEW i \in Nat PROVE t[i] = IF i = 0 THEN 1 ELSE 2 * t[i - 1]
  <2>1. row(i)[i] = IF i = 0 THEN 1 ELSE 2 * row(i)[i - 1]
    BY <1>1 DEF Doubles
  <2>2. ASSUME i # 0 PROVE row(i)[i - 1] = row(i - 1)[i - 1]
    <3>1. i - 1 \in Nat /\ i - 1 \in 0 .. i - 1 /\ i - 1 <= i
      BY <2>2
    <3>2. Doubles(row(i), i) /\ Doubles(row(i - 1), i - 1)
      BY <1>1, <3>1
    <3> QED BY <3>1, <3>2, DoublesUnique
  <2>3. i # 0 => t[i - 1] = row(i - 1)[i - 1]
    OBVIOUS
  <2> QED BY <2>1, <2>2, <2>3
<1> HIDE DEF t
<1>3. t = [i \in Nat |-> IF i = 0 THEN 1 ELSE 2 * t[i - 1]]
  <2>1. t = [i \in Nat |-> t[i]] BY DEF t
  <2> QED BY <1>2, <2>1
<1> QED BY <1>3, Zenon DEF Two

LEMMA TwoZero == Two[0] = 1
BY TwoRecursion

LEMMA TwoNext == \A i \in Nat : Two[i + 1] = 2 * Two[i]
<1> TAKE i \in Nat
<1>1. i + 1 \in Nat /\ i + 1 # 0 /\ (i + 1) - 1 = i
  OBVIOUS
<1>2. Two[i + 1] = 2 * Two[(i + 1) - 1]
  BY <1>1, TwoRecursion
<1> QED BY <1>1, <1>2

LEMMA TwoType == \A i \in Nat : Two[i] \in Nat \ {0}
<1> DEFINE Bad == {i \in Nat : Two[i] \notin Nat \ {0}}
<1>1. SUFFICES ASSUME Bad # {} PROVE FALSE
  OBVIOUS
<1>2. PICK i \in Bad : \A j \in Bad : i <= j
  BY <1>1, LeastExists
<1>3. i # 0
  BY TwoZero
<1>4. i - 1 \in Nat /\ (i - 1) + 1 = i
  BY <1>3
<1>5. Two[i - 1] \in Nat \ {0}
  BY <1>2, <1>4
<1>6. Two[i] = 2 * Two[i - 1]
  BY <1>4, TwoNext
<1> QED BY <1>5, <1>6

LEMMA TwoSum == \A a, b \in Nat : Two[a + b] = Two[a] * Two[b]
<1> TAKE a \in Nat
<1> DEFINE Bad == {b \in Nat : Two[a + b] # Two[a] * Two[b]}
<1>1. SUFFICES ASSUME Bad # {} PROVE FALSE
  OBVIOUS
<1>2. PICK b \in Bad : \A j \in Bad : b <= j
  BY <1>1, LeastExists
<1>3. b # 0
  BY TwoZero, TwoType
<1> DEFINE c == b - 1
<1>4. c \in Nat /\ c + 1 = b /\ c \notin Bad
  BY <1>2, <1>3
<1>5. Two[a + c] = Two[a] * Two[c]
  BY <1>4
<1> HIDE DEF c
<1>6. Two[a + (c + 1)] = 2 * Two[a + c]
  <2>1. a + c \in Nat /\ a + (c + 1) = (a + c) + 1
    BY <1>4
  <2> QED BY <2>1, TwoNext
<1>7. Two[c + 1] = 2 * Two[c]
  BY <1>4, TwoNext
<1>8. Two[a] \in Nat /\ Two[c] \in Nat
  BY <1>4, TwoType
<1>9. Two[a + b] = 2 * (Two[a] * Two[c]) /\ Two[b] = 2 * Two[c]
  BY <1>4, <1>5, <1>6, <1>7
<1> DEFINE x == Two[a]
           y == Two[c]
<1>10. x \in Nat /\ y \in Nat /\ Two[a + b] = 2 * (x * y) /\ Two[b] = 2 * y
  BY <1>8, <1>9
<1> HIDE DEF x, y
<1>11. 2 * (x * y) = x * (2 * y)
  BY <1>10
<1>12. Two[a + b] = x * Two[b]
  BY <1>10, <1>11
<1> QED BY <1>2, <1>12 DEF x

LEMMA TimesGrows == \A x, y \in Nat \ {0} : x <= x * y
OBVIOUS

LEMMA TwoGrows == \A a, b \in Nat : a <= b => Two[a] <= Two[b]
<1> TAKE a, b \in Nat
<1> HAVE a <= b
<1>1. b - a \in Nat /\ a + (b - a) = b
  OBVIOUS
<1>2. Two[b] = Two[a] * Two[b - a]
  BY <1>1, TwoSum
<1> QED BY <1>1, <1>2, TwoType, TimesGrows

LEMMA TwoAbove == \A n \in Nat : n < Two[n]
<1> DEFINE Bad == {i \in Nat : ~ i < Two[i]}
<1>1. SUFFICES ASSUME Bad # {} PROVE FALSE
  OBVIOUS
<1>2. PICK i \in Bad : \A j \in Bad : i <= j
  BY <1>1, LeastExists
<1>3. i # 0
  BY TwoZero
<1> DEFINE c == i - 1
<1>4. c \in Nat /\ c + 1 = i /\ c < Two[c]
  BY <1>2, <1>3
<1>5. Two[i] = 2 * Two[c] /\ Two[c] \in Nat
  BY <1>4, TwoNext, TwoType
<1> QED BY <1>2, <1>4, <1>5

----------------------------------------------------------------------------
(* The words.                                                              *)

LEMMA WordFacts ==
  /\ N \in Nat \ {0} /\ W \in Nat \ {0} /\ N < W /\ U <= W /\ U \in Nat \ {0}
  /\ Bytes \in Nat \ {0} /\ ByteBits \in Nat \ {0} /\ N = ByteBits * Bytes /\ W = Two[N]
<1>1. N \in Nat \ {0}
  BY WordsAssumption DEF N
<1>2. W \in Nat \ {0} /\ N < W
  BY <1>1, TwoType, TwoAbove DEF W
<1>3. U <= W
  <2>1. U \in Nat \ {0} /\ W % U = 0 BY WordsAssumption
  <2>2. W = U * (W \div U) + (W % U) /\ W \div U \in Int BY <1>2, <2>1
  <2> DEFINE q == W \div U
  <2>3. W = U * q /\ q \in Int BY <2>1, <2>2
  <2> HIDE DEF q
  <2>4. q # 0 BY <1>2, <2>1, <2>3
  <2>5. q >= 1 \/ q <= -1 BY <2>3, <2>4
  <2>6. q <= -1 => U * q <= 0 BY <2>1, <2>3
  <2>7. q >= 1 => U <= U * q BY <2>1, <2>3
  <2> QED BY <1>2, <2>3, <2>5, <2>6, <2>7
<1> QED BY <1>1, <1>2, <1>3, WordsAssumption DEF N, W

LEMMA ModWord == \A x \in Int : x % W \in Word
BY WordFacts DEF Word

LEMMA WordInt == Word \subseteq Nat /\ \A x \in Word : x < W
BY WordFacts DEF Word

LEMMA DivType ==
  ASSUME NEW a \in Nat, NEW b \in Nat \ {0}
  PROVE  a \div b \in Nat /\ a \div b <= a /\ a % b \in 0 .. b - 1 /\ a = b * (a \div b) + (a % b)
<1> DEFINE q == a \div b
           r == a % b
<1>1. q \in Int /\ r \in 0 .. b - 1 /\ a = b * q + r
  OBVIOUS
<1> HIDE DEF q, r
<1>2. q >= 0
  <2>1. SUFFICES ASSUME q <= -1 PROVE FALSE
    BY <1>1
  <2>2. b * q <= b * (-1) BY <1>1, <2>1
  <2>3. b * (-1) = 0 - b OBVIOUS
  <2> QED BY <1>1, <2>2, <2>3
<1>3. q <= b * q
  BY <1>1, <1>2
<1> QED BY <1>1, <1>2, <1>3 DEF q, r

LEMMA UsizeWord == \A x \in Int : AsUsize(x) \in 0 .. U - 1 /\ AsUsize(x) \in Word /\ AsUsize(x) \in Nat
BY WordFacts DEF AsUsize, Word

\* A part of a sum without negative terms.
LEMMA TotalPart ==
  ASSUME NEW X, IsFiniteSet(X), NEW f, \A a \in X : f[a] \in Nat, NEW T \in SUBSET X
  PROVE  Total(f, T) <= Total(f, X) /\ Total(f, T) \in Nat /\ Total(f, X) \in Nat
<1>0. \A s \in SUBSET X : Total(f, s) \in Nat
  <2> TAKE s \in SUBSET X
  <2>1. IsFiniteSet(s) /\ \A a \in s : f[a] \in Nat BY FS_Subset
  <2> QED BY <2>1, TotalNat
<1> DEFINE C == {s \in SUBSET X : T \subseteq s /\ ~ Total(f, T) <= Total(f, s)}
<1>1. SUFFICES ASSUME C # {} PROVE FALSE
  BY <1>0
<1>2. PICK s \in C : \A t \in SUBSET s : t # s => t \notin C
  <2>1. C \subseteq SUBSET X OBVIOUS
  <2> HIDE DEF C
  <2> QED BY <1>1, <2>1, SmallestExists
<1>3. s \in SUBSET X /\ T \subseteq s /\ ~ Total(f, T) <= Total(f, s)
  OBVIOUS
<1>4. s # T
  BY <1>0, <1>3
<1>5. PICK x \in s : x \notin T
  BY <1>3, <1>4
<1>6. Total(f, T) <= Total(f, s \ {x})
  <2>1. s \ {x} \in SUBSET s /\ s \ {x} # s /\ s \ {x} \in SUBSET X /\ T \subseteq s \ {x}
    BY <1>3, <1>5
  <2> QED BY <1>2, <2>1
<1> HIDE DEF C
<1>7. Total(f, s) = f[x] + Total(f, s \ {x})
  <2>1. IsFiniteSet(s) /\ \A a \in s : f[a] \in Int BY <1>3, FS_Subset
  <2> QED BY <1>5, <2>1, TotalSplit
<1>8. f[x] \in Nat /\ Total(f, s \ {x}) \in Nat /\ Total(f, T) \in Nat
  BY <1>0, <1>3, <1>5
<1> QED BY <1>3, <1>6, <1>7, <1>8

LEMMA TwosBelow == \A n \in Nat : Total(Two, 0 .. n - 1) = Two[n] - 1
<1> DEFINE Bad == {i \in Nat : Total(Two, 0 .. i - 1) # Two[i] - 1}
<1>1. SUFFICES ASSUME Bad # {} PROVE FALSE
  OBVIOUS
<1>2. PICK i \in Bad : \A j \in Bad : i <= j
  BY <1>1, LeastExists
<1>3. i # 0
  <2>1. 0 .. 0 - 1 = {} OBVIOUS
  <2> QED BY <2>1, TwoZero, TotalEmpty
<1>4. PICK c \in Nat : c + 1 = i
  <2>1. i - 1 \in Nat /\ (i - 1) + 1 = i BY <1>3
  <2> QED BY <2>1
<1>5. Total(Two, 0 .. c - 1) = Two[c] - 1
  BY <1>2, <1>4
<1> DEFINE X == 0 .. c - 1
<1>6. IsFiniteSet(X) /\ c \notin X /\ X \cup {c} = 0 .. i - 1 /\ \A a \in X : Two[a] \in Int
  <2>1. 0 \in Int /\ c - 1 \in Int BY <1>4
  <2>2. IsFiniteSet(X) BY <2>1, FS_Interval
  <2>3. c \notin X /\ X \cup {c} = 0 .. i - 1 BY <1>4
  <2>4. \A a \in X : a \in Nat OBVIOUS
  <2> HIDE DEF X
  <2>5. \A a \in X : Two[a] \in Int BY <2>4, TwoType
  <2> QED BY <2>2, <2>3, <2>5
<1>7. Two[c] \in Int
  BY TwoType
<1>8. Total(Two, X) = Two[c] - 1
  BY <1>5
<1> HIDE DEF X
<1>9. Total(Two, X \cup {c}) = Total(Two, X) + Two[c]
  BY <1>6, <1>7, TotalAdd
<1>10. Two[i] = 2 * Two[c]
  BY <1>4, TwoNext
<1> DEFINE p == Total(Two, 0 .. i - 1)
           q == Two[c]
<1>12. q \in Int /\ p = (q - 1) + q /\ Two[i] = 2 * q
  <2>1. p = Total(Two, X) + q BY <1>6, <1>9
  <2> QED BY <1>7, <1>8, <1>10, <2>1
<1> HIDE DEF p, q
<1>13. p = Two[i] - 1
  BY <1>12
<1>11. Total(Two, 0 .. i - 1) = Two[i] - 1
  BY <1>13 DEF p
<1> QED BY <1>2, <1>11

LEMMA FromBitsWord == ASSUME NEW X, X \subseteq 0 .. N - 1 PROVE FromBits(X) \in Word
<1> DEFINE Y == 0 .. N - 1
<1>1. IsFiniteSet(Y) /\ \A a \in Y : Two[a] \in Nat
  <2>1. 0 \in Int /\ N - 1 \in Int BY WordFacts
  <2>2. IsFiniteSet(Y) BY <2>1, FS_Interval
  <2>4. \A a \in Y : a \in Nat OBVIOUS
  <2> HIDE DEF Y
  <2> QED BY <2>2, <2>4, TwoType
<1>2. X \in SUBSET Y
  OBVIOUS
<1>3. Total(Two, Y) = W - 1
  BY TwosBelow, WordFacts
<1> HIDE DEF Y
<1>4. Total(Two, X) <= Total(Two, Y) /\ Total(Two, X) \in Nat
  BY <1>1, <1>2, TotalPart
<1>5. FromBits(X) = Total(Two, X)
  BY DEF FromBits, Total
<1> QED BY <1>3, <1>4, <1>5, WordFacts DEF Word

LEMMA BitsRange == \A x : Bits(x) \subseteq 0 .. N - 1
BY DEF Bits

LEMMA AndOrXor == \A a, b : And(a, b) \in Word /\ Or(a, b) \in Word /\ Xor(a, b) \in Word
<1> TAKE a, b
<1>1. Bits(a) \subseteq 0 .. N - 1 /\ Bits(b) \subseteq 0 .. N - 1
  BY BitsRange
<1>2. /\ Bits(a) \cap Bits(b) \subseteq 0 .. N - 1
      /\ Bits(a) \cup Bits(b) \subseteq 0 .. N - 1
      /\ (Bits(a) \cup Bits(b)) \ (Bits(a) \cap Bits(b)) \subseteq 0 .. N - 1
  BY <1>1
<1> QED BY <1>2, FromBitsWord DEF And, Or, Xor

LEMMA MaxIs ==
  ASSUME NEW X, IsFiniteSet(X), X \subseteq Int, X # {}
  PROVE  Max(X) \in X /\ \A y \in X : y <= Max(X)
<1> DEFINE C == {s \in SUBSET X : s # {} /\ ~ \E x \in s : \A y \in s : x >= y}
<1>1. SUFFICES C = {}
  <2>1. ASSUME C = {} PROVE \E x \in X : \A y \in X : x >= y
    BY <2>1
  <2>2. ASSUME \E x \in X : \A y \in X : x >= y
        PROVE  Max(X) \in X /\ \A y \in X : Max(X) >= y
    BY <2>2 DEF Max
  <2>3. \A x, y \in X : x >= y => y <= x
    OBVIOUS
  <2> HIDE DEF C
  <2> QED BY <2>1, <2>2, <2>3
<1>2. SUFFICES ASSUME C # {} PROVE FALSE
  OBVIOUS
<1>3. PICK s \in C : \A t \in SUBSET s : t # s => t \notin C
  <2>1. C \subseteq SUBSET X OBVIOUS
  <2> HIDE DEF C
  <2> QED BY <1>2, <2>1, SmallestExists
<1>4. PICK a \in s : TRUE
  OBVIOUS
<1>5. s \ {a} # {}
  BY <1>4
<1>6. PICK m \in s \ {a} : \A y \in s \ {a} : m >= y
  BY <1>3, <1>4, <1>5
<1>7. a \in Int /\ m \in Int /\ s \subseteq Int
  OBVIOUS
<1>8. CASE a >= m
  BY <1>6, <1>7, <1>8
<1>9. CASE m >= a
  BY <1>6, <1>7, <1>9
<1> QED BY <1>7, <1>8, <1>9

LEMMA DivExact == \A b \in Nat \ {0}, q \in Nat : (b * q) \div b = q
<1> TAKE b \in Nat \ {0}, q \in Nat
<1>1. b * q \in Nat
  OBVIOUS
<1> DEFINE d == (b * q) \div b
           r == (b * q) % b
<1>2. d \in Nat /\ r \in 0 .. b - 1 /\ b * q = b * d + r
  BY <1>1, DivType
<1> HIDE DEF d, r
<1>3. b * (q - d) = r
  BY <1>2
<1>4. q - d >= 1 => b * (q - d) >= b
  BY <1>2
<1>5. q - d <= -1 => b * (q - d) <= 0 - b
  BY <1>2
<1>6. q = d
  BY <1>2, <1>3, <1>4, <1>5
<1> QED BY <1>6 DEF d

\* A word without bits is zero.
LEMMA BitsSome == \A x \in Word : x # 0 => Bits(x) # {}
<1> SUFFICES ASSUME NEW x \in Word, Bits(x) = {} PROVE x = 0
  OBVIOUS
<1>1. x \in Nat /\ x < W
  BY WordInt
<1> DEFINE Bad == {i \in 0 .. N : ~ \E q \in Nat : x = Two[i] * q}
<1>2. Bad = {}
  <2>1. SUFFICES ASSUME Bad # {} PROVE FALSE
    OBVIOUS
  <2>2. PICK i \in Bad : \A j \in Bad : i <= j
    <3>1. Bad \subseteq Nat BY WordFacts
    <3> HIDE DEF Bad
    <3> QED BY <2>1, <3>1, LeastExists
  <2>3. i # 0
    <3>1. x = 1 * x BY <1>1
    <3> QED BY <1>1, <3>1, TwoZero
  <2>4. PICK c \in 0 .. N - 1 : c + 1 = i
    <3>1. i - 1 \in 0 .. N - 1 /\ (i - 1) + 1 = i BY <2>3, WordFacts
    <3> QED BY <3>1
  <2>5. PICK q \in Nat : x = Two[c] * q
    <3>1. c \in 0 .. N /\ ~ i <= c BY <2>4, WordFacts
    <3> QED BY <2>2, <3>1
  <2>6. x \div Two[c] = q
    BY <2>5, DivExact, TwoType
  <2>7. q % 2 # 1
    BY <2>6 DEF Bits, Bit
  <2>8. q = 2 * (q \div 2) /\ q \div 2 \in Nat
    BY <2>7
  <2>9. Two[i] = 2 * Two[c] /\ Two[c] \in Nat
    BY <2>4, TwoNext, TwoType
  <2> DEFINE h == q \div 2
             t == Two[c]
  <2>10. h \in Nat /\ t \in Nat /\ x = t * (2 * h) /\ Two[i] = 2 * t
    BY <2>5, <2>8, <2>9
  <2> HIDE DEF h, t
  <2>11. x = Two[i] * h
    BY <2>10
  <2> QED BY <2>2, <2>10, <2>11
<1>3. PICK q \in Nat : x = W * q
  <2>1. N \in 0 .. N /\ Two[N] = W BY WordFacts
  <2> QED BY <1>2, <2>1
<1>4. q >= 1 => W <= W * q
  BY WordFacts
<1>5. q = 0 => W * q = 0
  BY WordFacts
<1> QED BY <1>1, <1>3, <1>4, <1>5, WordFacts

LEMMA BitLenType == \A x \in Word : BitLen(x) \in 0 .. N
<1> TAKE x \in Word
<1>1. CASE x = 0
  BY <1>1, WordFacts DEF BitLen
<1>2. CASE x # 0
  <2>1. Bits(x) # {} /\ Bits(x) \subseteq 0 .. N - 1
    BY <1>2, BitsSome, BitsRange
  <2>2. IsFiniteSet(Bits(x)) /\ Bits(x) \subseteq Int
    <3>1. 0 \in Int /\ N - 1 \in Int BY WordFacts
    <3>2. IsFiniteSet(0 .. N - 1) BY <3>1, FS_Interval
    <3>3. IsFiniteSet(Bits(x)) BY <2>1, <3>2, FS_Subset
    <3> QED BY <2>1, <3>3
  <2>3. Max(Bits(x)) \in 0 .. N - 1
    BY <2>1, <2>2, MaxIs
  <2> QED BY <1>2, <2>3, WordFacts DEF BitLen
<1> QED BY <1>1, <1>2

LEMMA ExpCostType == \A x \in Word : ExpCost(x) \in Nat
<1> TAKE x \in Word
<1> DEFINE b == BitLen(x) + ByteBits - 1
<1>1. b \in Nat
  <2>1. BitLen(x) \in 0 .. N BY BitLenType
  <2> QED BY <2>1, WordFacts
<1>2. ExpCost(x) = 10 + 50 * (b \div ByteBits)
  BY DEF ExpCost
<1> HIDE DEF b
<1>3. b \div ByteBits \in Nat
  BY <1>1, DivType, WordFacts
<1> QED BY <1>2, <1>3

----------------------------------------------------------------------------
(* Arithmetic on words has words for results.                              *)

LEMMA BoolWord == \A p : Bool(p) \in Word
<1>1. 0 \in Word /\ 1 \in Word
  <2>1. 1 < W BY WordFacts
  <2> QED BY <2>1, WordFacts DEF Word
<1> QED BY <1>1 DEF Bool

LEMMA NotWord == \A x \in Word : Not(x) \in Word
BY WordFacts DEF Word, Not

LEMMA NegWord == \A x \in Word : Neg(x) \in Word
<1> TAKE x \in Word
<1>1. Not(x) \in Nat
  BY NotWord, WordInt
<1>2. Not(x) + 1 \in Int
  BY <1>1
<1> QED BY <1>2, ModWord DEF Neg

LEMMA AbsWord == \A x \in Word : Abs(x) \in Word /\ (x # 0 => Abs(x) # 0)
<1> TAKE x \in Word
<1>1. x \in Nat /\ x < W /\ W \in Nat \ {0}
  BY WordInt, WordFacts
<1>2. Neg(x) = (W - x) % W
  BY <1>1 DEF Neg, Not
<1>3. x # 0 => W - x \in 1 .. W - 1
  BY <1>1
<1>4. \A y \in 0 .. W - 1 : y % W = y
  BY <1>1
<1>5. x # 0 => Neg(x) # 0
  BY <1>1, <1>2, <1>3, <1>4
<1> QED BY <1>5, NegWord DEF Abs

LEMMA DivWord == \A a, b \in Word : b # 0 => a \div b \in Word /\ a % b \in Word
<1> TAKE a, b \in Word
<1> HAVE b # 0
<1>1. a \in Nat /\ b \in Nat \ {0} /\ a < W /\ b < W
  BY WordInt
<1>2. a \div b \in Nat /\ a \div b <= a /\ a % b \in 0 .. b - 1
  BY <1>1, DivType
<1> QED BY <1>1, <1>2, WordFacts DEF Word

LEMMA ShrWord == \A s \in Nat, x \in Word : Shr(s, x) \in Word
<1> TAKE s \in Nat, x \in Word
<1>1. x \in Nat /\ Two[s] \in Nat \ {0} /\ x < W
  BY WordInt, TwoType
<1>2. x \div Two[s] \in Nat /\ x \div Two[s] <= x
  BY <1>1, DivType
<1> QED BY <1>1, <1>2, WordFacts DEF Shr, Word

LEMMA ShlWord == \A s \in Nat, x \in Word : Shl(s, x) \in Word
<1> TAKE s \in Nat, x \in Word
<1>1. x \in Nat /\ Two[s] \in Nat /\ x * Two[s] \in Int
  BY WordInt, TwoType
<1>2. 0 \in Word
  BY WordFacts DEF Word
<1> QED BY <1>1, <1>2, ModWord DEF Shl

LEMMA PowWord == \A a, b \in Word : Pow(a, b) \in Word
<1> TAKE a, b \in Word
<1>0. a \in Nat /\ b \in Nat /\ 1 \in Word /\ \A y \in Word : y \in Nat
  BY WordInt, WordFacts DEF Word
<1> DEFINE Rec(p, n) == p = [k \in 0 .. n |-> IF k = 0 THEN 1 ELSE (a * p[k - 1]) % W]
           Bad == {n \in Nat : ~ \E p \in [0 .. n -> Word] : Rec(p, n)}
<1>1. Bad = {}
  <2>1. SUFFICES ASSUME Bad # {} PROVE FALSE
    OBVIOUS
  <2>2. PICK n \in Bad : \A m \in Bad : n <= m
    BY <2>1, LeastExists
  <2>3. n # 0
    <3>1. [k \in 0 .. 0 |-> 1] \in [0 .. 0 -> Word]
      BY <1>0
    <3>2. Rec([k \in 0 .. 0 |-> 1], 0)
      OBVIOUS
    <3> QED BY <3>1, <3>2
  <2>4. n - 1 \in Nat /\ ~ n <= n - 1
    BY <2>3
  <2>5. n - 1 \notin Bad
    <3> HIDE DEF Bad
    <3> QED BY <2>2, <2>4
  <2>6. PICK p \in [0 .. n - 1 -> Word] : Rec(p, n - 1)
    BY <2>4, <2>5
  <2> DEFINE q == [k \in 0 .. n |-> IF k = n THEN (a * p[n - 1]) % W ELSE p[k]]
  <2>7. (a * p[n - 1]) % W \in Word
    <3>2. n - 1 \in 0 .. n - 1 BY <2>4
    <3>1. p[n - 1] \in Nat BY <1>0, <2>6, <3>2
    <3> QED BY <1>0, <3>1, ModWord
  <2>8. q \in [0 .. n -> Word]
    BY <2>4, <2>7
  <2>9. \A k \in 0 .. n : q[k] = IF k = 0 THEN 1 ELSE (a * q[k - 1]) % W
    <3> TAKE k \in 0 .. n
    <3>1. CASE k = n
      BY <2>3, <2>4, <3>1
    <3>2. CASE k # n
      <4>1. k \in 0 .. n - 1 /\ q[k] = p[k] /\ (k # 0 => q[k - 1] = p[k - 1])
        BY <2>4, <3>2
      <4>2. p[k] = IF k = 0 THEN 1 ELSE (a * p[k - 1]) % W
        BY <2>6, <4>1
      <4> HIDE DEF q
      <4> QED BY <4>1, <4>2
    <3> QED BY <3>1, <3>2
  <2> HIDE DEF q
  <2>10. Rec(q, n)
    BY <2>8, <2>9
  <2> QED BY <2>2, <2>8, <2>10
<1>2. PICK p \in [0 .. b -> Word] : Rec(p, b)
  BY <1>0, <1>1
<1> DEFINE c == CHOOSE p_1 : Rec(p_1, b)
<1>3. Rec(c, b)
  BY <1>2
<1>4. Pow(a, b) = c[b]
  BY DEF Pow
<1> HIDE DEF c
<1>5. \A k \in 0 .. b : c[k] = IF k = 0 THEN 1 ELSE (a * c[k - 1]) % W
  BY <1>3
<1> HIDE DEF Rec
<1> DEFINE Odd == {k \in 0 .. b : c[k] \notin Word}
<1>6. Odd = {}
  <2>1. SUFFICES ASSUME Odd # {} PROVE FALSE
    OBVIOUS
  <2>2. PICK k \in Odd : \A m \in Odd : k <= m
    <3>1. Odd \subseteq Nat BY <1>0
    <3> HIDE DEF Odd
    <3> QED BY <2>1, <3>1, LeastExists
  <2>3. k # 0
    BY <1>0, <1>5
  <2>4. k - 1 \in 0 .. b /\ ~ k <= k - 1
    BY <1>0, <2>3
  <2>5. c[k - 1] \in Word
    BY <2>2, <2>4
  <2>7. c[k - 1] \in Nat
    BY <1>0, <2>5
  <2>6. a * c[k - 1] \in Int
    BY <1>0, <2>7
  <2> QED BY <1>5, <2>3, <2>6, ModWord
<1> QED BY <1>0, <1>4, <1>6

Arity(op) == IF op \in Unary THEN 1 ELSE IF op \in Ternary THEN 3 ELSE 2

LEMMA SdivWord == \A a, b \in Word : Sdiv(a, b) \in Word /\ Smod(a, b) \in Word
<1> TAKE a, b \in Word
<1>1. 0 \in Word
  BY WordFacts DEF Word
<1>2. CASE b = 0
  BY <1>1, <1>2 DEF Sdiv, Smod
<1>3. CASE b # 0
  <2>1. Abs(a) \in Word /\ Abs(b) \in Word /\ Abs(b) # 0
    BY <1>3, AbsWord
  <2>2. Abs(a) \div Abs(b) \in Word /\ Abs(a) % Abs(b) \in Word
    BY <2>1, DivWord
  <2>3. Neg(Abs(a) \div Abs(b)) \in Word /\ Neg(Abs(a) % Abs(b)) \in Word
    BY <2>2, NegWord
  <2> QED BY <1>3, <2>2, <2>3 DEF Sdiv, Smod
<1> QED BY <1>2, <1>3

LEMMA SignextendWord == \A b, x \in Word : Signextend(b, x) \in Word
BY AndOrXor DEF Signextend

LEMMA ByteWord == \A i, x \in Word : Byte(i, x) \in Word
<1> TAKE i, x \in Word
<1>1. 0 \in Word
  BY WordFacts DEF Word
<1>2. ASSUME AsUsize(i) < Bytes
      PROVE  Byte(i, x) \in Word
  <2> DEFINE s == (Bytes - 1 - AsUsize(i)) * ByteBits
             y == Shr(s, x)
  <2>1. AsUsize(i) \in Nat
    BY WordInt, UsizeWord
  <2>2. s \in Nat
    <3> DEFINE d == Bytes - 1 - AsUsize(i)
    <3>1. d \in Nat BY <1>2, <2>1, WordFacts
    <3> HIDE DEF d
    <3>2. d * ByteBits \in Nat BY <3>1, WordFacts
    <3> QED BY <3>2 DEF d
  <2> HIDE DEF s
  <2>3. y \in Word
    BY <2>2, ShrWord
  <2> HIDE DEF y
  <2>4. Two[ByteBits] \in Nat \ {0} /\ Two[ByteBits] <= W
    <3>1. ByteBits <= N BY WordFacts
    <3>2. ByteBits \in Nat /\ N \in Nat BY WordFacts
    <3> QED BY <3>1, <3>2, TwoType, TwoGrows, WordFacts
  <2>5. y \in Nat
    BY <2>3, WordInt
  <2>6. y % Two[ByteBits] \in 0 .. Two[ByteBits] - 1
    BY <2>4, <2>5, DivType
  <2>7. y % Two[ByteBits] \in Word
    BY <2>4, <2>6, WordFacts DEF Word
  <2>8. AsUsize(i) >= Bytes => FALSE
    BY <1>2, <2>1, WordFacts
  <2> QED BY <2>7, <2>8 DEF Byte, s, y
<1>3. AsUsize(i) \in Nat
  BY WordInt, UsizeWord
<1>4. CASE AsUsize(i) >= Bytes
  BY <1>1, <1>4 DEF Byte
<1> QED BY <1>2, <1>3, <1>4, WordFacts

LEMMA SarWord == \A s, x \in Word : Sar(s, x) \in Word
<1> TAKE s, x \in Word
<1>1. s \in Nat /\ N \in Nat
  BY WordInt, WordFacts
<1>2. (IF s < N THEN s ELSE N) \in Nat
  BY <1>1
<1>3. Shr(IF s < N THEN s ELSE N, x) \in Word
  BY <1>2, ShrWord
<1> QED BY <1>3, AndOrXor DEF Sar

LEMMA ClzWord == \A x \in Word : Clz(x) \in Word
<1> TAKE x \in Word
<1>1. BitLen(x) \in 0 .. N
  BY BitLenType
<1> QED BY <1>1, WordFacts DEF Clz, Word

LEMMA ModTwice == \A a, b \in Nat, m \in Word : Mod(a + b, m) \in Word /\ Mod(a * b, m) \in Word
<1> TAKE a, b \in Nat, m \in Word
<1>1. m \in Nat /\ m < W /\ a + b \in Nat /\ a * b \in Nat /\ 0 \in Word
  BY WordInt, WordFacts DEF Word
<1>2. \A y \in Nat : m # 0 => y % m \in Word
  <2> TAKE y \in Nat
  <2> HAVE m # 0
  <2>1. y % m \in 0 .. m - 1 BY <1>1, DivType
  <2> QED BY <1>1, <2>1, WordFacts DEF Word
<1> QED BY <1>1, <1>2 DEF Mod

\* Every arithmetic instruction makes words of words.
LEMMA ComputeWord ==
  ASSUME NEW op \in ArithOps, NEW x, \A i \in 1 .. Arity(op) : x[i] \in Word
  PROVE  Compute(op, x) \in Word
<1> USE DEF Unary, Binary3, Binary5, Ternary
<1>0. /\ Arity(op) \in {1, 2, 3} /\ (op \notin Unary => Arity(op) >= 2)
      /\ (op \in Ternary => Arity(op) = 3) /\ \A y \in Word : y \in Nat
  BY WordInt DEF Arity
<1>1. x[1] \in Word /\ x[1] \in Nat
  BY <1>0
<1>2. op \notin Unary => x[2] \in Word /\ x[2] \in Nat
  BY <1>0
<1>3. op \in Ternary => x[3] \in Word /\ x[3] \in Nat
  BY <1>0
<1>4. CASE op \in Unary
  <2>1. CASE op = "ISZERO"
    <3>1. Compute(op, x) = Bool(x[1] = 0) BY <2>1 DEF Compute
    <3> QED BY <3>1, BoolWord
  <2>2. CASE op = "NOT"
    <3>1. Compute(op, x) = Not(x[1]) BY <2>2 DEF Compute
    <3> QED BY <1>1, <3>1, NotWord
  <2>3. CASE op = "CLZ"
    <3>1. Compute(op, x) = Clz(x[1]) BY <2>3 DEF Compute
    <3> QED BY <1>1, <3>1, ClzWord
  <2> QED BY <1>4, <2>1, <2>2, <2>3
<1>5. CASE op \in {"ADD", "SUB", "MUL"}
  <2>1. Compute(op, x) \in {(x[1] + x[2]) % W, (x[1] - x[2]) % W, (x[1] * x[2]) % W}
    BY <1>5 DEF Compute
  <2>2. x[1] + x[2] \in Int /\ x[1] - x[2] \in Int /\ x[1] * x[2] \in Int
    BY <1>1, <1>2, <1>5
  <2> QED BY <2>1, <2>2, ModWord
<1>6. CASE op \in {"LT", "GT", "EQ", "SLT", "SGT"}
  <2>1. Compute(op, x) \in {Bool(x[1] < x[2]), Bool(x[1] > x[2]), Bool(x[1] = x[2]),
                            Slt(x[1], x[2]), Slt(x[2], x[1])}
    BY <1>6 DEF Compute
  <2> QED BY <2>1, BoolWord DEF Slt
<1>7. CASE op \in {"AND", "OR", "XOR"}
  <2>1. Compute(op, x) \in {And(x[1], x[2]), Or(x[1], x[2]), Xor(x[1], x[2])}
    BY <1>7 DEF Compute
  <2> QED BY <2>1, AndOrXor
<1>8. CASE op \in {"BYTE", "SHL", "SHR", "SAR"}
  <2>1. Compute(op, x) \in {Byte(x[1], x[2]), Shl(x[1], x[2]), Shr(x[1], x[2]), Sar(x[1], x[2])}
    BY <1>8 DEF Compute
  <2> QED BY <1>1, <1>2, <1>8, <2>1, ByteWord, ShlWord, ShrWord, SarWord
<1>9. CASE op \in {"DIV", "SDIV", "MOD", "SMOD", "SIGNEXTEND", "EXP"}
  <2>1. Compute(op, x) \in {Div(x[1], x[2]), Sdiv(x[1], x[2]), Mod(x[1], x[2]), Smod(x[1], x[2]),
                            Signextend(x[1], x[2]), Pow(x[1], x[2])}
    BY <1>9 DEF Compute
  <2>2. x[1] \in Word /\ x[2] \in Word
    BY <1>1, <1>2, <1>9
  <2>3. Div(x[1], x[2]) \in Word /\ Mod(x[1], x[2]) \in Word
    <3>1. 0 \in Word BY WordFacts DEF Word
    <3> QED BY <2>2, <3>1, DivWord DEF Div, Mod
  <2> QED BY <2>1, <2>2, <2>3, SdivWord, SignextendWord, PowWord
<1>10. CASE op \in Ternary
  <2>1. Compute(op, x) \in {Mod(x[1] + x[2], x[3]), Mod(x[1] * x[2], x[3])}
    BY <1>10 DEF Compute
  <2> QED BY <1>1, <1>2, <1>3, <1>10, <2>1, ModTwice
<1> QED BY <1>4, <1>5, <1>6, <1>7, <1>8, <1>9, <1>10 DEF ArithOps

----------------------------------------------------------------------------
(* Quotients, remainders and the bits of masks.                            *)

LEMMA DivIs ==
  ASSUME NEW b \in Nat \ {0}, NEW q \in Int, NEW r \in 0 .. b - 1, NEW a, a = b * q + r
  PROVE  a \div b = q /\ a % b = r
<1> DEFINE d == a \div b
           s == a % b
<1>1. a \in Int
  OBVIOUS
<1>2. d \in Int /\ s \in 0 .. b - 1 /\ a = b * d + s
  BY <1>1
<1> HIDE DEF d, s
<1>3. b * (q - d) = s - r
  BY <1>2
<1>4. q - d >= 1 => b * (q - d) >= b
  BY <1>2
<1>5. q - d <= -1 => b * (q - d) <= 0 - b
  BY <1>2
<1>6. q = d
  BY <1>2, <1>3, <1>4, <1>5
<1>7. s = r
  BY <1>2, <1>3, <1>6
<1> QED BY <1>6, <1>7 DEF d, s

LEMMA ModSmall == \A b \in Nat \ {0}, x \in Int : 0 <= x /\ x < b => x % b = x /\ x \div b = 0
<1> TAKE b \in Nat \ {0}, x \in Int
<1> HAVE 0 <= x /\ x < b
<1>1. x \in 0 .. b - 1 /\ x = b * 0 + x
  OBVIOUS
<1> QED BY <1>1, DivIs

LEMMA ModShift == \A b \in Nat \ {0}, x, k \in Int : (x + b * k) % b = x % b
<1> TAKE b \in Nat \ {0}, x, k \in Int
<1> DEFINE d == x \div b
           s == x % b
<1>1. d \in Int /\ s \in 0 .. b - 1 /\ x = b * d + s
  OBVIOUS
<1> HIDE DEF d, s
<1>2. d + k \in Int /\ x + b * k = b * (d + k) + s
  BY <1>1
<1>3. (x + b * k) % b = s
  BY <1>1, <1>2, DivIs
<1> QED BY <1>3 DEF s

LEMMA TwoHalves == \A m, n \in Nat : m <= n => n - m \in Nat /\ Two[n] = Two[m] * Two[n - m]
<1> TAKE m, n \in Nat
<1> HAVE m <= n
<1>1. n - m \in Nat /\ m + (n - m) = n
  OBVIOUS
<1>2. Two[m + (n - m)] = Two[m] * Two[n - m]
  BY <1>1, TwoSum
<1> QED BY <1>1, <1>2

LEMMA TwoEven == \A n \in Nat \ {0} : n - 1 \in Nat /\ Two[n] = 2 * Two[n - 1]
<1> TAKE n \in Nat \ {0}
<1>1. n - 1 \in Nat /\ (n - 1) + 1 = n
  OBVIOUS
<1>2. Two[(n - 1) + 1] = 2 * Two[n - 1]
  BY <1>1, TwoNext
<1> QED BY <1>1, <1>2

\* A bit is the parity of what is above it.
LEMMA BitIs ==
  ASSUME NEW i \in Nat, NEW q \in Nat, NEW r \in 0 .. Two[i] - 1, NEW x, x = Two[i] * q + r
  PROVE  Bit(x, i) <=> q % 2 = 1
<1>1. Two[i] \in Nat \ {0}
  BY TwoType
<1>2. x \div Two[i] = q
  BY <1>1, DivIs
<1> QED BY <1>2 DEF Bit

LEMMA BitAbove == \A i, x \in Nat : x < Two[i] => ~Bit(x, i)
<1> TAKE i, x \in Nat
<1> HAVE x < Two[i]
<1>1. Two[i] \in Nat \ {0}
  BY TwoType
<1>2. x \div Two[i] = 0
  BY <1>1, ModSmall
<1> QED BY <1>2 DEF Bit

LEMMA EvenOdd == \A t \in Nat : (2 * t) % 2 = 0 /\ (t # 0 => (2 * t - 1) % 2 = 1)
OBVIOUS

\* The lowest m bits.
LEMMA BitsMask == \A m \in 0 .. N : Bits(Two[m] - 1) = 0 .. m - 1
<1> TAKE m \in 0 .. N
<1>1. N \in Nat /\ m \in Nat
  BY WordFacts
<1>2. ASSUME NEW i \in 0 .. N - 1, i < m PROVE Bit(Two[m] - 1, i)
  <2>1. i \in Nat /\ i <= m /\ m - i \in Nat \ {0}
    BY <1>1, <1>2
  <2>2. Two[m] = Two[i] * Two[m - i]
    BY <1>1, <2>1, TwoHalves
  <2>3. m - i - 1 \in Nat /\ Two[m - i] = 2 * Two[m - i - 1]
    BY <2>1, TwoEven
  <2> DEFINE t == Two[m - i - 1]
             u == Two[i]
  <2>4. t \in Nat \ {0} /\ u \in Nat \ {0}
    BY <2>1, <2>3, TwoType
  <2>5. Two[m] = u * (2 * t)
    BY <2>2, <2>3
  <2> HIDE DEF t
  <2>6. 2 * t - 1 \in Nat /\ u - 1 \in 0 .. u - 1 /\ Two[m] - 1 = u * (2 * t - 1) + (u - 1)
    <3> HIDE DEF u
    <3>1. u * (2 * t - 1) = u * (2 * t) - u
      BY <2>4
    <3> QED BY <2>4, <2>5, <3>1
  <2>7. Bit(Two[m] - 1, i) <=> (2 * t - 1) % 2 = 1
    BY <2>1, <2>6, BitIs
  <2> QED BY <2>4, <2>7, EvenOdd
<1>3. ASSUME NEW i \in 0 .. N - 1, ~ i < m PROVE ~Bit(Two[m] - 1, i)
  <2>1. i \in Nat /\ m <= i
    BY <1>1, <1>3
  <2>2. Two[m] <= Two[i] /\ Two[m] \in Nat \ {0} /\ Two[i] \in Nat
    BY <1>1, <2>1, TwoGrows, TwoType
  <2>3. Two[m] - 1 \in Nat /\ Two[m] - 1 < Two[i]
    BY <2>2
  <2> QED BY <2>1, <2>3, BitAbove
<1>4. \A i : i \in 0 .. m - 1 <=> i \in 0 .. N - 1 /\ i < m
  BY <1>1
<1> QED BY <1>2, <1>3, <1>4 DEF Bits

\* All but the lowest m bits.
LEMMA BitsHigh == \A m \in 0 .. N : Bits(W - Two[m]) = m .. N - 1
<1> TAKE m \in 0 .. N
<1>1. N \in Nat /\ m \in Nat /\ W = Two[N]
  BY WordFacts
<1>2. ASSUME NEW i \in 0 .. N - 1, m <= i PROVE Bit(W - Two[m], i)
  <2>1. i \in Nat /\ i <= N /\ N - i \in Nat \ {0}
    BY <1>1
  <2>2. Two[N] = Two[i] * Two[N - i]
    BY <1>1, <2>1, TwoHalves
  <2>3. N - i - 1 \in Nat /\ Two[N - i] = 2 * Two[N - i - 1]
    BY <2>1, TwoEven
  <2> DEFINE t == Two[N - i - 1]
             u == Two[i]
             v == Two[m]
  <2>4. t \in Nat \ {0} /\ u \in Nat \ {0} /\ v \in Nat \ {0} /\ v <= u
    BY <1>1, <1>2, <2>1, <2>3, TwoType, TwoGrows
  <2>5. W = u * (2 * t)
    BY <1>1, <2>2, <2>3
  <2> HIDE DEF t, v
  <2>6. 2 * t - 1 \in Nat /\ u - v \in 0 .. u - 1 /\ W - v = u * (2 * t - 1) + (u - v)
    <3> HIDE DEF u
    <3>1. u * (2 * t - 1) = u * (2 * t) - u
      BY <2>4
    <3> QED BY <2>4, <2>5, <3>1
  <2>7. Bit(W - v, i) <=> (2 * t - 1) % 2 = 1
    BY <2>1, <2>6, BitIs
  <2> QED BY <2>4, <2>7, EvenOdd DEF v
<1>3. ASSUME NEW i \in 0 .. N - 1, ~ m <= i PROVE ~Bit(W - Two[m], i)
  <2>1. i \in Nat /\ i <= m /\ m - i \in Nat \ {0} /\ m <= N /\ N - m \in Nat
    BY <1>1, <1>3
  <2>2. W = Two[m] * Two[N - m] /\ Two[m] = Two[i] * Two[m - i]
    BY <1>1, <2>1, TwoHalves
  <2>3. m - i - 1 \in Nat /\ Two[m - i] = 2 * Two[m - i - 1]
    BY <2>1, TwoEven
  <2> DEFINE t == Two[m - i - 1]
             u == Two[i]
             w == Two[N - m]
             v == Two[m]
  <2>4. t \in Nat \ {0} /\ u \in Nat \ {0} /\ w \in Nat \ {0} /\ v \in Nat
    BY <2>1, <2>3, TwoType
  <2>5. W = v * w /\ v = u * (2 * t)
    BY <2>2, <2>3
  <2> HIDE DEF t, w, v
  <2>6. t * (w - 1) \in Nat /\ 0 \in 0 .. u - 1 /\ W - v = u * (2 * (t * (w - 1))) + 0
    <3> HIDE DEF u
    <3>1. w - 1 \in Nat
      BY <2>4
    <3>2. W - v = v * (w - 1)
      BY <2>4, <2>5
    <3>3. (u * (2 * t)) * (w - 1) = u * (2 * (t * (w - 1)))
      BY <2>4, <3>1
    <3> QED BY <2>4, <2>5, <3>1, <3>2, <3>3
  <2> DEFINE y == t * (w - 1)
  <2>7. y \in Nat /\ W - v = u * (2 * y) + 0
    BY <2>6
  <2> HIDE DEF y
  <2>8. 2 * y \in Nat /\ 0 \in 0 .. u - 1
    BY <2>4, <2>7
  <2>9. Bit(W - v, i) <=> (2 * y) % 2 = 1
    BY <2>1, <2>7, <2>8, BitIs
  <2> QED BY <2>7, <2>9, EvenOdd DEF v
<1>4. \A i : i \in m .. N - 1 <=> i \in 0 .. N - 1 /\ m <= i
  BY <1>1
<1> QED BY <1>2, <1>3, <1>4 DEF Bits

\* The bit on top.
LEMMA BitsTop == Bits(Two[N - 1]) = {N - 1} /\ Two[N - 1] \in Word /\ W = 2 * Two[N - 1]
<1>1. N \in Nat \ {0} /\ N - 1 \in 0 .. N /\ W = Two[N]
  BY WordFacts
<1>2. W = 2 * Two[N - 1] /\ Two[N - 1] \in Nat \ {0}
  BY <1>1, TwoEven, TwoType
<1>3. W - Two[N - 1] = Two[N - 1]
  BY <1>2
<1>4. Bits(Two[N - 1]) = N - 1 .. N - 1
  BY <1>1, <1>3, BitsHigh
<1>5. N - 1 .. N - 1 = {N - 1}
  BY <1>1
<1> QED BY <1>2, <1>4, <1>5, WordFacts DEF Word

----------------------------------------------------------------------------
(* The bits of a word add up to it, and the sign is the highest of them.   *)

\* The low bits of a word add up to what is below them.
LEMMA BitsBelow == \A x \in Word, n \in 0 .. N : Total(Two, Bits(x) \cap 0 .. n - 1) = x % Two[n]
<1> TAKE x \in Word
<1>0. N \in Nat /\ x \in Nat
  BY WordFacts, WordInt
<1> DEFINE Bad == {n \in 0 .. N : Total(Two, Bits(x) \cap 0 .. n - 1) # x % Two[n]}
<1>1. SUFFICES ASSUME Bad # {} PROVE FALSE
  OBVIOUS
<1>2. PICK n \in Bad : \A m \in Bad : n <= m
  <2>1. Bad \subseteq Nat BY <1>0
  <2> HIDE DEF Bad
  <2> QED BY <1>1, <2>1, LeastExists
<1>3. n # 0
  <2>1. Bits(x) \cap 0 .. 0 - 1 = {} /\ x % 1 = 0
    BY <1>0
  <2> QED BY <2>1, TwoZero, TotalEmpty
<1>4. PICK c \in 0 .. N - 1 : c + 1 = n
  <2>1. n - 1 \in 0 .. N - 1 /\ (n - 1) + 1 = n BY <1>0, <1>3
  <2> QED BY <2>1
<1> DEFINE X == Bits(x) \cap 0 .. c - 1
           t == Two[c]
           d == x \div t
           s == x % t
<1>5. c \in Nat /\ c \in 0 .. N /\ c < n
  BY <1>0, <1>4
<1>6. Total(Two, X) = s
  <2>1. c \notin Bad BY <1>0, <1>2, <1>4, <1>5
  <2> QED BY <1>5, <2>1
<1>7. t \in Nat \ {0} /\ Two[n] = 2 * t
  BY <1>4, <1>5, TwoNext, TwoType
<1>8. d \in Nat /\ s \in 0 .. t - 1 /\ x = t * d + s
  BY <1>0, <1>7, DivType
<1>9. IsFiniteSet(X) /\ c \notin X /\ \A a \in X : Two[a] \in Int
  <2>1. 0 \in Int /\ c - 1 \in Int BY <1>5
  <2>2. IsFiniteSet(0 .. c - 1) BY <2>1, FS_Interval
  <2>3. IsFiniteSet(X) BY <2>2, FS_Subset
  <2>4. X \subseteq Nat /\ c \notin X BY <1>5
  <2> HIDE DEF X
  <2> QED BY <2>3, <2>4, TwoType
<1>10. Bits(x) \cap 0 .. n - 1 = IF Bit(x, c) THEN X \cup {c} ELSE X
  BY <1>4, <1>5 DEF Bits
<1> DEFINE e == d \div 2
           o == d % 2
<1>11. e \in Nat /\ o \in {0, 1} /\ d = 2 * e + o
  BY <1>8
<1>12. Bit(x, c) <=> o = 1
  BY DEF Bit
<1> HIDE DEF X, t, d, s, e, o
<1>13. Total(Two, Bits(x) \cap 0 .. n - 1) = s + t * o
  <2>1. CASE Bit(x, c)
    <3>1. Total(Two, X \cup {c}) = Total(Two, X) + Two[c]
      BY <1>5, <1>9, TotalAdd, TwoType
    <3>2. o = 1 /\ t * 1 = t
      BY <2>1, <1>7, <1>12
    <3> QED BY <1>6, <1>10, <2>1, <3>1, <3>2 DEF t
  <2>2. CASE ~Bit(x, c)
    <3>1. o = 0 /\ t * 0 = 0
      BY <2>2, <1>7, <1>11, <1>12
    <3>2. s + 0 = s
      BY <1>7, <1>8
    <3> QED BY <1>6, <1>10, <2>2, <3>1, <3>2
  <2> QED BY <2>1, <2>2
<1>14. x % Two[n] = s + t * o
  <2>1. s + t * o \in 0 .. 2 * t - 1
    <3>1. o = 0 => s + t * o = s BY <1>7, <1>8
    <3>2. o = 1 => s + t * o = s + t BY <1>7, <1>8
    <3>3. s \in 0 .. 2 * t - 1 /\ s + t \in 0 .. 2 * t - 1 BY <1>7, <1>8
    <3> QED BY <1>11, <3>1, <3>2, <3>3
  <2>2. x = (2 * t) * e + (s + t * o)
    <3>1. t * (2 * e + o) = (2 * t) * e + t * o BY <1>7, <1>11
    <3> QED BY <1>7, <1>8, <1>11, <3>1
  <2>3. 2 * t \in Nat \ {0}
    BY <1>7
  <2> DEFINE u == 2 * t
             v == s + t * o
  <2>4. x % u = v
    <3>1. u \in Nat \ {0} /\ e \in Int
      BY <1>11, <2>3
    <3>2. v \in 0 .. u - 1 /\ x = u * e + v
      BY <2>1, <2>2
    <3>3. \A b \in Nat \ {0}, q \in Int : \A w \in 0 .. b - 1 : (b * q + w) % b = w
      BY DivIs
    <3> HIDE DEF u, v
    <3>4. (u * e + v) % u = v
      BY <3>1, <3>2, <3>3
    <3> QED BY <3>2, <3>4
  <2> QED BY <1>7, <2>4
<1>15. Total(Two, Bits(x) \cap 0 .. n - 1) = x % Two[n]
  BY <1>13, <1>14
<1> QED BY <1>2, <1>15

\* Bits from m on, above a set of lower ones.
LEMMA TotalAbove ==
  ASSUME NEW m \in 0 .. N, NEW X, X \subseteq 0 .. m - 1
  PROVE  \A n \in m .. N : Total(Two, X \cup m .. n - 1) = Total(Two, X) + (Two[n] - Two[m])
<1>0. N \in Nat /\ m \in Nat
  BY WordFacts
<1>a. IsFiniteSet(X) /\ \A a \in X : Two[a] \in Int
  <2>1. 0 \in Int /\ m - 1 \in Int BY <1>0
  <2>2. IsFiniteSet(0 .. m - 1) BY <2>1, FS_Interval
  <2>3. X \subseteq Nat BY <1>0
  <2>4. IsFiniteSet(X) BY <2>2, FS_Subset
  <2> QED BY <2>3, <2>4, TwoType
<1>b. Total(Two, X) \in Int
  BY <1>a, TotalType
<1> DEFINE T == Total(Two, X)
           Y(n) == X \cup m .. n - 1
           Bad == {n \in m .. N : Total(Two, Y(n)) # T + (Two[n] - Two[m])}
<1>1. SUFFICES ASSUME Bad # {} PROVE FALSE
  OBVIOUS
<1>2. PICK n \in Bad : \A k \in Bad : n <= k
  <2>1. Bad \subseteq Nat BY <1>0
  <2> HIDE DEF Bad
  <2> QED BY <1>1, <2>1, LeastExists
<1>3. n # m
  <2>1. Y(m) = X
    BY <1>0
  <2>2. Two[m] \in Nat
    BY <1>0, TwoType
  <2>3. T + (Two[m] - Two[m]) = T
    BY <1>b, <2>2
  <2> HIDE DEF Y, T
  <2>4. Total(Two, Y(m)) = T
    BY <2>1 DEF T
  <2> QED BY <2>3, <2>4
<1>4. PICK c \in m .. N - 1 : c + 1 = n
  <2>1. n - 1 \in m .. N - 1 /\ (n - 1) + 1 = n BY <1>0, <1>3
  <2> QED BY <2>1
<1>5. c \in Nat /\ c \in m .. N /\ c < n
  BY <1>0, <1>4
<1>6. Total(Two, Y(c)) = T + (Two[c] - Two[m])
  <2>1. c \notin Bad BY <1>0, <1>2, <1>4, <1>5
  <2> HIDE DEF Y, T
  <2> QED BY <1>5, <2>1
<1>7. Y(n) = Y(c) \cup {c} /\ c \notin Y(c)
  BY <1>0, <1>4, <1>5
<1>8. IsFiniteSet(Y(c)) /\ \A a \in Y(c) : Two[a] \in Int
  <2>1. m \in Int /\ c - 1 \in Int BY <1>0, <1>5
  <2>2. IsFiniteSet(m .. c - 1) BY <2>1, FS_Interval
  <2>3. IsFiniteSet(Y(c)) BY <1>a, <2>2, FS_Union
  <2>4. Y(c) \subseteq Nat BY <1>0
  <2> HIDE DEF Y
  <2> QED BY <2>3, <2>4, TwoType
<1> DEFINE y == Y(c)
<1>9. Total(Two, y \cup {c}) = Total(Two, y) + Two[c]
  <2> HIDE DEF y
  <2> SUFFICES IsFiniteSet(y) /\ (\A a \in y : Two[a] \in Int) /\ c \notin y /\ Two[c] \in Int
    BY TotalAdd
  <2> QED BY <1>5, <1>7, <1>8, TwoType DEF y
<1>10. Two[n] = 2 * Two[c] /\ Two[c] \in Nat /\ Two[m] \in Nat
  BY <1>0, <1>4, <1>5, TwoNext, TwoType
<1>11. Total(Two, Y(n)) = (T + (Two[c] - Two[m])) + Two[c]
  <2> HIDE DEF Y, T
  <2> QED BY <1>6, <1>7, <1>9 DEF y
<1>12. Total(Two, Y(n)) = T + (Two[n] - Two[m])
  <2> HIDE DEF Y
  <2> QED BY <1>b, <1>10, <1>11
<1> QED BY <1>12

LEMMA TotalIsFromBits == \A X : FromBits(X) = Total(Two, X)
BY DEF FromBits, Total

\* A mask of ones below m leaves what is below, one above puts ones above.
LEMMA AndMask == \A x \in Word, m \in 0 .. N : And(x, Two[m] - 1) = x % Two[m]
<1> TAKE x \in Word, m \in 0 .. N
<1>1. And(x, Two[m] - 1) = Total(Two, Bits(x) \cap 0 .. m - 1)
  BY BitsMask, TotalIsFromBits DEF And
<1> QED BY <1>1, BitsBelow

LEMMA OrMask == \A x \in Word, m \in 0 .. N : Or(x, W - Two[m]) = (x % Two[m]) + (W - Two[m])
<1> TAKE x \in Word, m \in 0 .. N
<1>0. N \in Nat /\ m \in Nat /\ W = Two[N]
  BY WordFacts
<1> DEFINE X == Bits(x) \cap 0 .. m - 1
<1>1. Bits(x) \cup m .. N - 1 = X \cup m .. N - 1
  BY <1>0 DEF Bits
<1>2. Or(x, W - Two[m]) = Total(Two, X \cup m .. N - 1)
  BY <1>1, BitsHigh, TotalIsFromBits DEF Or
<1>3. X \subseteq 0 .. m - 1 /\ N \in m .. N
  BY <1>0
<1>4. Total(Two, X \cup m .. N - 1) = Total(Two, X) + (Two[N] - Two[m])
  <2> HIDE DEF X
  <2> QED BY <1>3, TotalAbove
<1>5. Total(Two, X) = x % Two[m]
  BY BitsBelow
<1> QED BY <1>0, <1>2, <1>4, <1>5

\* The sign.
LEMMA MinusIs == \A x \in Word : Minus(x) <=> x >= Two[N - 1]
<1> TAKE x \in Word
<1> DEFINE t == Two[N - 1]
<1>1. x \in Nat /\ N - 1 \in Nat /\ t \in Nat \ {0} /\ x < 2 * t
  BY WordInt, WordFacts, BitsTop, TwoType
<1>2. CASE x >= t
  <2>1. x - t \in 0 .. t - 1 /\ x = t * 1 + (x - t)
    BY <1>1, <1>2
  <2>2. Bit(x, N - 1) <=> 1 % 2 = 1
    BY <1>1, <2>1, BitIs
  <2> QED BY <1>2, <2>2 DEF Minus
<1>3. CASE x < t
  <2>1. ~Bit(x, N - 1)
    BY <1>1, <1>3, BitAbove
  <2> QED BY <1>1, <1>3, <2>1 DEF Minus
<1> QED BY <1>1, <1>2, <1>3

LEMMA SignedIs ==
  \A x \in Word : /\ Signed(x) = (IF Minus(x) THEN x - W ELSE x) /\ Signed(x) \in Int
                  /\ 0 - Two[N - 1] <= Signed(x) /\ Signed(x) < Two[N - 1]
<1> TAKE x \in Word
<1> DEFINE t == Two[N - 1]
<1>1. x \in Nat /\ N - 1 \in Nat /\ t \in Nat \ {0} /\ x < W /\ W = 2 * t /\ W \in Nat
  BY WordInt, WordFacts, BitsTop, TwoType
<1>2. W \div 2 = t
  BY <1>1
<1>3. Minus(x) <=> x >= t
  BY MinusIs
<1> HIDE DEF t
<1>4. Signed(x) = IF x >= t THEN x - W ELSE x
  BY <1>2 DEF Signed
<1> QED BY <1>1, <1>3, <1>4 DEF t

\* To flip the sign bit is to add it, and so to shift the signed numbers up.
LEMMA KeyIs == \A x \in Word : Key(x) = Signed(x) + Two[N - 1]
<1> TAKE x \in Word
<1> DEFINE t == Two[N - 1]
           X == Bits(x) \cap 0 .. N - 1 - 1
<1>1. x \in Nat /\ N \in Nat \ {0} /\ N - 1 \in Nat /\ N - 1 \in 0 .. N /\ t \in Nat \ {0} /\ x < W /\ W = 2 * t
  BY WordInt, WordFacts, BitsTop, TwoType
<1>2. Total(Two, X) = x % t
  BY <1>1, BitsBelow
<1>3. Minus(x) <=> x >= t
  BY MinusIs
<1>4. Minus(x) <=> N - 1 \in Bits(x)
  BY <1>1 DEF Minus, Bits
<1>5. Bits(x) = IF Minus(x) THEN X \cup {N - 1} ELSE X
  BY <1>1, <1>4 DEF Bits
<1>6. Key(x) = Total(Two, (Bits(x) \cup {N - 1}) \ (Bits(x) \cap {N - 1}))
  BY BitsTop, TotalIsFromBits DEF Key, Xor
<1>7. IsFiniteSet(X) /\ N - 1 \notin X /\ \A a \in X : Two[a] \in Int
  <2>1. 0 \in Int /\ N - 1 - 1 \in Int BY <1>1
  <2>2. IsFiniteSet(0 .. N - 1 - 1) BY <2>1, FS_Interval
  <2>3. IsFiniteSet(X) BY <2>2, FS_Subset
  <2>4. X \subseteq Nat /\ N - 1 \notin X BY <1>1
  <2> HIDE DEF X
  <2> QED BY <2>3, <2>4, TwoType
<1> HIDE DEF X
<1>8. CASE Minus(x)
  <2>1. (Bits(x) \cup {N - 1}) \ (Bits(x) \cap {N - 1}) = X
    BY <1>5, <1>7, <1>8
  <2>2. x % t = x - t
    <3> DEFINE r == x - t
    <3>1. r \in 0 .. t - 1 /\ x = t * 1 + r
      BY <1>1, <1>3, <1>8
    <3> HIDE DEF t, r
    <3>2. t \in Nat \ {0} /\ 1 \in Int
      BY <1>1
    <3>3. x % t = r
      BY <3>1, <3>2, DivIs
    <3> QED BY <3>3 DEF r
  <2>3. Signed(x) = x - W
    BY <1>8, SignedIs
  <2>4. Key(x) = x - t
    BY <1>2, <1>6, <2>1, <2>2
  <2> QED BY <1>1, <2>3, <2>4
<1>9. CASE ~Minus(x)
  <2>1. (Bits(x) \cup {N - 1}) \ (Bits(x) \cap {N - 1}) = X \cup {N - 1}
    BY <1>5, <1>7, <1>9
  <2>2. Total(Two, X \cup {N - 1}) = Total(Two, X) + t
    BY <1>1, <1>7, TotalAdd
  <2>3. x % t = x
    BY <1>1, <1>3, <1>9, ModSmall
  <2>4. Signed(x) = x
    BY <1>9, SignedIs
  <2>5. Key(x) = x + t
    BY <1>2, <1>6, <2>1, <2>2, <2>3
  <2> QED BY <2>4, <2>5
<1> QED BY <1>8, <1>9

LEMMA SltExact == \A a, b \in Word : Slt(a, b) = Bool(Signed(a) < Signed(b))
<1> TAKE a, b \in Word
<1> DEFINE t == Two[N - 1]
           sa == Signed(a)
           sb == Signed(b)
<1>1. Key(a) = sa + t /\ Key(b) = sb + t
  BY KeyIs
<1>2. sa \in Int /\ sb \in Int /\ t \in Nat
  BY SignedIs, TwoType, WordFacts
<1> HIDE DEF sa, sb, t
<1>3. Key(a) < Key(b) <=> sa < sb
  BY <1>1, <1>2
<1> QED BY <1>3 DEF Slt, Bool, sa, sb

----------------------------------------------------------------------------
(* Shifts are divisions.                                                   *)

\* Division, of what shifting is.
LEMMA DivRest ==
  ASSUME NEW b \in Nat \ {0}, NEW x \in Int
  PROVE  x \div b \in Int /\ x % b \in 0 .. b - 1 /\ x = b * (x \div b) + (x % b)
OBVIOUS

LEMMA DivShift == \A b \in Nat \ {0}, x, k \in Int : (x + b * k) \div b = x \div b + k
<1> TAKE b \in Nat \ {0}, x, k \in Int
<1> DEFINE d == x \div b
           s == x % b
<1>1. d \in Int /\ s \in 0 .. b - 1 /\ x = b * d + s
  BY DivRest
<1> HIDE DEF d, s
<1>2. d + k \in Int /\ x + b * k = b * (d + k) + s
  BY <1>1
<1>3. (x + b * k) \div b = d + k
  BY <1>1, <1>2, DivIs
<1> QED BY <1>3 DEF d

LEMMA DivTimes ==
  \A b \in Nat \ {0}, q \in Int : \A w \in 0 .. b - 1 :
    (b * q + w) \div b = q /\ (b * q + w) % b = w
BY DivIs

LEMMA WordMod == \A x \in Word : x % W = x /\ x \in Int
BY ModSmall, WordFacts, WordInt

\* What is shifted in is the sign.
LEMMA SarExact == \A s, x \in Word : Sar(s, x) = Wrap(Signed(x) \div Two[s])
<1> TAKE s, x \in Word
<1>1. s \in Nat /\ x \in Nat /\ x < W /\ N \in Nat \ {0} /\ W \in Nat \ {0} /\ W = Two[N]
  BY WordInt, WordFacts
<1> DEFINE k == IF s < N THEN s ELSE N
           t == Two[s]
           y == Shr(k, x)
           m == N - k
<1>2. t \in Nat \ {0} /\ Two[m] \in Nat \ {0}
  <2>1. m \in Nat BY <1>1
  <2> QED BY <1>1, <2>1, TwoType
<1>3. y \in Word
  <2>1. k \in Nat BY <1>1
  <2> QED BY <2>1, ShrWord
<1>4. Sar(s, x) = IF Minus(x) THEN Or(y, Not(Shr(k, W - 1))) ELSE y
  BY DEF Sar
<1>5. CASE s < N
  <2>1. k = s /\ m \in 0 .. N /\ ~ s >= N /\ s <= N /\ N - s \in Nat /\ m = N - s
    BY <1>1, <1>5
  <2>2. y = x \div t /\ Shr(k, W - 1) = (W - 1) \div t
    BY <2>1 DEF Shr
  <2>3. W = t * Two[m]
    BY <1>1, <2>1, TwoHalves
  <2> DEFINE u == Two[m]
  <2>4. (W - 1) \div t = u - 1
    <3> HIDE DEF t, u
    <3>1. W - 1 = t * (u - 1) + (t - 1)
      <4>1. W = t * u BY <2>3 DEF u
      <4>2. u \in Nat \ {0} BY <1>2 DEF u
      <4>3. t * (u - 1) = t * u - t BY <1>2, <4>2
      <4> QED BY <1>1, <1>2, <4>1, <4>3
    <3>2. u - 1 \in Int /\ t - 1 \in 0 .. t - 1
      BY <1>2 DEF u
    <3> QED BY <1>2, <3>1, <3>2, DivIs
  <2>5. Not(Shr(k, W - 1)) = W - u
    <3>1. Not(Shr(k, W - 1)) = W - 1 - (u - 1)
      BY <2>2, <2>4 DEF Not
    <3>2. u \in Nat
      BY <1>2
    <3> HIDE DEF u
    <3> QED BY <1>1, <3>1, <3>2
  <2>6. y < u /\ y \in Nat
    <3> DEFINE r == x % t
    <3>1. y \in Nat
      BY <1>3, WordInt
    <3>2. u \in Nat \ {0} /\ W = t * u BY <1>2, <2>3
    <3>3. r \in 0 .. t - 1 /\ x = t * y + r
      <4> HIDE DEF y, t
      <4> QED BY <1>1, <1>2, <2>2, DivType
    <3> HIDE DEF y, t, u, r
    <3>4. y >= u => t * y >= t * u
      BY <1>2, <3>1, <3>2
    <3>5. t * y <= x /\ x < t * u
      BY <1>1, <1>2, <3>1, <3>2, <3>3
    <3>6. t * y \in Nat /\ t * u \in Nat
      BY <1>2, <3>1, <3>2
    <3> QED BY <1>1, <3>1, <3>2, <3>4, <3>5, <3>6
  <2>7. CASE Minus(x)
    <3>1. Sar(s, x) = (y % u) + (W - u)
      <4>1. Sar(s, x) = Or(y, W - u)
        BY <1>4, <2>5, <2>7
      <4> HIDE DEF y
      <4> QED BY <1>3, <2>1, <4>1, OrMask
    <3>2. y % u = y
      BY <1>2, <2>6, ModSmall
    <3>3. Signed(x) \div t = y - u
      <4>1. Signed(x) = x + t * (0 - u)
        <5> HIDE DEF t, u
        <5>1. Signed(x) = x - W
          BY <2>7, SignedIs
        <5>2. u \in Nat /\ W = t * u
          BY <1>2, <2>3 DEF u
        <5>3. t * (0 - u) = 0 - t * u
          BY <1>2, <5>2
        <5> QED BY <1>1, <1>2, <5>1, <5>2, <5>3
      <4>2. (x + t * (0 - u)) \div t = x \div t + (0 - u)
        <5>1. 0 - u \in Int /\ t \in Nat \ {0} /\ x \in Int BY <1>1, <1>2
        <5> DEFINE e == 0 - u
        <5>2. e \in Int BY <5>1
        <5> HIDE DEF t, u, e
        <5>3. (x + t * e) \div t = x \div t + e
          BY <5>1, <5>2, DivShift
        <5> QED BY <5>3 DEF e
      <4>3. x \div t = y /\ u \in Nat
        BY <1>2, <2>2
      <4> HIDE DEF y, t, u
      <4> QED BY <2>6, <4>1, <4>2, <4>3
    <3>4. Wrap(y - u) = y + (W - u)
      <4>1. y - u \in Int /\ y + (W - u) \in 0 .. W - 1 /\ y - u = W * (-1) + (y + (W - u)) /\ -1 \in Int
        <5>1. u \in Nat \ {0} BY <1>2
        <5>2. u <= W
          BY <1>1, <2>1, TwoGrows
        <5> HIDE DEF y, u
        <5> QED BY <1>1, <2>6, <5>1, <5>2
      <4> DEFINE v == y + (W - u)
                 z == y - u
      <4>2. v \in 0 .. W - 1 /\ W * (-1) + v = z /\ -1 \in Int
        BY <4>1
      <4> HIDE DEF v, z
      <4>3. (W * (-1) + v) % W = v
        BY <1>1, <4>2, DivTimes
      <4> QED BY <4>2, <4>3 DEF v, z, Wrap
    <3> HIDE DEF y, u
    <3>5. Sar(s, x) = y + (W - u)
      BY <3>1, <3>2
    <3> QED BY <3>3, <3>4, <3>5
  <2>8. CASE ~Minus(x)
    <3>1. Signed(x) = x
      BY <2>8, SignedIs
    <3>2. Wrap(y) = y
      BY <1>3, WordMod DEF Wrap
    <3>3. Sar(s, x) = y
      BY <1>4, <2>8
    <3> HIDE DEF y
    <3> QED BY <2>2, <3>1, <3>2, <3>3
  <2> QED BY <2>7, <2>8
<1>6. CASE ~ s < N
  <2>1. k = N /\ m = 0 /\ N >= N /\ 0 \in 0 .. N /\ N <= s
    BY <1>1, <1>6
  <2>2. y = 0 /\ Shr(k, W - 1) = 0
    BY <2>1 DEF Shr
  <2>3. Not(0) = W - 1 /\ Two[0] = 1
    BY <1>1, TwoZero DEF Not
  <2>4. W <= t
    BY <1>1, <2>1, TwoGrows
  <2>5. CASE Minus(x)
    <3>1. Sar(s, x) = Or(0, W - Two[0])
      BY <1>4, <2>2, <2>3, <2>5
    <3>2. 0 \in Word
      BY <1>1 DEF Word
    <3>3. Or(0, W - Two[0]) = (0 % Two[0]) + (W - Two[0])
      BY <2>1, <3>2, OrMask
    <3>4. 0 % 1 = 0
      OBVIOUS
    <3>5. Sar(s, x) = W - 1
      BY <1>1, <2>3, <3>1, <3>3, <3>4
    <3>6. Signed(x) = x - W /\ x - W < 0
      BY <1>1, <2>5, SignedIs
    <3>7. Signed(x) \div t = -1
      <4>1. x - W = t * (-1) + (x - W + t) /\ x - W + t \in 0 .. t - 1 /\ -1 \in Int
        <5> HIDE DEF t
        <5> QED BY <1>1, <1>2, <2>4
      <4> DEFINE r == x - W + t
                 z == x - W
      <4>2. z = t * (-1) + r /\ r \in 0 .. t - 1
        BY <4>1
      <4> HIDE DEF r, z, t
      <4>3. z \div t = -1
        BY <1>2, <4>1, <4>2, DivIs
      <4> QED BY <3>6, <4>3 DEF z
    <3>8. (-1) % W = W - 1
      <4>1. W - 1 \in 0 .. W - 1 /\ W * (-1) + (W - 1) = -1 /\ -1 \in Int
        BY <1>1
      <4>2. (W * (-1) + (W - 1)) % W = W - 1
        BY <1>1, <4>1, DivTimes
      <4> QED BY <4>1, <4>2
    <3> QED BY <3>5, <3>7, <3>8 DEF Wrap
  <2>6. CASE ~Minus(x)
    <3>1. Sar(s, x) = 0
      BY <1>4, <2>2, <2>6
    <3>2. Signed(x) = x
      BY <2>6, SignedIs
    <3>3. x \div t = 0
      <4> HIDE DEF t
      <4>1. x < t /\ t \in Nat \ {0} /\ x \in Int /\ 0 <= x
        BY <1>1, <1>2, <2>4
      <4> QED BY <4>1, ModSmall
    <3>4. 0 % W = 0
      BY <1>1, ModSmall
    <3> QED BY <3>1, <3>2, <3>3, <3>4 DEF Wrap
  <2> QED BY <2>5, <2>6
<1> QED BY <1>5, <1>6

----------------------------------------------------------------------------
(* Sign extension and the highest bit.                                     *)

\* x as a signed number of b + 1 bytes.
LEMMA SignextendExact ==
  \A b, x \in Word : Signextend(b, x) = IF b >= Bytes THEN x ELSE Wrap(Low(b, x))
<1> TAKE b, x \in Word
<1>1. b \in Nat /\ x \in Nat /\ x < W /\ N \in Nat \ {0} /\ W \in Nat \ {0} /\ W = Two[N]
  BY WordInt, WordFacts
<1>2. CASE b >= Bytes
  BY <1>2 DEF Signextend
<1>3. CASE ~ b >= Bytes
  <2> DEFINE n == (b + 1) * ByteBits
             m == Two[n]
             h == Two[n - 1]
             y == x % m
             d == x \div m
  <2>1. n \in 1 .. N /\ b * ByteBits + ByteBits = n /\ n - 1 \in 0 .. N - 1
    <3>1. ByteBits \in Nat \ {0} /\ Bytes \in Nat \ {0} /\ N = ByteBits * Bytes
      BY WordFacts
    <3>2. b + 1 <= Bytes /\ b + 1 >= 1
      BY <1>1, <1>3, <3>1
    <3>3. (b + 1) * ByteBits <= Bytes * ByteBits
      BY <1>1, <3>1, <3>2
    <3>4. 1 * ByteBits <= (b + 1) * ByteBits
      BY <1>1, <3>1, <3>2
    <3>5. b * ByteBits + ByteBits = n /\ n \in Nat
      BY <1>1, <3>1
    <3> QED BY <1>1, <3>1, <3>3, <3>4, <3>5
  <2>2. m \in Nat \ {0} /\ h \in Nat \ {0} /\ m = 2 * h
    <3>1. n \in Nat \ {0} /\ n - 1 \in Nat
      BY <2>1
    <3> QED BY <3>1, TwoEven, TwoType
  <2>3. y \in 0 .. m - 1 /\ d \in Nat /\ x = m * d + y
    BY <1>1, <2>2, DivType
  <2>4. Bit(x, n - 1) <=> y >= h
    <3>1. PICK e \in {0, 1}, r \in 0 .. h - 1 : y = h * e + r /\ (y >= h <=> e = 1)
      <4> HIDE DEF y, m, h
      <4>1. CASE y >= h
        <5>1. y - h \in 0 .. h - 1 /\ y = h * 1 + (y - h)
          BY <2>2, <2>3, <4>1
        <5> QED BY <4>1, <5>1
      <4>2. CASE ~ y >= h
        <5>1. y \in 0 .. h - 1 /\ y = h * 0 + y
          BY <2>2, <2>3, <4>2
        <5>2. \E r \in 0 .. h - 1 : y = h * 0 + r /\ (y >= h <=> 0 = 1)
          BY <4>2, <5>1
        <5> QED BY <5>2
      <4> QED BY <4>1, <4>2
    <3> HIDE DEF d, y
    <3>2. 2 * d + e \in Nat /\ x = h * (2 * d + e) + r
      <4> HIDE DEF m, h
      <4>1. h * (2 * d + e) = (2 * h) * d + h * e
        BY <2>2, <2>3
      <4> QED BY <2>2, <2>3, <3>1, <4>1
    <3>3. n - 1 \in Nat
      BY <2>1
    <3>4. Bit(x, n - 1) <=> (2 * d + e) % 2 = 1
      BY <3>2, <3>3, BitIs
    <3>5. (2 * d + e) % 2 = e
      BY <2>3, DivTimes
    <3> QED BY <3>1, <3>4, <3>5
  <2>5. n \in 0 .. N /\ Not(m - 1) = W - m
    <3>1. n \in 0 .. N
      BY <2>1
    <3>2. Not(m - 1) = W - 1 - (m - 1)
      BY DEF Not
    <3> DEFINE p == m
    <3>3. p \in Nat /\ Not(p - 1) = W - 1 - (p - 1)
      BY <2>2, <3>2
    <3> HIDE DEF p
    <3>4. Not(p - 1) = W - p
      BY <1>1, <3>3
    <3> QED BY <3>1, <3>4 DEF p
  <2>6. Signextend(b, x) = IF y >= h THEN y + (W - m) ELSE y
    <3>1. Signextend(b, x) = IF Bit(x, n - 1) THEN Or(x, Not(m - 1)) ELSE And(x, m - 1)
      <4> DEFINE l == b * ByteBits + ByteBits
      <4>1. Signextend(b, x) = IF Bit(x, l - 1) THEN Or(x, Not(Two[l] - 1)) ELSE And(x, Two[l] - 1)
        BY <1>1, <1>3, WordFacts DEF Signextend
      <4>2. l = n
        BY <2>1
      <4> HIDE DEF l, n
      <4> QED BY <4>1, <4>2
    <3>2. Or(x, W - m) = y + (W - m) /\ And(x, m - 1) = y
      BY <2>5, OrMask, AndMask
    <3> HIDE DEF y, m, h
    <3> QED BY <2>4, <2>5, <3>1, <3>2
  <2>7. Low(b, x) = IF 2 * y >= m THEN y - m ELSE y
    BY DEF Low
  <2>8. 2 * y >= m <=> y >= h
    <3> HIDE DEF y, m, h
    <3> QED BY <2>2, <2>3
  <2>9. m <= W
    <3>1. n \in Nat /\ n <= N
      BY <1>1, <2>1
    <3> QED BY <1>1, <3>1, TwoGrows
  <2> HIDE DEF n, m, h, y, d
  <2>10. CASE y >= h
    <3> DEFINE v == y + (W - m)
    <3>1. v \in 0 .. W - 1 /\ W * (-1) + v = y - m /\ -1 \in Int
      BY <1>1, <2>2, <2>3, <2>9
    <3> HIDE DEF v
    <3>2. (W * (-1) + v) % W = v
      BY <1>1, <3>1, DivTimes
    <3> USE DEF v
    <3> QED BY <1>3, <2>6, <2>7, <2>8, <2>10, <3>1, <3>2 DEF Wrap
  <2>11. CASE ~ y >= h
    <3>1. y \in Int /\ 0 <= y /\ y < W
      BY <1>1, <2>2, <2>3, <2>9
    <3>2. y % W = y
      BY <1>1, <3>1, ModSmall
    <3> QED BY <1>3, <2>6, <2>7, <2>8, <2>11, <3>2 DEF Wrap
  <2> QED BY <2>10, <2>11
<1> QED BY <1>2, <1>3

\* A number is between the power of two of its highest bit and the next.
LEMMA BitLenIs ==
  \A x \in Word : /\ BitLen(x) \in 0 .. N /\ x < Two[BitLen(x)]
                  /\ x # 0 => BitLen(x) - 1 \in Nat /\ Two[BitLen(x) - 1] <= x
<1> TAKE x \in Word
<1>1. x \in Nat /\ x < W /\ N \in Nat \ {0} /\ W = Two[N]
  BY WordInt, WordFacts
<1>2. CASE x = 0
  BY <1>1, <1>2, TwoZero DEF BitLen
<1>3. CASE x # 0
  <2> DEFINE C == {n \in Nat : x < Two[n]}
  <2>1. PICK n \in C : \A k \in C : n <= k
    <3>1. N \in C BY <1>1
    <3>2. C \subseteq Nat OBVIOUS
    <3> HIDE DEF C
    <3> QED BY <3>1, <3>2, LeastExists
  <2>2. n \in Nat /\ x < Two[n] /\ n <= N
    BY <1>1, <2>1
  <2>3. n # 0
    BY <1>1, <1>3, <2>2, TwoZero
  <2>4. n - 1 \in Nat /\ Two[n] = 2 * Two[n - 1] /\ Two[n - 1] \in Nat \ {0}
    BY <2>2, <2>3, TwoEven, TwoType
  <2>5. Two[n - 1] <= x
    <3>1. n - 1 \notin C
      BY <2>1, <2>4
    <3> QED BY <1>1, <2>4, <3>1
  <2> DEFINE t == Two[n - 1]
  <2>6. Bit(x, n - 1)
    <3>1. x - t \in 0 .. t - 1 /\ x = t * 1 + (x - t)
      BY <1>1, <2>2, <2>4, <2>5
    <3>2. Bit(x, n - 1) <=> 1 % 2 = 1
      BY <2>4, <3>1, BitIs
    <3> QED BY <3>2
  <2>7. n - 1 \in Bits(x)
    BY <1>1, <2>2, <2>4, <2>6 DEF Bits
  <2>8. \A i \in Bits(x) : i <= n - 1
    <3> SUFFICES ASSUME NEW i \in Bits(x), ~ i <= n - 1 PROVE FALSE
      OBVIOUS
    <3>1. i \in Nat /\ n <= i /\ Bit(x, i)
      BY <1>1, <2>2 DEF Bits
    <3>2. Two[n] <= Two[i] /\ Two[i] \in Nat /\ Two[n] \in Nat
      BY <2>2, <3>1, TwoGrows, TwoType
    <3>3. x < Two[i]
      BY <1>1, <2>2, <3>2
    <3> QED BY <1>1, <3>1, <3>3, BitAbove
  <2>9. Max(Bits(x)) \in Bits(x) /\ \A i \in Bits(x) : i <= Max(Bits(x))
    <3>1. 0 \in Int /\ N - 1 \in Int BY <1>1
    <3>2. IsFiniteSet(0 .. N - 1) BY <3>1, FS_Interval
    <3>3. Bits(x) \subseteq 0 .. N - 1 BY BitsRange
    <3>4. IsFiniteSet(Bits(x)) BY <3>2, <3>3, FS_Subset
    <3>5. Bits(x) \subseteq Int BY <3>3
    <3> QED BY <2>7, <3>4, <3>5, MaxIs
  <2>10. Max(Bits(x)) = n - 1
    <3>1. Max(Bits(x)) \in Int
      BY <2>9, BitsRange, <1>1
    <3> QED BY <2>4, <2>7, <2>8, <2>9, <3>1
  <2>11. BitLen(x) = n
    <3>1. BitLen(x) = (n - 1) + 1
      BY <1>3, <2>10 DEF BitLen
    <3> QED BY <2>2, <3>1
  <2> QED BY <1>1, <2>2, <2>4, <2>5, <2>11
<1> QED BY <1>2, <1>3

LEMMA ClzExact == \A x \in Word : Clz(x) = Cardinality({k \in 1 .. N : x < Two[N - k]})
<1> TAKE x \in Word
<1> DEFINE l == BitLen(x)
           K == {k \in 1 .. N : x < Two[N - k]}
<1>1. x \in Nat /\ N \in Nat \ {0}
  BY WordInt, WordFacts
<1>2. l \in 0 .. N /\ x < Two[l] /\ (x # 0 => l - 1 \in Nat /\ Two[l - 1] <= x)
  BY BitLenIs
<1>3. x = 0 => l = 0
  BY DEF BitLen
<1> HIDE DEF l
<1>4. ASSUME NEW k \in 1 .. N, k <= N - l
      PROVE  x < Two[N - k]
  <2>1. N - k \in Nat /\ l \in Nat /\ l <= N - k
    BY <1>1, <1>2, <1>4
  <2>2. Two[l] <= Two[N - k] /\ Two[l] \in Nat /\ Two[N - k] \in Nat
    BY <2>1, TwoGrows, TwoType
  <2> QED BY <1>1, <1>2, <2>2
<1>5. ASSUME NEW k \in 1 .. N, ~ k <= N - l
      PROVE  ~ x < Two[N - k]
  <2>1. x # 0
    BY <1>1, <1>3, <1>5
  <2>2. N - k \in Nat /\ l - 1 \in Nat /\ N - k <= l - 1
    BY <1>1, <1>2, <1>5, <2>1
  <2>3. Two[N - k] <= Two[l - 1] /\ Two[N - k] \in Nat /\ Two[l - 1] \in Nat
    BY <2>2, TwoGrows, TwoType
  <2> QED BY <1>1, <1>2, <2>1, <2>3
<1>6. K = 1 .. N - l
  <2>1. \A k : k \in 1 .. N - l <=> k \in 1 .. N /\ k <= N - l
    BY <1>1, <1>2
  <2> QED BY <1>4, <1>5, <2>1
<1>7. Cardinality(1 .. N - l) = N - l
  <2>1. N - l \in Nat
    BY <1>1, <1>2
  <2> DEFINE c == N - l
  <2>2. c \in Nat BY <2>1
  <2> HIDE DEF c
  <2>3. Cardinality(1 .. c) = IF 1 > c THEN 0 ELSE c - 1 + 1
    BY <2>2, FS_Interval
  <2>4. Cardinality(1 .. c) = c
    BY <2>2, <2>3
  <2> QED BY <2>4 DEF c
<1> QED BY <1>6, <1>7 DEF Clz, l

----------------------------------------------------------------------------
(* Signed division and remainder.                                          *)

Size(x) == IF x < 0 THEN 0 - x ELSE x

LEMMA SizeType == \A x \in Int : Size(x) \in Nat /\ (x # 0 => Size(x) # 0)
BY DEF Size

LEMMA SquareLess == \A a, b \in Nat : a < b <=> a * a < b * b
<1> TAKE a, b \in Nat
<1>1. ASSUME a < b PROVE a * a < b * b
  <2>1. a * a <= a * b /\ a * b < b * b
    <3>1. a * a <= a * b BY <1>1
    <3>2. b > 0 BY <1>1
    <3>3. a * b < b * b BY <1>1, <3>2
    <3> QED BY <3>1, <3>3
  <2>2. a * a \in Nat /\ a * b \in Nat /\ b * b \in Nat
    OBVIOUS
  <2> QED BY <2>1, <2>2
<1>2. ASSUME b <= a PROVE b * b <= a * a
  <2>1. b * b <= b * a /\ b * a <= a * a
    BY <1>2
  <2>2. b * b \in Nat /\ b * a \in Nat /\ a * a \in Nat
    OBVIOUS
  <2> QED BY <2>1, <2>2
<1>3. a * a \in Nat /\ b * b \in Nat
  OBVIOUS
<1> QED BY <1>1, <1>2, <1>3

LEMMA SquareSize == \A x \in Int : x * x = Size(x) * Size(x)
<1> TAKE x \in Int
<1>1. (0 - x) * (0 - x) = x * x
  OBVIOUS
<1> QED BY <1>1 DEF Size

LEMMA SmallerSize == \A r, d \in Int : r * r < d * d <=> Size(r) < Size(d)
<1> TAKE r, d \in Int
<1>1. r * r = Size(r) * Size(r) /\ d * d = Size(d) * Size(d)
  BY SquareSize
<1>2. Size(r) \in Nat /\ Size(d) \in Nat
  BY SizeType
<1> QED BY <1>1, <1>2, SquareLess

\* What the quotient is chosen for.
Truncates(n, d, q) ==
  LET r == n - q * d IN r * r < d * d /\ (r = 0 \/ (r < 0 <=> n < 0))

LEMMA TruncatesOnce ==
  ASSUME NEW n \in Int, NEW d \in Int, d # 0, NEW p \in Int, NEW q \in Int,
         Truncates(n, d, p), Truncates(n, d, q)
  PROVE  p = q
<1> DEFINE r == n - p * d
           s == n - q * d
           e == q - p
<1>1. r \in Int /\ s \in Int /\ e \in Int /\ r - s = e * d
  OBVIOUS
<1>2. /\ r * r < d * d /\ (r = 0 \/ (r < 0 <=> n < 0))
      /\ s * s < d * d /\ (s = 0 \/ (s < 0 <=> n < 0))
  BY DEF Truncates
<1> HIDE DEF r, s
<1>3. Size(r) < Size(d) /\ Size(s) < Size(d)
  BY <1>1, <1>2, SmallerSize
<1>4. r - s < Size(d) /\ s - r < Size(d)
  BY <1>1, <1>2, <1>3 DEF Size
<1> HIDE DEF e
<1>5. e = 0
  <2>1. e >= 1 /\ d > 0 => e * d >= d
    BY <1>1
  <2>2. e >= 1 /\ d < 0 => e * d <= d
    BY <1>1
  <2>3. e <= -1 /\ d > 0 => e * d <= 0 - d
    BY <1>1
  <2>4. e <= -1 /\ d < 0 => e * d >= 0 - d
    BY <1>1
  <2> DEFINE m == e * d
  <2>5. m \in Int
    BY <1>1
  <2> HIDE DEF m
  <2>6. m = r - s /\ (e >= 1 /\ d > 0 => m >= d) /\ (e >= 1 /\ d < 0 => m <= d)
        /\ (e <= -1 /\ d > 0 => m <= 0 - d) /\ (e <= -1 /\ d < 0 => m >= 0 - d)
    BY <1>1, <2>1, <2>2, <2>3, <2>4 DEF m
  <2> QED BY <1>1, <1>4, <2>5, <2>6 DEF Size
<1> QED BY <1>5 DEF e

\* The quotient of the sizes with the sign that makes it truncate.
LEMMA QuotientIs ==
  ASSUME NEW n \in Int, NEW d \in Int, d # 0, Size(n) <= W
  PROVE  LET q0 == Size(n) \div Size(d)
             r0 == Size(n) % Size(d)
         IN  /\ Quotient(n, d) = (IF (n < 0) # (d < 0) THEN 0 - q0 ELSE q0)
             /\ Remainder(n, d) = (IF n < 0 THEN 0 - r0 ELSE r0)
<1> DEFINE a == Size(n)
           e == Size(d)
           q0 == a \div e
           r0 == a % e
           q == IF (n < 0) # (d < 0) THEN 0 - q0 ELSE q0
           r == IF n < 0 THEN 0 - r0 ELSE r0
<1>1. a \in Nat /\ e \in Nat \ {0} /\ W \in Nat
  BY SizeType, WordFacts
<1>2. q0 \in Nat /\ q0 <= a /\ r0 \in 0 .. e - 1 /\ a = e * q0 + r0
  <2> HIDE DEF a, e
  <2> QED BY <1>1, DivType
<1> HIDE DEF q0, r0
<1>3. q \in -W .. W /\ q \in Int /\ r \in Int
  <2> HIDE DEF a, e
  <2>1. a <= W BY DEF a
  <2> QED BY <1>1, <1>2, <2>1
<1>4. n = q * d + r
  <2>1. n = (IF n < 0 THEN 0 - a ELSE a) /\ d = (IF d < 0 THEN 0 - e ELSE e)
    BY DEF Size
  <2> HIDE DEF a, e
  <2> DEFINE m == e * q0
  <2>2. m \in Int /\ a = m + r0 /\ q0 * e = m /\ q0 * (0 - e) = 0 - m
        /\ (0 - q0) * e = 0 - m /\ (0 - q0) * (0 - e) = m
    BY <1>1, <1>2
  <2>3. q * d = IF n < 0 THEN 0 - m ELSE m
    <3> HIDE DEF m
    <3>1. CASE n < 0 /\ d < 0
      <4>1. q = q0 /\ d = 0 - e BY <2>1, <3>1
      <4> QED BY <2>2, <3>1, <4>1
    <3>2. CASE n < 0 /\ ~ d < 0
      <4>1. q = 0 - q0 /\ d = e BY <2>1, <3>2
      <4> QED BY <2>2, <3>2, <4>1
    <3>3. CASE ~ n < 0 /\ d < 0
      <4>1. q = 0 - q0 /\ d = 0 - e BY <2>1, <3>3
      <4> QED BY <2>2, <3>3, <4>1
    <3>4. CASE ~ n < 0 /\ ~ d < 0
      <4>1. q = q0 /\ d = e BY <2>1, <3>4
      <4> QED BY <2>2, <3>4, <4>1
    <3> QED BY <3>1, <3>2, <3>3, <3>4
  <2> HIDE DEF m, q
  <2> QED BY <1>1, <1>2, <2>1, <2>2, <2>3
<1>5. Size(r) = r0
  BY <1>1, <1>2 DEF Size
<1>6. r = 0 \/ (r < 0 <=> n < 0)
  BY <1>2
<1>7. Truncates(n, d, q)
  <2>1. q * d \in Int
    BY <1>3
  <2> HIDE DEF q, r
  <2>2. n - q * d = r
    BY <1>3, <1>4, <2>1
  <2>3. r * r < d * d
    <3>1. Size(r) < e
      BY <1>1, <1>2, <1>5
    <3> QED BY <1>3, <3>1, SmallerSize
  <2> QED BY <1>6, <2>2, <2>3 DEF Truncates
<1> HIDE DEF q
<1>8. Quotient(n, d) = q
  <2>1. Quotient(n, d) = CHOOSE x \in -W .. W : Truncates(n, d, x)
    BY DEF Quotient, Truncates
  <2>2. Quotient(n, d) \in -W .. W /\ Truncates(n, d, Quotient(n, d))
    BY <1>3, <1>7, <2>1
  <2>3. Quotient(n, d) \in Int
    BY <1>1, <2>2
  <2> QED BY <1>3, <1>7, <2>2, <2>3, TruncatesOnce
<1>9. Remainder(n, d) = r
  <2>1. d * q = q * d /\ q * d \in Int
    BY <1>3
  <2> HIDE DEF r
  <2> QED BY <1>3, <1>4, <1>8, <2>1 DEF Remainder
<1> QED BY <1>8, <1>9 DEF q, q0, r0

LEMMA NegIs == \A x \in Word : Neg(x) = Wrap(0 - x)
<1> TAKE x \in Word
<1>1. x \in Nat /\ x < W /\ W \in Nat \ {0}
  BY WordInt, WordFacts
<1>2. Neg(x) = (W - x) % W
  BY <1>1 DEF Neg, Not
<1>3. ((0 - x) + W * 1) % W = (0 - x) % W
  <2> DEFINE z == 0 - x
  <2> DEFINE k == 1
  <2>1. z \in Int /\ k \in Int BY <1>1
  <2> HIDE DEF z, k
  <2>2. (z + W * k) % W = z % W
    BY <1>1, <2>1, ModShift
  <2> QED BY <2>2 DEF z, k
<1>4. (0 - x) + W * 1 = W - x
  BY <1>1
<1> QED BY <1>2, <1>3, <1>4 DEF Wrap

LEMMA AbsIs ==
  \A x \in Word : /\ Abs(x) = Size(Signed(x)) /\ (Minus(x) <=> Signed(x) < 0)
                  /\ Signed(x) \in Int /\ (x # 0 => Signed(x) # 0) /\ Size(Signed(x)) <= W
<1> TAKE x \in Word
<1>1. x \in Nat /\ x < W /\ W \in Nat \ {0}
  BY WordInt, WordFacts
<1>2. Signed(x) = (IF Minus(x) THEN x - W ELSE x) /\ Signed(x) \in Int
  BY SignedIs
<1>3. CASE Minus(x)
  <2>1. x # 0
    <3>1. Two[N - 1] \in Nat \ {0} BY TwoType, WordFacts
    <3> QED BY <1>1, <1>3, <3>1, MinusIs
  <2>2. Neg(x) = W - x
    <3>1. Neg(x) = (W - x) % W
      BY <1>1 DEF Neg, Not
    <3> DEFINE z == W - x
    <3>2. z \in Int /\ 0 <= z /\ z < W
      BY <1>1, <2>1
    <3> HIDE DEF z
    <3>3. z % W = z
      BY <1>1, <3>2, ModSmall
    <3> QED BY <3>1, <3>3 DEF z
  <2>3. Signed(x) = x - W /\ Abs(x) = W - x
    BY <1>2, <1>3, <2>2 DEF Abs
  <2>4. Size(x - W) = W - x /\ x - W < 0 /\ W - x <= W
    BY <1>1, <2>1 DEF Size
  <2> QED BY <1>1, <1>2, <1>3, <2>3, <2>4
<1>4. CASE ~Minus(x)
  <2>1. Signed(x) = x /\ Abs(x) = x
    BY <1>2, <1>4 DEF Abs
  <2>2. Size(x) = x
    BY <1>1 DEF Size
  <2> QED BY <1>1, <1>2, <1>4, <2>1, <2>2
<1> QED BY <1>3, <1>4

LEMMA SdivExact ==
  \A a, b \in Word :
    /\ Sdiv(a, b) = (IF b = 0 THEN 0 ELSE Wrap(Quotient(Signed(a), Signed(b))))
    /\ Smod(a, b) = (IF b = 0 THEN 0 ELSE Wrap(Remainder(Signed(a), Signed(b))))
<1> TAKE a, b \in Word
<1>1. CASE b = 0
  BY <1>1 DEF Sdiv, Smod
<1>2. CASE b # 0
  <2> DEFINE n == Signed(a)
             d == Signed(b)
             q0 == Size(n) \div Size(d)
             r0 == Size(n) % Size(d)
  <2>1. /\ Abs(a) = Size(n) /\ (Minus(a) <=> n < 0) /\ n \in Int /\ Size(n) <= W
        /\ Abs(b) = Size(d) /\ (Minus(b) <=> d < 0) /\ d \in Int /\ d # 0
    BY <1>2, AbsIs
  <2>2. q0 \in Word /\ r0 \in Word
    <3>1. Abs(a) \in Word /\ Abs(b) \in Word /\ Abs(b) # 0
      BY <1>2, AbsWord
    <3>2. Abs(a) \div Abs(b) \in Word /\ Abs(a) % Abs(b) \in Word
      BY <3>1, DivWord
    <3> QED BY <2>1, <3>2
  <2> HIDE DEF n, d
  <2>3. /\ Quotient(n, d) = (IF (n < 0) # (d < 0) THEN 0 - q0 ELSE q0)
        /\ Remainder(n, d) = (IF n < 0 THEN 0 - r0 ELSE r0)
    BY <2>1, QuotientIs
  <2>4. /\ Sdiv(a, b) = (IF Minus(a) # Minus(b) THEN Neg(q0) ELSE q0)
        /\ Smod(a, b) = (IF Minus(a) /\ r0 # 0 THEN Neg(r0) ELSE r0)
    <3>1. Abs(a) \div Abs(b) = q0 /\ Abs(a) % Abs(b) = r0
      BY <2>1
    <3> HIDE DEF q0, r0
    <3> QED BY <1>2, <3>1 DEF Sdiv, Smod
  <2> HIDE DEF q0, r0
  <2>5. /\ Neg(q0) = Wrap(0 - q0) /\ Neg(r0) = Wrap(0 - r0)
        /\ q0 = Wrap(q0) /\ r0 = Wrap(r0)
    BY <2>2, NegIs, WordMod DEF Wrap
  <2>6. (Minus(a) # Minus(b)) <=> ((n < 0) # (d < 0))
    <3>1. Minus(a) \in BOOLEAN /\ Minus(b) \in BOOLEAN /\ (n < 0) \in BOOLEAN /\ (d < 0) \in BOOLEAN
      BY DEF Minus, Bit
    <3>2. (Minus(a) <=> n < 0) /\ (Minus(b) <=> d < 0)
      BY <2>1
    <3> QED BY <3>1, <3>2
  <2>7. Sdiv(a, b) = Wrap(Quotient(n, d))
    <3>1. CASE Minus(a) # Minus(b)
      <4>1. Sdiv(a, b) = Neg(q0) /\ Quotient(n, d) = 0 - q0
        BY <2>3, <2>4, <2>6, <3>1
      <4> QED BY <2>5, <4>1
    <3>2. CASE ~(Minus(a) # Minus(b))
      <4>1. Sdiv(a, b) = q0 /\ Quotient(n, d) = q0
        BY <2>3, <2>4, <2>6, <3>2
      <4> QED BY <2>5, <4>1
    <3> QED BY <3>1, <3>2
  <2>8. Smod(a, b) = Wrap(Remainder(n, d))
    <3>1. r0 = 0 => 0 - r0 = r0
      BY <2>2
    <3> QED BY <2>1, <2>3, <2>4, <2>5, <3>1
  <2> QED BY <1>2, <2>7, <2>8 DEF n, d
<1> QED BY <1>1, <1>2

LEMMA ComputeExact ==
  ASSUME NEW op \in Referenced, NEW x, x[1] \in Word, op # "CLZ" => x[2] \in Word
  PROVE  Compute(op, x) = Reference(op, x)
<1>1. CASE op = "SDIV"
  BY <1>1, SdivExact DEF Compute, Reference
<1>2. CASE op = "SMOD"
  BY <1>2, SdivExact DEF Compute, Reference
<1>3. CASE op = "SLT"
  BY <1>3, SltExact DEF Compute, Reference
<1>4. CASE op = "SGT"
  BY <1>4, SltExact DEF Compute, Reference
<1>5. CASE op = "SAR"
  BY <1>5, SarExact DEF Compute, Reference
<1>6. CASE op = "SIGNEXTEND"
  BY <1>6, SignextendExact DEF Compute, Reference
<1>7. CASE op = "CLZ"
  BY <1>7, ClzExact DEF Compute, Reference
<1> QED BY <1>1, <1>2, <1>3, <1>4, <1>5, <1>6, <1>7 DEF Referenced

----------------------------------------------------------------------------
(* What PUSH reads from the code.                                          *)

LEMMA PushedBound ==
  ASSUME NEW n \in Nat, NEW part, \A i \in 1 .. n : part[i] \in 0 .. (Two[ByteBits] - 1) * Two[ByteBits * (n - i)]
  PROVE  Total(part, 1 .. n) \in 0 .. Two[ByteBits * n] - 1
<1>0. \A m \in Nat : m <= n => ByteBits * (n - m) \in Nat /\ Two[ByteBits * (n - m)] \in Nat \ {0}
  <2> TAKE m \in Nat
  <2> HAVE m <= n
  <2>1. n - m \in Nat OBVIOUS
  <2>2. ByteBits * (n - m) \in Nat BY <2>1, WordFacts
  <2> QED BY <2>2, TwoType
<1>1. \A i \in 1 .. n : part[i] \in Nat
  OBVIOUS
<1> DEFINE top == Two[ByteBits * n]
           P(m) == Total(part, 1 .. m) <= top - Two[ByteBits * (n - m)]
           Bad == {m \in 0 .. n : ~ P(m)}
<1>2. top \in Nat
  <2>1. n - 0 = n OBVIOUS
  <2> QED BY <1>0, <2>1
<1>3. Bad = {}
  <2>1. SUFFICES ASSUME Bad # {} PROVE FALSE
    OBVIOUS
  <2>2. PICK m \in Bad : \A j \in Bad : m <= j
    <3>1. Bad \subseteq Nat OBVIOUS
    <3> HIDE DEF Bad
    <3> QED BY <2>1, <3>1, LeastExists
  <2>3. m # 0
    <3>1. n - 0 = n /\ 1 .. 0 = {} OBVIOUS
    <3>2. P(0) BY <1>2, <3>1, TotalEmpty
    <3> HIDE DEF P
    <3> QED BY <3>2
  <2>4. PICK c \in Nat : c + 1 = m /\ c \in 0 .. n
    <3>1. m - 1 \in Nat /\ (m - 1) + 1 = m /\ m - 1 \in 0 .. n BY <2>3
    <3> QED BY <3>1
  <2>5. P(c)
    <3>1. ~ m <= c BY <2>4
    <3> HIDE DEF P
    <3> QED BY <2>2, <2>4, <3>1
  <2>6. Total(part, 1 .. c + 1) = Total(part, 1 .. c) + part[c + 1]
    <3>1. \A i \in 1 .. c : part[i] \in Int BY <1>1, <2>4
    <3>2. part[c + 1] \in Int BY <1>1, <2>4
    <3> QED BY <2>4, <3>1, <3>2, RowMore
  <2>7. Two[ByteBits * (n - c)] = Two[ByteBits] * Two[ByteBits * (n - m)]
    <3>1. ByteBits * (n - c) = ByteBits + ByteBits * (n - m) BY <2>4, WordFacts
    <3>2. ByteBits \in Nat /\ ByteBits * (n - m) \in Nat BY <1>0, WordFacts
    <3> QED BY <3>1, <3>2, TwoSum
  <2> DEFINE t == Two[ByteBits * (n - m)]
             b == Two[ByteBits]
             s == Total(part, 1 .. c)
             y == part[m]
  <2>8. t \in Nat \ {0} /\ b \in Nat
    <3>1. m \in Nat /\ m <= n BY <2>4
    <3> QED BY <1>0, <3>1, TwoType, WordFacts
  <2>9. s \in Int
    <3>1. \A i \in 1 .. c : part[i] \in Int BY <1>1, <2>4
    <3>2. IsFiniteSet(1 .. c) BY <2>4, RowFinite
    <3> QED BY <3>1, <3>2, TotalType
  <2>10. y <= (b - 1) * t /\ y \in Int
    <3>1. m \in 1 .. n BY <2>4
    <3>2. part[m] \in 0 .. (Two[ByteBits] - 1) * Two[ByteBits * (n - m)] BY <3>1
    <3> QED BY <3>2
  <2>11. s <= top - b * t
    BY <2>5, <2>7
  <2>18. t \in Int /\ b \in Int /\ top \in Nat
    BY <1>2, <2>8
  <2> HIDE DEF t, b, s, y, top
  <2>12. (b - 1) * t = b * t - t
    BY <2>18
  <2> DEFINE z == b * t
  <2>13. z \in Int BY <2>8
  <2>14. s <= top - z /\ y <= z - t BY <2>10, <2>11, <2>12
  <2> HIDE DEF z
  <2>15. s + y <= top - t
    BY <1>2, <2>8, <2>9, <2>10, <2>13, <2>14
  <2>16. Total(part, 1 .. m) = s + y
    BY <2>4, <2>6 DEF s, y
  <2>17. P(m)
    BY <2>15, <2>16 DEF t
  <2> QED BY <2>2, <2>17
<1>4. P(n)
  <2>1. n \in 0 .. n OBVIOUS
  <2> HIDE DEF P
  <2> QED BY <1>3, <2>1
<1>5. Two[ByteBits * (n - n)] = 1
  <2>1. ByteBits * (n - n) = 0 BY WordFacts
  <2> QED BY <2>1, TwoZero
<1>6. Total(part, 1 .. n) \in Nat
  BY <1>1, RowFinite, TotalNat
<1> QED BY <1>2, <1>4, <1>5, <1>6

Fields ==
  {"pc", "limit", "spent", "refund", "stack", "mem", "ret", "static", "born", "pops", "push",
   "charge", "gain", "accs", "keys", "out", "want", "lent", "target", "known", "warm",
   "warmKeys", "slot", "temp", "bal", "logs", "gone", "paid", "owed", "colds", "cold"}

Outs ==
  {"Ok", "Fetch", "Call", "Return", "Revert", "OutOfGas", "StackOverflow", "StackUnderflow",
   "OutOfMemory", "NonStatic", "BadJump", "BadCopyRange", "GasBelowStipend", "BadOpcode"}

TypeOf(x) ==
  CASE x \in {"pc", "limit", "mem", "ret", "pops", "lent", "logs"} -> Nat
    [] x \in {"spent", "refund", "charge", "gain", "paid", "owed"} -> Int
    [] x \in {"static", "born", "gone"} -> BOOLEAN
    [] x \in {"stack", "push"} -> Seq(Word)
    [] x \in {"accs", "cold"} -> Seq(Acct)
    [] x \in {"keys", "warmKeys"} -> SUBSET Word
    [] x = "out" -> Outs
    [] x \in {"want", "known"} -> SUBSET Everything
    [] x = "target" -> Nat \X Nat
    [] x = "warm" -> SUBSET Acct
    [] x \in {"slot", "temp"} -> [Word -> Word]
    [] x \in {"bal", "colds"} -> [Acct -> Nat]

Shape(f) == f = [x \in Fields |-> f[x]]
IsFrame(f) == Shape(f) /\ \A x \in Fields : f[x] \in TypeOf(x)

\* g differs from f in the fields of D at most.
Only(g, f, D) == Shape(g) /\ \A x \in Fields \ D : g[x] = f[x]

LEMMA FieldTypes ==
  ASSUME NEW f, IsFrame(f)
  PROVE  /\ f.pc \in Nat /\ f.limit \in Nat /\ f.mem \in Nat /\ f.ret \in Nat
         /\ f.pops \in Nat /\ f.lent \in Nat /\ f.logs \in Nat
         /\ f.spent \in Int /\ f.refund \in Int /\ f.charge \in Int /\ f.gain \in Int
         /\ f.paid \in Int /\ f.owed \in Int
         /\ f.static \in BOOLEAN /\ f.born \in BOOLEAN /\ f.gone \in BOOLEAN
         /\ f.stack \in Seq(Word) /\ f.push \in Seq(Word)
         /\ f.accs \in Seq(Acct) /\ f.cold \in Seq(Acct)
         /\ f.keys \in SUBSET Word /\ f.warmKeys \in SUBSET Word
         /\ f.out \in Outs /\ f.want \in SUBSET Everything /\ f.known \in SUBSET Everything
         /\ f.target \in Nat \X Nat /\ f.warm \in SUBSET Acct
         /\ f.slot \in [Word -> Word] /\ f.temp \in [Word -> Word]
         /\ f.bal \in [Acct -> Nat] /\ f.colds \in [Acct -> Nat]
BY DEF IsFrame, Fields, TypeOf

LEMMA Retyped ==
  ASSUME NEW f, IsFrame(f), NEW g, NEW D, Only(g, f, D), \A x \in D : g[x] \in TypeOf(x)
  PROVE  IsFrame(g)
BY DEF IsFrame, Only

LEMMA TypeIs ==
  /\ TypeOf("pc") = Nat /\ TypeOf("mem") = Nat /\ TypeOf("ret") = Nat /\ TypeOf("pops") = Nat
  /\ TypeOf("lent") = Nat /\ TypeOf("logs") = Nat /\ TypeOf("limit") = Nat
  /\ TypeOf("spent") = Int /\ TypeOf("refund") = Int /\ TypeOf("charge") = Int
  /\ TypeOf("gain") = Int /\ TypeOf("paid") = Int /\ TypeOf("owed") = Int
  /\ TypeOf("static") = BOOLEAN /\ TypeOf("born") = BOOLEAN /\ TypeOf("gone") = BOOLEAN
  /\ TypeOf("stack") = Seq(Word) /\ TypeOf("push") = Seq(Word)
  /\ TypeOf("accs") = Seq(Acct) /\ TypeOf("cold") = Seq(Acct)
  /\ TypeOf("keys") = SUBSET Word /\ TypeOf("warmKeys") = SUBSET Word
  /\ TypeOf("out") = Outs /\ TypeOf("want") = SUBSET Everything
  /\ TypeOf("known") = SUBSET Everything /\ TypeOf("target") = Nat \X Nat
  /\ TypeOf("warm") = SUBSET Acct /\ TypeOf("slot") = [Word -> Word]
  /\ TypeOf("temp") = [Word -> Word] /\ TypeOf("bal") = [Acct -> Nat]
  /\ TypeOf("colds") = [Acct -> Nat]
BY DEF TypeOf

LEMMA PayFacts ==
  ASSUME NEW f, IsFrame(f), NEW x \in Int
  PROVE  LET g == Pay(f, x) IN
         /\ IsFrame(g) /\ Only(g, f, {"charge", "out"})
         /\ x <= Remaining(f) => g.charge = f.charge + x /\ g.out = f.out
         /\ x > Remaining(f) => g.charge = f.charge + (f.limit - f.spent) /\ g.out = "OutOfGas"
<1>3. f.charge \in Int /\ f.limit \in Nat /\ f.spent \in Int /\ f.out \in Outs /\ Shape(f)
  BY FieldTypes DEF IsFrame
<1>0. f.charge + x \in Int /\ f.charge + (f.limit - f.spent) \in Int /\ Remaining(f) \in Int
  BY <1>3 DEF Remaining
<1>1. CASE x > Remaining(f)
  <2> DEFINE g == [f EXCEPT !.charge = @ + (f.limit - f.spent), !.out = "OutOfGas"]
  <2>1. Only(g, f, {"charge", "out"}) /\ g.out = "OutOfGas"
        /\ g.charge = f.charge + (f.limit - f.spent)
    BY <1>3 DEF Shape, Only, Fields
  <2>2. Pay(f, x) = g
    BY <1>1 DEF Pay
  <2> HIDE DEF g
  <2>6. g.charge \in Int
    BY <2>1, <1>0, <1>3
  <2>8. "OutOfGas" \in Outs
    BY DEF Outs
  <2>7. g.out \in Outs
    BY <2>1, <2>8
  <2>4. g.charge \in Int /\ g.out \in Outs
    BY <2>6, <2>7
  <2>5. \A y \in {"charge", "out"} : g[y] \in TypeOf(y)
    BY <2>4, TypeIs
  <2>3. IsFrame(g)
    BY <2>1, <2>5, Retyped
  <2> QED BY <1>0, <1>1, <2>1, <2>2, <2>3
<1>2. CASE x <= Remaining(f)
  <2> DEFINE g == [f EXCEPT !.charge = @ + x]
  <2>1. Only(g, f, {"charge", "out"}) /\ g.out = f.out /\ g.charge = f.charge + x
    BY <1>3 DEF Shape, Only, Fields
  <2>2. Pay(f, x) = g
    BY <1>0, <1>2 DEF Pay
  <2> HIDE DEF g
  <2>4. g.charge \in Int /\ g.out \in Outs
    BY <2>1, <1>0, <1>3
  <2>5. \A y \in {"charge", "out"} : g[y] \in TypeOf(y)
    BY <2>4, TypeIs
  <2>3. IsFrame(g)
    BY <2>1, <2>5, Retyped
  <2> QED BY <1>0, <1>2, <2>1, <2>2, <2>3
<1> QED BY <1>0, <1>1, <1>2

LEMMA HaltFacts ==
  ASSUME NEW f, IsFrame(f), NEW why \in Outs
  PROVE  IsFrame(Halt(f, why)) /\ Only(Halt(f, why), f, {"out"}) /\ Halt(f, why).out = why
<1> DEFINE g == Halt(f, why)
<1>1. Only(g, f, {"out"}) /\ g.out = why
  BY DEF IsFrame, Shape, Only, Fields, Halt
<1> HIDE DEF g
<1>2. IsFrame(g)
  BY <1>1, Retyped, TypeIs
<1> QED BY <1>1, <1>2 DEF g

----------------------------------------------------------------------------
(* The price of memory.                                                    *)

LEMMA DivGrows == \A a, b \in Nat, c \in Nat \ {0} : a <= b => a \div c <= b \div c
<1> TAKE a, b \in Nat, c \in Nat \ {0}
<1> HAVE a <= b
<1> DEFINE p == a \div c
           q == b \div c
           r == a % c
           s == b % c
<1>1. /\ p \in Nat /\ r \in 0 .. c - 1 /\ a = c * p + r
      /\ q \in Nat /\ s \in 0 .. c - 1 /\ b = c * q + s
  BY DivType
<1> HIDE DEF p, q, r, s
<1>2. SUFFICES ASSUME p > q PROVE FALSE
  BY <1>1 DEF p, q
<1>3. p - q >= 1
  BY <1>1, <1>2
<1>4. c * (p - q) >= c
  BY <1>1, <1>3
<1>5. c * (p - q) = c * p - c * q
  BY <1>1
<1> DEFINE x == c * p
           y == c * q
<1>6. x \in Int /\ y \in Int /\ a = x + r /\ b = y + s /\ x - y >= c
  BY <1>1, <1>4, <1>5
<1> HIDE DEF x, y
<1> QED BY <1>1, <1>6

LEMMA SquareGrows == \A v, w \in Nat : v <= w => v * v <= w * w
<1> TAKE v, w \in Nat
<1> HAVE v <= w
<1>1. v * v <= v * w
  OBVIOUS
<1>2. v * w <= w * w
  OBVIOUS
<1> QED BY <1>1, <1>2

LEMMA CostType == \A a \in Nat : Cost(a) \in Nat
<1> TAKE a \in Nat
<1> DEFINE v == a \div Bytes
<1>1. v \in Nat
  BY DivType, WordFacts
<1>2. Cost(a) = (v * v) \div Quad + 3 * v
  BY DEF Cost
<1> HIDE DEF v
<1>4. v * v \in Nat /\ Quad \in Nat \ {0}
  BY <1>1, MachineAssumption
<1>3. (v * v) \div Quad \in Nat
  BY <1>4, DivType
<1> QED BY <1>1, <1>2, <1>3

LEMMA CostGrows == \A a, b \in Nat : a <= b => Cost(a) <= Cost(b)
<1> TAKE a, b \in Nat
<1> HAVE a <= b
<1> DEFINE v == a \div Bytes
           w == b \div Bytes
<1>1. v \in Nat /\ w \in Nat /\ v <= w
  BY DivType, DivGrows, WordFacts
<1>2. Cost(a) = (v * v) \div Quad + 3 * v /\ Cost(b) = (w * w) \div Quad + 3 * w
  BY DEF Cost
<1> HIDE DEF v, w
<1> DEFINE x == v * v
           y == w * w
<1>3. x \in Nat /\ y \in Nat /\ x <= y
  BY <1>1, SquareGrows
<1>4. Cost(a) = x \div Quad + 3 * v /\ Cost(b) = y \div Quad + 3 * w
  BY <1>2
<1> HIDE DEF x, y
<1>5. x \div Quad <= y \div Quad /\ x \div Quad \in Nat /\ y \div Quad \in Nat
  BY <1>3, DivType, DivGrows, MachineAssumption
<1> QED BY <1>1, <1>4, <1>5

LEMMA RoundUpFacts ==
  ASSUME NEW n \in Nat
  PROVE  /\ RoundUp(n) \in Nat /\ n <= RoundUp(n) /\ RoundUp(n) % Bytes = 0
         /\ \A m \in Nat : m % Bytes = 0 /\ n <= m => RoundUp(n) <= m
<1> DEFINE q == (n + Bytes - 1) \div Bytes
           r == (n + Bytes - 1) % Bytes
<1>1. /\ q \in Nat /\ r \in 0 .. Bytes - 1 /\ n + Bytes - 1 = Bytes * q + r
  <2>1. n + Bytes - 1 \in Nat /\ Bytes \in Nat \ {0} BY WordFacts
  <2> QED BY <2>1, DivType
<1>2. RoundUp(n) = q * Bytes
  BY DEF RoundUp
<1> HIDE DEF q, r
<1> DEFINE x == q * Bytes
<1>3. x \in Nat /\ x = Bytes * q
  BY <1>1, WordFacts
<1>4. n <= x /\ x < n + Bytes
  <2>1. n + Bytes - 1 = x + r BY <1>1, <1>3
  <2> HIDE DEF x
  <2> QED BY <1>1, <1>3, <2>1, WordFacts
<1>5. x % Bytes = 0
  <2>1. x \div Bytes = q BY <1>1, <1>3, DivExact, WordFacts
  <2>2. x = Bytes * (x \div Bytes) + (x % Bytes) /\ x % Bytes \in 0 .. Bytes - 1
    BY <1>3, DivType, WordFacts
  <2> HIDE DEF x
  <2> DEFINE y == x % Bytes
  <2>3. x = Bytes * q + y /\ y \in Int
    BY <2>1, <2>2, WordFacts
  <2> HIDE DEF y
  <2>4. y = 0 BY <1>3, <2>3
  <2> QED BY <2>4 DEF y
<1>6. \A m \in Nat : m % Bytes = 0 /\ n <= m => x <= m
  <2> TAKE m \in Nat
  <2> HAVE m % Bytes = 0 /\ n <= m
  <2> DEFINE k == m \div Bytes
  <2>8. k \in Nat /\ m = Bytes * k + (m % Bytes) /\ m % Bytes = 0
    BY DivType, WordFacts
  <2>1. k \in Nat /\ m = Bytes * k
    <3> HIDE DEF k
    <3>1. m = Bytes * k + 0 BY <2>8
    <3> QED BY <2>8, <3>1, WordFacts
  <2> HIDE DEF k
  <2>2. SUFFICES ASSUME m < x PROVE FALSE
    BY <1>3
  <2>3. k < q
    <3>1. SUFFICES ASSUME q <= k PROVE FALSE
      BY <1>1, <2>1
    <3>2. Bytes * q <= Bytes * k BY <1>1, <2>1, <3>1, WordFacts
    <3> QED BY <1>3, <2>1, <2>2, <3>2
  <2>4. k + 1 <= q
    BY <1>1, <2>1, <2>3
  <2>5. Bytes * (k + 1) <= Bytes * q
    BY <1>1, <2>1, <2>4, WordFacts
  <2>6. Bytes * (k + 1) = Bytes * k + Bytes
    BY <2>1, WordFacts
  <2>7. m + Bytes <= x
    BY <1>3, <2>1, <2>5, <2>6
  <2> QED BY <1>3, <1>4, <2>7, WordFacts
<1> QED BY <1>2, <1>3, <1>4, <1>5, <1>6

----------------------------------------------------------------------------
(* What the steps of evm.rs change.                                        *)

\* Nothing was paid back, and nothing paid that was not there.
Solvent(f) == f.charge >= 0 /\ (f.out # "OutOfGas" => f.spent + f.charge <= f.limit)

LEMMA PaySolvent ==
  ASSUME NEW f, IsFrame(f), NEW x \in Nat, Solvent(f), f.out # "OutOfGas"
  PROVE  /\ Solvent(Pay(f, x)) /\ f.charge <= Pay(f, x).charge
         /\ Pay(f, x).out \in {f.out, "OutOfGas"}
         /\ Pay(f, x).out # "OutOfGas" => Pay(f, x).charge = f.charge + x
<1> DEFINE g == Pay(f, x)
<1>1. /\ IsFrame(g) /\ Only(g, f, {"charge", "out"})
      /\ x <= Remaining(f) => g.charge = f.charge + x /\ g.out = f.out
      /\ x > Remaining(f) => g.charge = f.charge + (f.limit - f.spent) /\ g.out = "OutOfGas"
  BY PayFacts
<1> HIDE DEF g
<1>2. f.charge \in Int /\ f.limit \in Nat /\ f.spent \in Int /\ Remaining(f) = f.limit - f.spent - f.charge
  BY FieldTypes DEF Remaining
<1>3. g.spent = f.spent /\ g.limit = f.limit
  BY <1>1 DEF Only, Fields
<1>4. f.charge >= 0 /\ f.spent + f.charge <= f.limit
  BY DEF Solvent
<1>5. CASE x <= Remaining(f)
  BY <1>1, <1>2, <1>3, <1>4, <1>5 DEF Solvent, g
<1>6. CASE x > Remaining(f)
  BY <1>1, <1>2, <1>3, <1>4, <1>6 DEF Solvent, g
<1> QED BY <1>2, <1>5, <1>6

LEMMA PushWordFacts ==
  ASSUME NEW f, IsFrame(f), NEW v \in Word
  PROVE  LET g == PushWord(f, v) IN
         /\ IsFrame(g) /\ Only(g, f, {"push", "out"})
         /\ \/ g.out = "StackOverflow" /\ g.push = f.push
            \/ /\ g.out = f.out /\ g.push = Append(f.push, v)
               /\ Len(f.stack) - f.pops + Len(f.push) < StackLimit
<1>1. Shape(f) /\ f.push \in Seq(Word) /\ f.out \in Outs /\ f.stack \in Seq(Word) /\ f.pops \in Nat
  BY FieldTypes DEF IsFrame
<1>2. CASE Len(f.stack) - f.pops + Len(f.push) >= StackLimit
  <2> DEFINE g == Halt(f, "StackOverflow")
  <2>1. PushWord(f, v) = g
    BY <1>2 DEF PushWord
  <2>2. IsFrame(g) /\ Only(g, f, {"out"}) /\ g.out = "StackOverflow"
    BY HaltFacts DEF Outs
  <2>3. g.push = f.push /\ Only(g, f, {"push", "out"})
    BY <2>2 DEF Only, Fields
  <2> HIDE DEF g
  <2> QED BY <2>1, <2>2, <2>3
<1>3. CASE ~(Len(f.stack) - f.pops + Len(f.push) >= StackLimit)
  <2> DEFINE g == [f EXCEPT !.push = Append(@, v)]
  <2>1. PushWord(f, v) = g
    BY <1>3 DEF PushWord
  <2>2. Only(g, f, {"push", "out"}) /\ g.out = f.out /\ g.push = Append(f.push, v)
    BY <1>1 DEF Shape, Only, Fields
  <2> HIDE DEF g
  <2>3. \A y \in {"push", "out"} : g[y] \in TypeOf(y)
    <3>1. Append(f.push, v) \in Seq(Word)
      BY <1>1
    <3>2. g.push \in Seq(Word) /\ g.out \in Outs
      BY <1>1, <2>2, <3>1
    <3> QED BY <3>2, TypeIs
  <2>4. IsFrame(g)
    BY <2>2, <2>3, Retyped
  <2>5. Len(f.stack) - f.pops + Len(f.push) < StackLimit
    BY <1>1, <1>3, MachineAssumption
  <2> QED BY <2>1, <2>2, <2>4, <2>5
<1> QED BY <1>2, <1>3

LEMMA FetchFacts ==
  ASSUME NEW f, IsFrame(f), NEW item \in Everything
  PROVE  LET g == Fetch(f, item) IN
         /\ IsFrame(g) /\ Only(g, f, {"out", "want"})
         /\ \/ g = f /\ item \in f.known
            \/ g.out = "Fetch" /\ g.want = {item} /\ item \notin f.known
<1>1. Shape(f)
  BY DEF IsFrame
<1>2. CASE item \in f.known
  BY <1>1, <1>2 DEF Fetch, Only
<1>3. CASE item \notin f.known
  <2> DEFINE g == [f EXCEPT !.out = "Fetch", !.want = {item}]
  <2>1. Fetch(f, item) = g
    BY <1>3 DEF Fetch
  <2>2. Only(g, f, {"out", "want"}) /\ g.out = "Fetch" /\ g.want = {item}
    BY <1>1 DEF Shape, Only, Fields
  <2> HIDE DEF g
  <2>3. \A y \in {"out", "want"} : g[y] \in TypeOf(y)
    BY <2>2, TypeIs DEF Outs
  <2>4. IsFrame(g)
    BY <2>2, <2>3, Retyped
  <2> QED BY <1>3, <2>1, <2>2, <2>4
<1> QED BY <1>2, <1>3

LEMMA WarmFacts ==
  ASSUME NEW f, IsFrame(f), NEW a \in Acct
  PROVE  /\ IsFrame(Warm(f, a)) /\ Only(Warm(f, a), f, {"accs"})
         /\ Warm(f, a).accs = Append(f.accs, a)
<1> DEFINE g == Warm(f, a)
<1>1. f.accs \in Seq(Acct) /\ Shape(f)
  BY FieldTypes DEF IsFrame
<1>2. Only(g, f, {"accs"}) /\ g.accs = Append(f.accs, a)
  BY <1>1 DEF Shape, Only, Fields, Warm
<1> HIDE DEF g
<1>3. \A y \in {"accs"} : g[y] \in TypeOf(y)
  <2>1. Append(f.accs, a) \in Seq(Acct) BY <1>1
  <2> QED BY <1>2, <2>1, TypeIs
<1>4. IsFrame(g)
  BY <1>2, <1>3, Retyped
<1> QED BY <1>2, <1>4 DEF g

LEMMA SurchargeFacts ==
  ASSUME NEW f, IsFrame(f), NEW a \in Acct
  PROVE  /\ IsFrame(Surcharge(f, a)) /\ Only(Surcharge(f, a), f, {"cold"})
         /\ Surcharge(f, a).cold = Append(f.cold, a)
<1> DEFINE g == Surcharge(f, a)
<1>1. f.cold \in Seq(Acct) /\ Shape(f)
  BY FieldTypes DEF IsFrame
<1>2. Only(g, f, {"cold"}) /\ g.cold = Append(f.cold, a)
  BY <1>1 DEF Shape, Only, Fields, Surcharge
<1> HIDE DEF g
<1>3. \A y \in {"cold"} : g[y] \in TypeOf(y)
  <2>1. Append(f.cold, a) \in Seq(Acct) BY <1>1
  <2> QED BY <1>2, <2>1, TypeIs
<1>4. IsFrame(g)
  BY <1>2, <1>3, Retyped
<1> QED BY <1>2, <1>4 DEF g

\* The end of the regions of regions that are not empty, or of what there is.
EndsOf(f, regions) == {f.mem} \cup {RoundUp(r[1] + r[2]) : r \in {s \in regions : s[2] > 0}}

MemoryFits(f) == f.mem <= MemLimit /\ f.mem % Bytes = 0

LEMMA EndFacts ==
  ASSUME NEW f, IsFrame(f), MemoryFits(f), NEW regions, IsFiniteSet(regions),
         \A r \in regions : r[1] \in Nat /\ r[2] \in Nat
  PROVE  LET end == Max(EndsOf(f, regions)) IN
         /\ end \in Nat /\ f.mem <= end /\ end % Bytes = 0
         /\ \A r \in regions : r[2] > 0 => r[1] + r[2] <= end
         /\ (\A r \in regions : r[2] > 0 => RegionFits(r[1], r[2])) => end <= MemLimit
         /\ (\A r \in regions : r[2] > 0 => r[1] + r[2] <= f.mem) => end = f.mem
<1> DEFINE real == {s \in regions : s[2] > 0}
           X == EndsOf(f, regions)
           end == Max(X)
<1>0. f.mem \in Nat /\ f.mem <= MemLimit /\ f.mem % Bytes = 0 /\ MemLimit \in Nat /\ MemLimit % Bytes = 0
  BY FieldTypes, MachineAssumption DEF MemoryFits
<1>1. IsFiniteSet(X)
  <2>1. IsFiniteSet(real) BY FS_Subset
  <2> HIDE DEF real
  <2> DEFINE F == [r \in real |-> RoundUp(r[1] + r[2])]
  <2>7. F \in Surjection(real, {F[r] : r \in real}) BY DEF Surjection
  <2>5. IsFiniteSet({F[r] : r \in real}) BY <2>1, <2>7, FS_Surjection DEF ExistsSurjection
  <2>6. {F[r] : r \in real} = {RoundUp(r[1] + r[2]) : r \in real} OBVIOUS
  <2>2. IsFiniteSet({RoundUp(r[1] + r[2]) : r \in real}) BY <2>5, <2>6
  <2>3. IsFiniteSet({f.mem}) BY FS_Singleton
  <2>4. X = {f.mem} \cup {RoundUp(r[1] + r[2]) : r \in real} BY DEF EndsOf, real
  <2> HIDE DEF X
  <2> QED BY <2>2, <2>3, <2>4, FS_Union
<1>2. \A r \in real : r \in regions /\ r[1] + r[2] \in Nat
  OBVIOUS
<1>3. \A x \in X : x \in Nat /\ x % Bytes = 0 /\ (x = f.mem \/ \E r \in real : x = RoundUp(r[1] + r[2]))
  BY <1>0, <1>2, RoundUpFacts DEF EndsOf
<1>4. f.mem \in X /\ \A r \in real : RoundUp(r[1] + r[2]) \in X
  BY DEF EndsOf
<1> HIDE DEF X
<1>5. end \in X /\ \A y \in X : y <= end
  <2>1. X \subseteq Int /\ X # {} BY <1>3, <1>4
  <2> QED BY <1>1, <2>1, MaxIs
<1> HIDE DEF end
<1>6. end \in Nat /\ f.mem <= end /\ end % Bytes = 0
  BY <1>3, <1>4, <1>5
<1>7. \A r \in regions : r[2] > 0 => r[1] + r[2] <= end
  <2> TAKE r \in regions
  <2> HAVE r[2] > 0
  <2>1. r \in real OBVIOUS
  <2>2. RoundUp(r[1] + r[2]) <= end BY <1>4, <1>5, <2>1
  <2>3. r[1] + r[2] \in Nat BY <1>2, <2>1
  <2>4. RoundUp(r[1] + r[2]) \in Nat /\ r[1] + r[2] <= RoundUp(r[1] + r[2])
    BY <2>3, RoundUpFacts
  <2> HIDE DEF real
  <2> QED BY <1>6, <2>2, <2>3, <2>4
<1>8. ASSUME NEW m \in Nat, m % Bytes = 0, f.mem <= m, \A r \in real : r[1] + r[2] <= m
      PROVE  end <= m
  <2>1. CASE end = f.mem
    BY <1>8, <2>1
  <2>2. CASE \E r \in real : end = RoundUp(r[1] + r[2])
    <3>1. PICK r \in real : end = RoundUp(r[1] + r[2])
      BY <2>2
    <3>2. r[1] + r[2] \in Nat /\ r[1] + r[2] <= m
      BY <1>2, <1>8
    <3> QED BY <1>8, <3>1, <3>2, RoundUpFacts
  <2> QED BY <1>3, <1>5, <2>1, <2>2
<1>9. ASSUME \A r \in regions : r[2] > 0 => RegionFits(r[1], r[2])
      PROVE  end <= MemLimit
  <2>1. \A r \in real : r[1] + r[2] <= MemLimit
    BY <1>0, <1>9 DEF RegionFits
  <2> QED BY <1>0, <1>8, <2>1
<1>10. ASSUME \A r \in regions : r[2] > 0 => r[1] + r[2] <= f.mem
       PROVE  end = f.mem
  <2>1. \A r \in real : r[1] + r[2] <= f.mem
    BY <1>10
  <2>2. end <= f.mem
    BY <1>0, <1>8, <2>1
  <2> QED BY <1>0, <1>6, <2>2
<1> QED BY <1>6, <1>7, <1>9, <1>10 DEF end, X

LEMMA GrowFacts ==
  ASSUME NEW f, IsFrame(f), MemoryFits(f), Solvent(f), f.out # "OutOfGas",
         NEW regions, IsFiniteSet(regions),
         \A r \in regions : r[1] \in Nat /\ r[2] \in Nat
  PROVE  LET g == Grow(f, regions) IN
         /\ IsFrame(g) /\ Only(g, f, {"charge", "out", "mem", "owed"})
         /\ MemoryFits(g) /\ f.mem <= g.mem
         /\ g.owed - f.owed = Cost(g.mem) - Cost(f.mem)
         /\ Solvent(g) /\ f.charge <= g.charge
         /\ g.out \in {f.out, "OutOfGas", "OutOfMemory"}
         /\ g.out = "Ok" => \A r \in regions : r[2] > 0 => r[1] + r[2] <= g.mem
         /\ (\A r \in regions : r[2] > 0 => r[1] + r[2] <= f.mem) =>
              g.mem = f.mem /\ (g.out # "OutOfGas" => g.charge = f.charge)
         /\ (\A r \in regions : r[2] > 0 => r[1] + r[2] <= f.mem) => g.out # "OutOfGas"
<1> DEFINE real == {r \in regions : r[2] > 0}
           end == Max(EndsOf(f, regions))
           x == Cost(end) - Cost(f.mem)
           p == Pay(f, x)
           g == Grow(f, regions)
<1>1. /\ end \in Nat /\ f.mem <= end /\ end % Bytes = 0
      /\ \A r \in regions : r[2] > 0 => r[1] + r[2] <= end
      /\ (\A r \in regions : r[2] > 0 => RegionFits(r[1], r[2])) => end <= MemLimit
      /\ (\A r \in regions : r[2] > 0 => r[1] + r[2] <= f.mem) => end = f.mem
  BY EndFacts
<1>2. /\ g = IF \E r \in real : ~RegionFits(r[1], r[2]) THEN Halt(f, "OutOfMemory")
             ELSE IF end = f.mem \/ p.out # "Ok" THEN p
             ELSE [p EXCEPT !.mem = end, !.owed = @ + x]
  BY DEF Grow, EndsOf
<1>3. \A r \in real : r \in regions /\ r[2] > 0
  OBVIOUS
<1>4. (\A r \in real : RegionFits(r[1], r[2])) => end <= MemLimit
  BY <1>1
<1> HIDE DEF real, g, end
<1>5. f.mem \in Nat /\ f.owed \in Int /\ Shape(f) /\ f.out \in Outs /\ f.charge \in Int
      /\ f.spent \in Int /\ f.limit \in Nat
  BY FieldTypes DEF IsFrame
<1>6. x \in Nat /\ Cost(end) \in Nat /\ Cost(f.mem) \in Nat /\ (end = f.mem => x = 0)
  BY <1>1, <1>5, CostType, CostGrows
<1>7. x = Cost(end) - Cost(f.mem)
  OBVIOUS
<1> HIDE DEF x
<1>8. IsFrame(p) /\ Only(p, f, {"charge", "out"})
  BY <1>6, PayFacts
<1>9. /\ Solvent(p) /\ f.charge <= p.charge /\ p.out \in {f.out, "OutOfGas"}
      /\ p.out # "OutOfGas" => p.charge = f.charge + x
  BY <1>6, PaySolvent
<1>10. x = 0 => p.out # "OutOfGas"
  <2>1. f.spent + f.charge <= f.limit BY DEF Solvent
  <2>2. x = 0 => x <= Remaining(f) BY <1>5, <2>1 DEF Remaining
  <2> QED BY <1>6, <2>2, PayFacts
<1> HIDE DEF p
<1>11. p.mem = f.mem /\ p.owed = f.owed /\ Only(p, f, {"charge", "out", "mem", "owed"}) /\ Shape(p)
       /\ p.spent = f.spent /\ p.limit = f.limit
  BY <1>8 DEF Only, Fields
<1>12. CASE \E r \in real : ~RegionFits(r[1], r[2])
  <2>1. g = Halt(f, "OutOfMemory")
    BY <1>2, <1>12
  <2>2. IsFrame(g) /\ Only(g, f, {"out"}) /\ g.out = "OutOfMemory"
    BY <2>1, HaltFacts DEF Outs
  <2>3. g.mem = f.mem /\ g.owed = f.owed /\ g.charge = f.charge /\ g.spent = f.spent
        /\ g.limit = f.limit /\ Only(g, f, {"charge", "out", "mem", "owed"})
    BY <2>2 DEF Only, Fields
  <2>4. Solvent(g)
    BY <2>2, <2>3 DEF Solvent
  <2>5. MemoryFits(g)
    BY <2>3 DEF MemoryFits
  <2> QED BY <1>5, <1>6, <2>2, <2>3, <2>4, <2>5 DEF g
<1>13. CASE (\A r \in real : RegionFits(r[1], r[2])) /\ (end = f.mem \/ p.out # "Ok")
  <2>1. g = p
    BY <1>2, <1>13
  <2>2. MemoryFits(p)
    BY <1>11 DEF MemoryFits
  <2>3. p.out = "Ok" => end = p.mem
    BY <1>11, <1>13
  <2>4. p.owed - f.owed = Cost(p.mem) - Cost(f.mem)
    BY <1>5, <1>6, <1>11
  <2>5. /\ p.out = "Ok" => \A r \in regions : r[2] > 0 => r[1] + r[2] <= p.mem
        /\ f.mem <= p.mem
    BY <1>1, <1>5, <1>11, <2>3
  <2>6. (\A r \in regions : r[2] > 0 => r[1] + r[2] <= f.mem) =>
          p.mem = f.mem /\ (p.out # "OutOfGas" => p.charge = f.charge) /\ p.out # "OutOfGas"
    BY <1>1, <1>5, <1>6, <1>9, <1>10, <1>11
  <2>7. p.out \in {f.out, "OutOfGas", "OutOfMemory"}
    BY <1>9
  <2> QED BY <1>8, <1>9, <1>11, <2>1, <2>2, <2>4, <2>5, <2>6, <2>7 DEF g
<1>14. CASE (\A r \in real : RegionFits(r[1], r[2])) /\ ~(end = f.mem \/ p.out # "Ok")
  <2> DEFINE h == [p EXCEPT !.mem = end, !.owed = @ + x]
  <2>1. g = h
    BY <1>2, <1>14
  <2>2. Only(h, p, {"mem", "owed"}) /\ h.mem = end /\ h.owed = p.owed + x
    BY <1>11 DEF Shape, Only, Fields
  <2> HIDE DEF h
  <2>3. \A y \in {"mem", "owed"} : h[y] \in TypeOf(y)
    <3>1. h.mem \in Nat /\ h.owed \in Int BY <1>1, <1>5, <1>6, <1>11, <2>2
    <3> QED BY <3>1, TypeIs
  <2>4. IsFrame(h)
    BY <1>8, <2>2, <2>3, Retyped
  <2>5. Only(h, f, {"charge", "out", "mem", "owed"}) /\ h.charge = p.charge /\ h.out = p.out
        /\ h.spent = p.spent /\ h.limit = p.limit
    BY <1>8, <2>2 DEF Only, Fields
  <2>6. Solvent(h)
    BY <1>9, <2>5 DEF Solvent
  <2>7. MemoryFits(h)
    BY <1>1, <1>4, <1>14, <2>2 DEF MemoryFits
  <2>8. h.owed - f.owed = Cost(h.mem) - Cost(f.mem)
    BY <1>5, <1>6, <1>7, <1>11, <2>2
  <2>9. f.mem <= h.mem /\ \A r \in regions : r[2] > 0 => r[1] + r[2] <= h.mem
    BY <1>1, <2>2
  <2>10. ~ \A r \in regions : r[2] > 0 => r[1] + r[2] <= f.mem
    BY <1>1, <1>14
  <2>11. h.out \in {f.out, "OutOfGas", "OutOfMemory"} /\ f.charge <= h.charge
    BY <1>9, <2>5
  <2> QED BY <2>1, <2>4, <2>5, <2>6, <2>7, <2>8, <2>9, <2>10, <2>11 DEF g
<1> QED BY <1>12, <1>13, <1>14

----------------------------------------------------------------------------
(* What is pending is done, or forgotten.                                  *)

Pending == {"pops", "push", "charge", "gain", "accs", "keys", "owed", "cold"}

\* Nothing is pending.
Clean(f) ==
  /\ f.pops = 0 /\ f.push = <<>> /\ f.charge = 0 /\ f.gain = 0
  /\ f.accs = <<>> /\ f.keys = {} /\ f.owed = 0 /\ f.cold = <<>>

LEMMA CleanTyped ==
  ASSUME NEW g, Clean(g)
  PROVE  \A x \in Pending : g[x] \in TypeOf(x)
<1>1. g.pops \in TypeOf("pops") /\ g.charge \in TypeOf("charge")
      /\ g.gain \in TypeOf("gain") /\ g.owed \in TypeOf("owed")
  BY TypeIs DEF Clean
<1>2. g.push \in TypeOf("push")
  <2>1. <<>> \in Seq(Word) OBVIOUS
  <2> QED BY <2>1, TypeIs DEF Clean
<1>3. g.accs \in TypeOf("accs") /\ g.cold \in TypeOf("cold")
  <2>1. <<>> \in Seq(Acct) OBVIOUS
  <2> QED BY <2>1, TypeIs DEF Clean
<1>4. g.keys \in TypeOf("keys")
  <2>1. {} \in SUBSET Word OBVIOUS
  <2> QED BY <2>1, TypeIs DEF Clean
<1> QED BY <1>1, <1>2, <1>3, <1>4 DEF Pending

LEMMA ResetFacts ==
  ASSUME NEW f, IsFrame(f)
  PROVE  /\ IsFrame(Reset(f)) /\ Only(Reset(f), f, Pending \cup {"out", "want"})
         /\ Clean(Reset(f)) /\ Reset(f).out = "Ok" /\ Reset(f).want = {}
<1> DEFINE g == Reset(f)
<1>1. Shape(f) /\ DOMAIN f = Fields
  BY DEF IsFrame, Shape
<1>2. DOMAIN g = Fields
  BY <1>1 DEF Reset
<1>3. Shape(g)
  BY ZenonT(30), <1>2 DEF Shape, Reset
<1>4. g.pops = 0 /\ g.push = <<>> /\ g.charge = 0 /\ g.gain = 0
  BY <1>1 DEF Fields, Reset
<1>5. g.accs = <<>> /\ g.keys = {} /\ g.owed = 0 /\ g.cold = <<>>
  BY <1>1 DEF Fields, Reset
<1>6. g.out = "Ok" /\ g.want = {}
  BY <1>1 DEF Fields, Reset
<1>7. \A x \in Fields \ (Pending \cup {"out", "want"}) : g[x] = f[x]
  BY <1>1 DEF Fields, Reset, Pending
<1> HIDE DEF g
<1>8. Clean(g)
  BY <1>4, <1>5 DEF Clean
<1>9. Only(g, f, Pending \cup {"out", "want"})
  BY <1>3, <1>7 DEF Only
<1>10. \A y \in Pending \cup {"out", "want"} : g[y] \in TypeOf(y)
  <2>1. "Ok" \in Outs /\ {} \in SUBSET Everything BY DEF Outs
  <2> QED BY <1>6, <1>8, <2>1, CleanTyped, TypeIs
<1>11. IsFrame(g)
  BY <1>9, <1>10, Retyped
<1> QED BY <1>6, <1>8, <1>9, <1>11 DEF g

----------------------------------------------------------------------------
(* The programs: which steps may follow which.                             *)

Payers     == {"charge", "charge_exp", "per_word", "value_cost", "paid_value", "log_cost"}
Checks     == {"static", "operands", "range", "fixed", "ret_range", "sentinel", "yield", "invalid"}
Readers    == {"peek", "operands"}
Fetchers   == {"need", "need_this", "need_delegate", "need_slot", "need_hash"}
Pushers    == {"push", "dup"}
Warmers    == {"cold", "access", "access_delegate", "cold_heir"}
ValueCosts == {"value_cost", "paid_value"}
Growers    == {"expand", "expand_fixed"}
Lasts      == {"swap", "jump", "jumpi", "skip", "log"}
Changers   == Lasts \cup Growers \cup {"warm_slot", "sstore", "tstore", "bequeath", "lend"}

Steps ==
  Payers \cup Checks \cup Fetchers \cup Pushers \cup Warmers \cup Changers \cup {"peek"}

\* The operands a step reads.
Reads(s) ==
  CASE s.do = "charge_exp" -> {2}
    [] s.do = "push" -> IF s.what \in {"slot", "temp", "hash"} THEN {1} ELSE {}
    [] s.do \in {"need", "need_delegate", "cold", "access", "access_delegate", "paid_value"} -> {s.i}
    [] s.do \in {"need_slot", "need_hash", "warm_slot", "jump", "cold_heir", "bequeath"} -> {1}
    [] s.do \in {"sstore", "tstore", "jumpi"} -> {1, 2}
    [] s.do = "log_cost" -> {2}
    [] s.do \in {"range", "ret_range"} -> {s.o, s.s}
    [] s.do \in {"fixed", "expand_fixed"} -> {s.o}
    [] s.do = "per_word" -> {s.s}
    [] s.do = "expand" -> UNION {{s.regions[j][1], s.regions[j][2]} : j \in 1 .. Len(s.regions)}
    [] s.do = "value_cost" -> {s.i, s.to}
    [] s.do = "lend" -> {s.i, s.v} \ {0}
    [] OTHER -> {}

\* The parameters of a step.
Parameters(s) ==
  /\ s.do \in Steps
  /\ s.do \in {"charge", "per_word"} => s.gas \in Nat
  /\ s.do \in {"peek", "operands", "fixed", "expand_fixed", "log_cost", "log"} => s.n \in Nat
  /\ s.do \in {"expand"} => Len(s.regions) \in {1, 2}
  /\ s.do = "push" => s.what \in {"alu", "data", "slot", "temp", "hash", "pc", "msize", "gas", "given"}
  /\ s.do = "yield" => s.how \in {"Call", "Return", "Revert"}

\* One of the first k steps is in D.
Past(p, k, D) == \E j \in 1 .. k : p[j].do \in D

\* n operands were asked for in the first k steps.
Read(p, k, n) == \E j \in 1 .. k : p[j].do \in Readers /\ n <= p[j].n

RetIndex(op) ==
  CASE op \in {"CALL", "CALLCODE"} -> 6 [] op \in {"DELEGATECALL", "STATICCALL"} -> 5 [] OTHER -> 0

LegalReads(p, k) == \A i \in Reads(p[k]) : i \in Nat /\ i >= 1 /\ Read(p, k - 1, i)

LegalPops(p, k) ==
  /\ p[k].do = "peek" => ~Past(p, k - 1, Pushers \cup {"peek"})
  /\ p[k].do = "log" => ~Past(p, k - 1, Pushers) /\ Read(p, k - 1, p[k].n + 2)

LegalPush(p, k, op) ==
  /\ p[k].do = "push" =>
       /\ p[k].what = "alu" =>
            op \in ArithOps /\ \E j \in 1 .. k - 1 : p[j].do = "peek" /\ p[j].n = Arity(op)
       /\ p[k].what = "data" => op = "PUSH"
  /\ p[k].do = "dup" => op = "DUP"
  /\ p[k].do = "swap" => op = "SWAP"

LegalOrder(p, k) ==
  /\ p[k].do \in Fetchers => ~Past(p, k - 1, Changers)
  /\ p[k].do \in Warmers \ {"access_delegate"} => ~Past(p, k - 1, Warmers)
  /\ p[k].do = "access_delegate" =>
       /\ ~Past(p, k - 1, Warmers \ {"access"})
       /\ \A j \in 1 .. k - 1 : p[j].do = "access" => p[j].i = p[k].i
  /\ p[k].do \in Lasts => k = Len(p)

LegalCall(p, k, op) ==
  /\ p[k].do = "lend" =>
       /\ ~Past(p, k - 1, {"lend"})
       /\ k + 1 = Len(p) /\ p[k + 1].do = "yield" /\ p[k + 1].how = "Call"
       /\ p[k].v # 0 => \E j \in 1 .. k - 1 : p[j].do \in ValueCosts /\ p[j].i = p[k].v
  /\ p[k].do \in {"need_delegate", "access_delegate"} =>
       \E j \in 1 .. k - 1 : p[j].do = "need" /\ p[j].i = p[k].i /\ p[j].but \subseteq Pre \cup {0}
  /\ p[k].do = "yield" /\ p[k].how = "Call" /\ RetIndex(op) # 0 =>
       \E j \in 1 .. k - 1 :
         p[j].do = "expand"
         /\ \E m \in 1 .. Len(p[j].regions) : p[j].regions[m] = <<RetIndex(op), RetIndex(op) + 1>>

LegalStep(p, k, op) ==
  /\ Parameters(p[k]) /\ LegalReads(p, k) /\ LegalPops(p, k)
  /\ LegalPush(p, k, op) /\ LegalOrder(p, k) /\ LegalCall(p, k, op)

Legal(p, op) == Len(p) \in Nat /\ \A k \in 1 .. Len(p) : LegalStep(p, k, op)

LEMMA StopLegal == Legal(<<Yield("Return")>>, "STOP")
<1>1. /\ Len(<<Yield("Return")>>) = 1
      /\ <<Yield("Return")>>[1] = [do |-> "yield", how |-> "Return"]
  BY DEF Yield
<1> USE DEF LegalStep, Parameters, LegalReads, LegalPops, LegalPush, LegalOrder, LegalCall, Reads, Read, Past,
     Steps, Payers, Checks, Readers, Fetchers, Pushers, Warmers, ValueCosts, Growers, Lasts, Changers, RetIndex
<1>2. LegalStep(<<Yield("Return")>>, 1, "STOP")
  BY <1>1
<1> HIDE DEF LegalStep, Parameters, LegalReads, LegalPops, LegalPush, LegalOrder, LegalCall, Reads, Read, Past,
     Steps, Payers, Checks, Readers, Fetchers, Pushers, Warmers, ValueCosts, Growers, Lasts, Changers, RetIndex
<1>3. \A k \in 1 .. 1 : LegalStep(<<Yield("Return")>>, k, "STOP")
  BY <1>2
<1> QED BY <1>1, <1>3 DEF Legal

LEMMA KeccakLegal == Legal(Keccak, "KECCAK256")
<1>1. /\ Len(Keccak) = 6
      /\ Keccak[1] = [do |-> "charge", gas |-> 30]
      /\ Keccak[2] = [do |-> "peek", n |-> 2]
      /\ Keccak[3] = [do |-> "range", o |-> 1, s |-> 2]
      /\ Keccak[4] = [do |-> "per_word", gas |-> 6, s |-> 2]
      /\ Keccak[5] = [do |-> "expand", regions |-> <<<<1, 2>>>>]
      /\ Keccak[6] = [do |-> "push", what |-> "given"]
  BY DEF Keccak, Charge, Peek, InRange, PerWord, Expand, Push
<1> USE DEF LegalStep, Parameters, LegalReads, LegalPops, LegalPush, LegalOrder, LegalCall, Reads, Read, Past,
     Steps, Payers, Checks, Readers, Fetchers, Pushers, Warmers, ValueCosts, Growers, Lasts, Changers, RetIndex
<1>2. LegalStep(Keccak, 1, "KECCAK256")
  BY <1>1
<1>3. LegalStep(Keccak, 2, "KECCAK256")
  BY <1>1
<1>4. LegalStep(Keccak, 3, "KECCAK256")
  BY <1>1
<1>5. LegalStep(Keccak, 4, "KECCAK256")
  BY <1>1
<1>6. LegalStep(Keccak, 5, "KECCAK256")
  BY <1>1
<1>7. LegalStep(Keccak, 6, "KECCAK256")
  BY <1>1
<1> HIDE DEF LegalStep, Parameters, LegalReads, LegalPops, LegalPush, LegalOrder, LegalCall, Reads, Read, Past,
     Steps, Payers, Checks, Readers, Fetchers, Pushers, Warmers, ValueCosts, Growers, Lasts, Changers, RetIndex
<1>8. \A k \in 1 .. 6 : LegalStep(Keccak, k, "KECCAK256")
  BY <1>2, <1>3, <1>4, <1>5, <1>6, <1>7
<1> QED BY <1>1, <1>8 DEF Legal

LEMMA EnvLegal == Legal(Env(2), "CALLVALUE")
<1>1. /\ Len(Env(2)) = 2
      /\ Env(2)[1] = [do |-> "charge", gas |-> 2]
      /\ Env(2)[2] = [do |-> "push", what |-> "given"]
  BY DEF Env, Charge, Push
<1> USE DEF LegalStep, Parameters, LegalReads, LegalPops, LegalPush, LegalOrder, LegalCall, Reads, Read, Past,
     Steps, Payers, Checks, Readers, Fetchers, Pushers, Warmers, ValueCosts, Growers, Lasts, Changers, RetIndex
<1>2. LegalStep(Env(2), 1, "CALLVALUE")
  BY <1>1
<1>3. LegalStep(Env(2), 2, "CALLVALUE")
  BY <1>1
<1> HIDE DEF LegalStep, Parameters, LegalReads, LegalPops, LegalPush, LegalOrder, LegalCall, Reads, Read, Past,
     Steps, Payers, Checks, Readers, Fetchers, Pushers, Warmers, ValueCosts, Growers, Lasts, Changers, RetIndex
<1>4. \A k \in 1 .. 2 : LegalStep(Env(2), k, "CALLVALUE")
  BY <1>2, <1>3
<1>5. Len(Env(2)) \in Nat
  BY <1>1
<1> QED BY <1>1, <1>4, <1>5 DEF Legal

LEMMA CallDataLoadLegal == Legal(CallDataLoad, "CALLDATALOAD")
<1>1. /\ Len(CallDataLoad) = 3
      /\ CallDataLoad[1] = [do |-> "charge", gas |-> 3]
      /\ CallDataLoad[2] = [do |-> "peek", n |-> 1]
      /\ CallDataLoad[3] = [do |-> "push", what |-> "given"]
  BY DEF CallDataLoad, Charge, Peek, Push
<1> USE DEF LegalStep, Parameters, LegalReads, LegalPops, LegalPush, LegalOrder, LegalCall, Reads, Read, Past,
     Steps, Payers, Checks, Readers, Fetchers, Pushers, Warmers, ValueCosts, Growers, Lasts, Changers, RetIndex
<1>2. LegalStep(CallDataLoad, 1, "CALLDATALOAD")
  BY <1>1
<1>3. LegalStep(CallDataLoad, 2, "CALLDATALOAD")
  BY <1>1
<1>4. LegalStep(CallDataLoad, 3, "CALLDATALOAD")
  BY <1>1
<1> HIDE DEF LegalStep, Parameters, LegalReads, LegalPops, LegalPush, LegalOrder, LegalCall, Reads, Read, Past,
     Steps, Payers, Checks, Readers, Fetchers, Pushers, Warmers, ValueCosts, Growers, Lasts, Changers, RetIndex
<1>5. \A k \in 1 .. 3 : LegalStep(CallDataLoad, k, "CALLDATALOAD")
  BY <1>2, <1>3, <1>4
<1> QED BY <1>1, <1>5 DEF Legal

LEMMA BlobHashLegal == Legal(BlobHash, "BLOBHASH")
<1>1. /\ Len(BlobHash) = 3
      /\ BlobHash[1] = [do |-> "charge", gas |-> 3]
      /\ BlobHash[2] = [do |-> "peek", n |-> 1]
      /\ BlobHash[3] = [do |-> "push", what |-> "given"]
  BY DEF BlobHash, Charge, Peek, Push
<1> USE DEF LegalStep, Parameters, LegalReads, LegalPops, LegalPush, LegalOrder, LegalCall, Reads, Read, Past,
     Steps, Payers, Checks, Readers, Fetchers, Pushers, Warmers, ValueCosts, Growers, Lasts, Changers, RetIndex
<1>2. LegalStep(BlobHash, 1, "BLOBHASH")
  BY <1>1
<1>3. LegalStep(BlobHash, 2, "BLOBHASH")
  BY <1>1
<1>4. LegalStep(BlobHash, 3, "BLOBHASH")
  BY <1>1
<1> HIDE DEF LegalStep, Parameters, LegalReads, LegalPops, LegalPush, LegalOrder, LegalCall, Reads, Read, Past,
     Steps, Payers, Checks, Readers, Fetchers, Pushers, Warmers, ValueCosts, Growers, Lasts, Changers, RetIndex
<1>5. \A k \in 1 .. 3 : LegalStep(BlobHash, k, "BLOBHASH")
  BY <1>2, <1>3, <1>4
<1> QED BY <1>1, <1>5 DEF Legal

LEMMA BalanceLegal == Legal(Balance, "BALANCE")
<1>1. /\ Len(Balance) = 5
      /\ Balance[1] = [do |-> "charge", gas |-> 100]
      /\ Balance[2] = [do |-> "peek", n |-> 1]
      /\ Balance[3] = [do |-> "need", i |-> 1, but |-> {}]
      /\ Balance[4] = [do |-> "cold", i |-> 1]
      /\ Balance[5] = [do |-> "push", what |-> "given"]
  BY DEF Balance, Charge, Peek, Need, Cold, Push
<1> USE DEF LegalStep, Parameters, LegalReads, LegalPops, LegalPush, LegalOrder, LegalCall, Reads, Read, Past,
     Steps, Payers, Checks, Readers, Fetchers, Pushers, Warmers, ValueCosts, Growers, Lasts, Changers, RetIndex
<1>2. LegalStep(Balance, 1, "BALANCE")
  BY <1>1
<1>3. LegalStep(Balance, 2, "BALANCE")
  BY <1>1
<1>4. LegalStep(Balance, 3, "BALANCE")
  BY <1>1
<1>5. LegalStep(Balance, 4, "BALANCE")
  BY <1>1
<1>6. LegalStep(Balance, 5, "BALANCE")
  BY <1>1
<1> HIDE DEF LegalStep, Parameters, LegalReads, LegalPops, LegalPush, LegalOrder, LegalCall, Reads, Read, Past,
     Steps, Payers, Checks, Readers, Fetchers, Pushers, Warmers, ValueCosts, Growers, Lasts, Changers, RetIndex
<1>7. \A k \in 1 .. 5 : LegalStep(Balance, k, "BALANCE")
  BY <1>2, <1>3, <1>4, <1>5, <1>6
<1> QED BY <1>1, <1>7 DEF Legal

LEMMA ExtCodeSizeLegal == Legal(ExtCodeSize, "EXTCODESIZE")
<1>1. /\ Len(ExtCodeSize) = 5
      /\ ExtCodeSize[1] = [do |-> "charge", gas |-> 100]
      /\ ExtCodeSize[2] = [do |-> "peek", n |-> 1]
      /\ ExtCodeSize[3] = [do |-> "need", i |-> 1, but |-> {}]
      /\ ExtCodeSize[4] = [do |-> "cold", i |-> 1]
      /\ ExtCodeSize[5] = [do |-> "push", what |-> "given"]
  BY DEF ExtCodeSize, Balance, Charge, Peek, Need, Cold, Push
<1> USE DEF LegalStep, Parameters, LegalReads, LegalPops, LegalPush, LegalOrder, LegalCall, Reads, Read, Past,
     Steps, Payers, Checks, Readers, Fetchers, Pushers, Warmers, ValueCosts, Growers, Lasts, Changers, RetIndex
<1>2. LegalStep(ExtCodeSize, 1, "EXTCODESIZE")
  BY <1>1
<1>3. LegalStep(ExtCodeSize, 2, "EXTCODESIZE")
  BY <1>1
<1>4. LegalStep(ExtCodeSize, 3, "EXTCODESIZE")
  BY <1>1
<1>5. LegalStep(ExtCodeSize, 4, "EXTCODESIZE")
  BY <1>1
<1>6. LegalStep(ExtCodeSize, 5, "EXTCODESIZE")
  BY <1>1
<1> HIDE DEF LegalStep, Parameters, LegalReads, LegalPops, LegalPush, LegalOrder, LegalCall, Reads, Read, Past,
     Steps, Payers, Checks, Readers, Fetchers, Pushers, Warmers, ValueCosts, Growers, Lasts, Changers, RetIndex
<1>7. \A k \in 1 .. 5 : LegalStep(ExtCodeSize, k, "EXTCODESIZE")
  BY <1>2, <1>3, <1>4, <1>5, <1>6
<1> QED BY <1>1, <1>7 DEF Legal

LEMMA ExtCodeHashLegal == Legal(ExtCodeHash, "EXTCODEHASH")
<1>1. /\ Len(ExtCodeHash) = 5
      /\ ExtCodeHash[1] = [do |-> "charge", gas |-> 100]
      /\ ExtCodeHash[2] = [do |-> "peek", n |-> 1]
      /\ ExtCodeHash[3] = [do |-> "need", i |-> 1, but |-> {}]
      /\ ExtCodeHash[4] = [do |-> "cold", i |-> 1]
      /\ ExtCodeHash[5] = [do |-> "push", what |-> "given"]
  BY DEF ExtCodeHash, Balance, Charge, Peek, Need, Cold, Push
<1> USE DEF LegalStep, Parameters, LegalReads, LegalPops, LegalPush, LegalOrder, LegalCall, Reads, Read, Past,
     Steps, Payers, Checks, Readers, Fetchers, Pushers, Warmers, ValueCosts, Growers, Lasts, Changers, RetIndex
<1>2. LegalStep(ExtCodeHash, 1, "EXTCODEHASH")
  BY <1>1
<1>3. LegalStep(ExtCodeHash, 2, "EXTCODEHASH")
  BY <1>1
<1>4. LegalStep(ExtCodeHash, 3, "EXTCODEHASH")
  BY <1>1
<1>5. LegalStep(ExtCodeHash, 4, "EXTCODEHASH")
  BY <1>1
<1>6. LegalStep(ExtCodeHash, 5, "EXTCODEHASH")
  BY <1>1
<1> HIDE DEF LegalStep, Parameters, LegalReads, LegalPops, LegalPush, LegalOrder, LegalCall, Reads, Read, Past,
     Steps, Payers, Checks, Readers, Fetchers, Pushers, Warmers, ValueCosts, Growers, Lasts, Changers, RetIndex
<1>7. \A k \in 1 .. 5 : LegalStep(ExtCodeHash, k, "EXTCODEHASH")
  BY <1>2, <1>3, <1>4, <1>5, <1>6
<1> QED BY <1>1, <1>7 DEF Legal

LEMMA SelfBalanceLegal == Legal(SelfBalance, "SELFBALANCE")
<1>1. /\ Len(SelfBalance) = 3
      /\ SelfBalance[1] = [do |-> "charge", gas |-> 5]
      /\ SelfBalance[2] = [do |-> "need_this"]
      /\ SelfBalance[3] = [do |-> "push", what |-> "given"]
  BY DEF SelfBalance, Charge, NeedThis, Push
<1> USE DEF LegalStep, Parameters, LegalReads, LegalPops, LegalPush, LegalOrder, LegalCall, Reads, Read, Past,
     Steps, Payers, Checks, Readers, Fetchers, Pushers, Warmers, ValueCosts, Growers, Lasts, Changers, RetIndex
<1>2. LegalStep(SelfBalance, 1, "SELFBALANCE")
  BY <1>1
<1>3. LegalStep(SelfBalance, 2, "SELFBALANCE")
  BY <1>1
<1>4. LegalStep(SelfBalance, 3, "SELFBALANCE")
  BY <1>1
<1> HIDE DEF LegalStep, Parameters, LegalReads, LegalPops, LegalPush, LegalOrder, LegalCall, Reads, Read, Past,
     Steps, Payers, Checks, Readers, Fetchers, Pushers, Warmers, ValueCosts, Growers, Lasts, Changers, RetIndex
<1>5. \A k \in 1 .. 3 : LegalStep(SelfBalance, k, "SELFBALANCE")
  BY <1>2, <1>3, <1>4
<1> QED BY <1>1, <1>5 DEF Legal

LEMMA BlockHashLegal == Legal(BlockHash, "BLOCKHASH")
<1>1. /\ Len(BlockHash) = 4
      /\ BlockHash[1] = [do |-> "charge", gas |-> 20]
      /\ BlockHash[2] = [do |-> "peek", n |-> 1]
      /\ BlockHash[3] = [do |-> "need_hash"]
      /\ BlockHash[4] = [do |-> "push", what |-> "hash"]
  BY DEF BlockHash, Charge, Peek, NeedHash, Push
<1> USE DEF LegalStep, Parameters, LegalReads, LegalPops, LegalPush, LegalOrder, LegalCall, Reads, Read, Past,
     Steps, Payers, Checks, Readers, Fetchers, Pushers, Warmers, ValueCosts, Growers, Lasts, Changers, RetIndex
<1>2. LegalStep(BlockHash, 1, "BLOCKHASH")
  BY <1>1
<1>3. LegalStep(BlockHash, 2, "BLOCKHASH")
  BY <1>1
<1>4. LegalStep(BlockHash, 3, "BLOCKHASH")
  BY <1>1
<1>5. LegalStep(BlockHash, 4, "BLOCKHASH")
  BY <1>1
<1> HIDE DEF LegalStep, Parameters, LegalReads, LegalPops, LegalPush, LegalOrder, LegalCall, Reads, Read, Past,
     Steps, Payers, Checks, Readers, Fetchers, Pushers, Warmers, ValueCosts, Growers, Lasts, Changers, RetIndex
<1>6. \A k \in 1 .. 4 : LegalStep(BlockHash, k, "BLOCKHASH")
  BY <1>2, <1>3, <1>4, <1>5
<1> QED BY <1>1, <1>6 DEF Legal

LEMMA ExtCodeCopyLegal == Legal(ExtCodeCopy, "EXTCODECOPY")
<1>1. /\ Len(ExtCodeCopy) = 7
      /\ ExtCodeCopy[1] = [do |-> "charge", gas |-> 100]
      /\ ExtCodeCopy[2] = [do |-> "peek", n |-> 4]
      /\ ExtCodeCopy[3] = [do |-> "range", o |-> 2, s |-> 4]
      /\ ExtCodeCopy[4] = [do |-> "need", i |-> 1, but |-> {}]
      /\ ExtCodeCopy[5] = [do |-> "cold", i |-> 1]
      /\ ExtCodeCopy[6] = [do |-> "expand", regions |-> <<<<2, 4>>>>]
      /\ ExtCodeCopy[7] = [do |-> "per_word", gas |-> 3, s |-> 4]
  BY DEF ExtCodeCopy, Charge, Peek, InRange, Need, Cold, Expand, PerWord
<1> USE DEF LegalStep, Parameters, LegalReads, LegalPops, LegalPush, LegalOrder, LegalCall, Reads, Read, Past,
     Steps, Payers, Checks, Readers, Fetchers, Pushers, Warmers, ValueCosts, Growers, Lasts, Changers, RetIndex
<1>2. LegalStep(ExtCodeCopy, 1, "EXTCODECOPY")
  BY <1>1
<1>3. LegalStep(ExtCodeCopy, 2, "EXTCODECOPY")
  BY <1>1
<1>4. LegalStep(ExtCodeCopy, 3, "EXTCODECOPY")
  BY <1>1
<1>5. LegalStep(ExtCodeCopy, 4, "EXTCODECOPY")
  BY <1>1
<1>6. LegalStep(ExtCodeCopy, 5, "EXTCODECOPY")
  BY <1>1
<1>7. LegalStep(ExtCodeCopy, 6, "EXTCODECOPY")
  BY <1>1
<1>8. LegalStep(ExtCodeCopy, 7, "EXTCODECOPY")
  BY <1>1
<1> HIDE DEF LegalStep, Parameters, LegalReads, LegalPops, LegalPush, LegalOrder, LegalCall, Reads, Read, Past,
     Steps, Payers, Checks, Readers, Fetchers, Pushers, Warmers, ValueCosts, Growers, Lasts, Changers, RetIndex
<1>9. \A k \in 1 .. 7 : LegalStep(ExtCodeCopy, k, "EXTCODECOPY")
  BY <1>2, <1>3, <1>4, <1>5, <1>6, <1>7, <1>8
<1> QED BY <1>1, <1>9 DEF Legal

LEMMA ReturnDataCopyLegal == Legal(ReturnDataCopy, "RETURNDATACOPY")
<1>1. /\ Len(ReturnDataCopy) = 7
      /\ ReturnDataCopy[1] = [do |-> "charge", gas |-> 3]
      /\ ReturnDataCopy[2] = [do |-> "peek", n |-> 3]
      /\ ReturnDataCopy[3] = [do |-> "range", o |-> 2, s |-> 3]
      /\ ReturnDataCopy[4] = [do |-> "range", o |-> 1, s |-> 3]
      /\ ReturnDataCopy[5] = [do |-> "ret_range", o |-> 2, s |-> 3]
      /\ ReturnDataCopy[6] = [do |-> "per_word", gas |-> 3, s |-> 3]
      /\ ReturnDataCopy[7] = [do |-> "expand", regions |-> <<<<1, 3>>>>]
  BY DEF ReturnDataCopy, Charge, Peek, InRange, RetRange, PerWord, Expand
<1> USE DEF LegalStep, Parameters, LegalReads, LegalPops, LegalPush, LegalOrder, LegalCall, Reads, Read, Past,
     Steps, Payers, Checks, Readers, Fetchers, Pushers, Warmers, ValueCosts, Growers, Lasts, Changers, RetIndex
<1>2. LegalStep(ReturnDataCopy, 1, "RETURNDATACOPY")
  BY <1>1
<1>3. LegalStep(ReturnDataCopy, 2, "RETURNDATACOPY")
  BY <1>1
<1>4. LegalStep(ReturnDataCopy, 3, "RETURNDATACOPY")
  BY <1>1
<1>5. LegalStep(ReturnDataCopy, 4, "RETURNDATACOPY")
  BY <1>1
<1>6. LegalStep(ReturnDataCopy, 5, "RETURNDATACOPY")
  BY <1>1
<1>7. LegalStep(ReturnDataCopy, 6, "RETURNDATACOPY")
  BY <1>1
<1>8. LegalStep(ReturnDataCopy, 7, "RETURNDATACOPY")
  BY <1>1
<1> HIDE DEF LegalStep, Parameters, LegalReads, LegalPops, LegalPush, LegalOrder, LegalCall, Reads, Read, Past,
     Steps, Payers, Checks, Readers, Fetchers, Pushers, Warmers, ValueCosts, Growers, Lasts, Changers, RetIndex
<1>9. \A k \in 1 .. 7 : LegalStep(ReturnDataCopy, k, "RETURNDATACOPY")
  BY <1>2, <1>3, <1>4, <1>5, <1>6, <1>7, <1>8
<1> QED BY <1>1, <1>9 DEF Legal

LEMMA PopLegal == Legal(Pop, "POP")
<1>1. /\ Len(Pop) = 2
      /\ Pop[1] = [do |-> "charge", gas |-> 2]
      /\ Pop[2] = [do |-> "peek", n |-> 1]
  BY DEF Pop, Charge, Peek
<1> USE DEF LegalStep, Parameters, LegalReads, LegalPops, LegalPush, LegalOrder, LegalCall, Reads, Read, Past,
     Steps, Payers, Checks, Readers, Fetchers, Pushers, Warmers, ValueCosts, Growers, Lasts, Changers, RetIndex
<1>2. LegalStep(Pop, 1, "POP")
  BY <1>1
<1>3. LegalStep(Pop, 2, "POP")
  BY <1>1
<1> HIDE DEF LegalStep, Parameters, LegalReads, LegalPops, LegalPush, LegalOrder, LegalCall, Reads, Read, Past,
     Steps, Payers, Checks, Readers, Fetchers, Pushers, Warmers, ValueCosts, Growers, Lasts, Changers, RetIndex
<1>4. \A k \in 1 .. 2 : LegalStep(Pop, k, "POP")
  BY <1>2, <1>3
<1> QED BY <1>1, <1>4 DEF Legal

LEMMA MStore8Legal == Legal(MStore8, "MSTORE8")
<1>1. /\ Len(MStore8) = 4
      /\ MStore8[1] = [do |-> "charge", gas |-> 3]
      /\ MStore8[2] = [do |-> "peek", n |-> 2]
      /\ MStore8[3] = [do |-> "fixed", o |-> 1, n |-> 1]
      /\ MStore8[4] = [do |-> "expand_fixed", o |-> 1, n |-> 1]
  BY DEF MStore8, Charge, Peek, Fixed, ExpandFixed
<1> USE DEF LegalStep, Parameters, LegalReads, LegalPops, LegalPush, LegalOrder, LegalCall, Reads, Read, Past,
     Steps, Payers, Checks, Readers, Fetchers, Pushers, Warmers, ValueCosts, Growers, Lasts, Changers, RetIndex
<1>2. LegalStep(MStore8, 1, "MSTORE8")
  BY <1>1
<1>3. LegalStep(MStore8, 2, "MSTORE8")
  BY <1>1
<1>4. LegalStep(MStore8, 3, "MSTORE8")
  BY <1>1
<1>5. LegalStep(MStore8, 4, "MSTORE8")
  BY <1>1
<1> HIDE DEF LegalStep, Parameters, LegalReads, LegalPops, LegalPush, LegalOrder, LegalCall, Reads, Read, Past,
     Steps, Payers, Checks, Readers, Fetchers, Pushers, Warmers, ValueCosts, Growers, Lasts, Changers, RetIndex
<1>6. \A k \in 1 .. 4 : LegalStep(MStore8, k, "MSTORE8")
  BY <1>2, <1>3, <1>4, <1>5
<1> QED BY <1>1, <1>6 DEF Legal

LEMMA SLoadLegal == Legal(SLoad, "SLOAD")
<1>1. /\ Len(SLoad) = 5
      /\ SLoad[1] = [do |-> "charge", gas |-> 100]
      /\ SLoad[2] = [do |-> "peek", n |-> 1]
      /\ SLoad[3] = [do |-> "need_slot"]
      /\ SLoad[4] = [do |-> "warm_slot"]
      /\ SLoad[5] = [do |-> "push", what |-> "slot"]
  BY DEF SLoad, Charge, Peek, NeedSlot, Act, Push
<1> USE DEF LegalStep, Parameters, LegalReads, LegalPops, LegalPush, LegalOrder, LegalCall, Reads, Read, Past,
     Steps, Payers, Checks, Readers, Fetchers, Pushers, Warmers, ValueCosts, Growers, Lasts, Changers, RetIndex
<1>2. LegalStep(SLoad, 1, "SLOAD")
  BY <1>1
<1>3. LegalStep(SLoad, 2, "SLOAD")
  BY <1>1
<1>4. LegalStep(SLoad, 3, "SLOAD")
  BY <1>1
<1>5. LegalStep(SLoad, 4, "SLOAD")
  BY <1>1
<1>6. LegalStep(SLoad, 5, "SLOAD")
  BY <1>1
<1> HIDE DEF LegalStep, Parameters, LegalReads, LegalPops, LegalPush, LegalOrder, LegalCall, Reads, Read, Past,
     Steps, Payers, Checks, Readers, Fetchers, Pushers, Warmers, ValueCosts, Growers, Lasts, Changers, RetIndex
<1>7. \A k \in 1 .. 5 : LegalStep(SLoad, k, "SLOAD")
  BY <1>2, <1>3, <1>4, <1>5, <1>6
<1> QED BY <1>1, <1>7 DEF Legal

LEMMA SStoreLegal == Legal(SStore, "SSTORE")
<1>1. /\ Len(SStore) = 5
      /\ SStore[1] = [do |-> "static"]
      /\ SStore[2] = [do |-> "sentinel"]
      /\ SStore[3] = [do |-> "peek", n |-> 2]
      /\ SStore[4] = [do |-> "need_slot"]
      /\ SStore[5] = [do |-> "sstore"]
  BY DEF SStore, Static, Act, Peek, NeedSlot
<1> USE DEF LegalStep, Parameters, LegalReads, LegalPops, LegalPush, LegalOrder, LegalCall, Reads, Read, Past,
     Steps, Payers, Checks, Readers, Fetchers, Pushers, Warmers, ValueCosts, Growers, Lasts, Changers, RetIndex
<1>2. LegalStep(SStore, 1, "SSTORE")
  BY <1>1
<1>3. LegalStep(SStore, 2, "SSTORE")
  BY <1>1
<1>4. LegalStep(SStore, 3, "SSTORE")
  BY <1>1
<1>5. LegalStep(SStore, 4, "SSTORE")
  BY <1>1
<1>6. LegalStep(SStore, 5, "SSTORE")
  BY <1>1
<1> HIDE DEF LegalStep, Parameters, LegalReads, LegalPops, LegalPush, LegalOrder, LegalCall, Reads, Read, Past,
     Steps, Payers, Checks, Readers, Fetchers, Pushers, Warmers, ValueCosts, Growers, Lasts, Changers, RetIndex
<1>7. \A k \in 1 .. 5 : LegalStep(SStore, k, "SSTORE")
  BY <1>2, <1>3, <1>4, <1>5, <1>6
<1> QED BY <1>1, <1>7 DEF Legal

LEMMA TLoadLegal == Legal(TLoad, "TLOAD")
<1>1. /\ Len(TLoad) = 3
      /\ TLoad[1] = [do |-> "charge", gas |-> 100]
      /\ TLoad[2] = [do |-> "peek", n |-> 1]
      /\ TLoad[3] = [do |-> "push", what |-> "temp"]
  BY DEF TLoad, Charge, Peek, Push
<1> USE DEF LegalStep, Parameters, LegalReads, LegalPops, LegalPush, LegalOrder, LegalCall, Reads, Read, Past,
     Steps, Payers, Checks, Readers, Fetchers, Pushers, Warmers, ValueCosts, Growers, Lasts, Changers, RetIndex
<1>2. LegalStep(TLoad, 1, "TLOAD")
  BY <1>1
<1>3. LegalStep(TLoad, 2, "TLOAD")
  BY <1>1
<1>4. LegalStep(TLoad, 3, "TLOAD")
  BY <1>1
<1> HIDE DEF LegalStep, Parameters, LegalReads, LegalPops, LegalPush, LegalOrder, LegalCall, Reads, Read, Past,
     Steps, Payers, Checks, Readers, Fetchers, Pushers, Warmers, ValueCosts, Growers, Lasts, Changers, RetIndex
<1>5. \A k \in 1 .. 3 : LegalStep(TLoad, k, "TLOAD")
  BY <1>2, <1>3, <1>4
<1> QED BY <1>1, <1>5 DEF Legal

LEMMA TStoreLegal == Legal(TStore, "TSTORE")
<1>1. /\ Len(TStore) = 4
      /\ TStore[1] = [do |-> "static"]
      /\ TStore[2] = [do |-> "charge", gas |-> 100]
      /\ TStore[3] = [do |-> "peek", n |-> 2]
      /\ TStore[4] = [do |-> "tstore"]
  BY DEF TStore, Static, Charge, Peek, Act
<1> USE DEF LegalStep, Parameters, LegalReads, LegalPops, LegalPush, LegalOrder, LegalCall, Reads, Read, Past,
     Steps, Payers, Checks, Readers, Fetchers, Pushers, Warmers, ValueCosts, Growers, Lasts, Changers, RetIndex
<1>2. LegalStep(TStore, 1, "TSTORE")
  BY <1>1
<1>3. LegalStep(TStore, 2, "TSTORE")
  BY <1>1
<1>4. LegalStep(TStore, 3, "TSTORE")
  BY <1>1
<1>5. LegalStep(TStore, 4, "TSTORE")
  BY <1>1
<1> HIDE DEF LegalStep, Parameters, LegalReads, LegalPops, LegalPush, LegalOrder, LegalCall, Reads, Read, Past,
     Steps, Payers, Checks, Readers, Fetchers, Pushers, Warmers, ValueCosts, Growers, Lasts, Changers, RetIndex
<1>6. \A k \in 1 .. 4 : LegalStep(TStore, k, "TSTORE")
  BY <1>2, <1>3, <1>4, <1>5
<1> QED BY <1>1, <1>6 DEF Legal

LEMMA JumpLegal == Legal(Jump, "JUMP")
<1>1. /\ Len(Jump) = 3
      /\ Jump[1] = [do |-> "charge", gas |-> 8]
      /\ Jump[2] = [do |-> "peek", n |-> 1]
      /\ Jump[3] = [do |-> "jump"]
  BY DEF Jump, Charge, Peek, Act
<1> USE DEF LegalStep, Parameters, LegalReads, LegalPops, LegalPush, LegalOrder, LegalCall, Reads, Read, Past,
     Steps, Payers, Checks, Readers, Fetchers, Pushers, Warmers, ValueCosts, Growers, Lasts, Changers, RetIndex
<1>2. LegalStep(Jump, 1, "JUMP")
  BY <1>1
<1>3. LegalStep(Jump, 2, "JUMP")
  BY <1>1
<1>4. LegalStep(Jump, 3, "JUMP")
  BY <1>1
<1> HIDE DEF LegalStep, Parameters, LegalReads, LegalPops, LegalPush, LegalOrder, LegalCall, Reads, Read, Past,
     Steps, Payers, Checks, Readers, Fetchers, Pushers, Warmers, ValueCosts, Growers, Lasts, Changers, RetIndex
<1>5. \A k \in 1 .. 3 : LegalStep(Jump, k, "JUMP")
  BY <1>2, <1>3, <1>4
<1> QED BY <1>1, <1>5 DEF Legal

LEMMA JumpILegal == Legal(JumpI, "JUMPI")
<1>1. /\ Len(JumpI) = 3
      /\ JumpI[1] = [do |-> "charge", gas |-> 10]
      /\ JumpI[2] = [do |-> "peek", n |-> 2]
      /\ JumpI[3] = [do |-> "jumpi"]
  BY DEF JumpI, Charge, Peek, Act
<1> USE DEF LegalStep, Parameters, LegalReads, LegalPops, LegalPush, LegalOrder, LegalCall, Reads, Read, Past,
     Steps, Payers, Checks, Readers, Fetchers, Pushers, Warmers, ValueCosts, Growers, Lasts, Changers, RetIndex
<1>2. LegalStep(JumpI, 1, "JUMPI")
  BY <1>1
<1>3. LegalStep(JumpI, 2, "JUMPI")
  BY <1>1
<1>4. LegalStep(JumpI, 3, "JUMPI")
  BY <1>1
<1> HIDE DEF LegalStep, Parameters, LegalReads, LegalPops, LegalPush, LegalOrder, LegalCall, Reads, Read, Past,
     Steps, Payers, Checks, Readers, Fetchers, Pushers, Warmers, ValueCosts, Growers, Lasts, Changers, RetIndex
<1>5. \A k \in 1 .. 3 : LegalStep(JumpI, k, "JUMPI")
  BY <1>2, <1>3, <1>4
<1> QED BY <1>1, <1>5 DEF Legal

LEMMA JumpDestLegal == Legal(JumpDest, "JUMPDEST")
<1>1. /\ Len(JumpDest) = 1
      /\ JumpDest[1] = [do |-> "charge", gas |-> 1]
  BY DEF JumpDest, Charge
<1> USE DEF LegalStep, Parameters, LegalReads, LegalPops, LegalPush, LegalOrder, LegalCall, Reads, Read, Past,
     Steps, Payers, Checks, Readers, Fetchers, Pushers, Warmers, ValueCosts, Growers, Lasts, Changers, RetIndex
<1>2. LegalStep(JumpDest, 1, "JUMPDEST")
  BY <1>1
<1> HIDE DEF LegalStep, Parameters, LegalReads, LegalPops, LegalPush, LegalOrder, LegalCall, Reads, Read, Past,
     Steps, Payers, Checks, Readers, Fetchers, Pushers, Warmers, ValueCosts, Growers, Lasts, Changers, RetIndex
<1>3. \A k \in 1 .. 1 : LegalStep(JumpDest, k, "JUMPDEST")
  BY <1>2
<1> QED BY <1>1, <1>3 DEF Legal

LEMMA CounterLegal == Legal(Counter, "PC")
<1>1. /\ Len(Counter) = 2
      /\ Counter[1] = [do |-> "charge", gas |-> 2]
      /\ Counter[2] = [do |-> "push", what |-> "pc"]
  BY DEF Counter, Charge, Push
<1> USE DEF LegalStep, Parameters, LegalReads, LegalPops, LegalPush, LegalOrder, LegalCall, Reads, Read, Past,
     Steps, Payers, Checks, Readers, Fetchers, Pushers, Warmers, ValueCosts, Growers, Lasts, Changers, RetIndex
<1>2. LegalStep(Counter, 1, "PC")
  BY <1>1
<1>3. LegalStep(Counter, 2, "PC")
  BY <1>1
<1> HIDE DEF LegalStep, Parameters, LegalReads, LegalPops, LegalPush, LegalOrder, LegalCall, Reads, Read, Past,
     Steps, Payers, Checks, Readers, Fetchers, Pushers, Warmers, ValueCosts, Growers, Lasts, Changers, RetIndex
<1>4. \A k \in 1 .. 2 : LegalStep(Counter, k, "PC")
  BY <1>2, <1>3
<1> QED BY <1>1, <1>4 DEF Legal

LEMMA MSizeLegal == Legal(MSize, "MSIZE")
<1>1. /\ Len(MSize) = 2
      /\ MSize[1] = [do |-> "charge", gas |-> 2]
      /\ MSize[2] = [do |-> "push", what |-> "msize"]
  BY DEF MSize, Charge, Push
<1> USE DEF LegalStep, Parameters, LegalReads, LegalPops, LegalPush, LegalOrder, LegalCall, Reads, Read, Past,
     Steps, Payers, Checks, Readers, Fetchers, Pushers, Warmers, ValueCosts, Growers, Lasts, Changers, RetIndex
<1>2. LegalStep(MSize, 1, "MSIZE")
  BY <1>1
<1>3. LegalStep(MSize, 2, "MSIZE")
  BY <1>1
<1> HIDE DEF LegalStep, Parameters, LegalReads, LegalPops, LegalPush, LegalOrder, LegalCall, Reads, Read, Past,
     Steps, Payers, Checks, Readers, Fetchers, Pushers, Warmers, ValueCosts, Growers, Lasts, Changers, RetIndex
<1>4. \A k \in 1 .. 2 : LegalStep(MSize, k, "MSIZE")
  BY <1>2, <1>3
<1> QED BY <1>1, <1>4 DEF Legal

LEMMA GasLeftLegal == Legal(GasLeft, "GAS")
<1>1. /\ Len(GasLeft) = 2
      /\ GasLeft[1] = [do |-> "charge", gas |-> 2]
      /\ GasLeft[2] = [do |-> "push", what |-> "gas"]
  BY DEF GasLeft, Charge, Push
<1> USE DEF LegalStep, Parameters, LegalReads, LegalPops, LegalPush, LegalOrder, LegalCall, Reads, Read, Past,
     Steps, Payers, Checks, Readers, Fetchers, Pushers, Warmers, ValueCosts, Growers, Lasts, Changers, RetIndex
<1>2. LegalStep(GasLeft, 1, "GAS")
  BY <1>1
<1>3. LegalStep(GasLeft, 2, "GAS")
  BY <1>1
<1> HIDE DEF LegalStep, Parameters, LegalReads, LegalPops, LegalPush, LegalOrder, LegalCall, Reads, Read, Past,
     Steps, Payers, Checks, Readers, Fetchers, Pushers, Warmers, ValueCosts, Growers, Lasts, Changers, RetIndex
<1>4. \A k \in 1 .. 2 : LegalStep(GasLeft, k, "GAS")
  BY <1>2, <1>3
<1> QED BY <1>1, <1>4 DEF Legal

LEMMA DupLegal == Legal(Dup, "DUP")
<1>1. /\ Len(Dup) = 2
      /\ Dup[1] = [do |-> "charge", gas |-> 3]
      /\ Dup[2] = [do |-> "dup"]
  BY DEF Dup, Charge, Act
<1> USE DEF LegalStep, Parameters, LegalReads, LegalPops, LegalPush, LegalOrder, LegalCall, Reads, Read, Past,
     Steps, Payers, Checks, Readers, Fetchers, Pushers, Warmers, ValueCosts, Growers, Lasts, Changers, RetIndex
<1>2. LegalStep(Dup, 1, "DUP")
  BY <1>1
<1>3. LegalStep(Dup, 2, "DUP")
  BY <1>1
<1> HIDE DEF LegalStep, Parameters, LegalReads, LegalPops, LegalPush, LegalOrder, LegalCall, Reads, Read, Past,
     Steps, Payers, Checks, Readers, Fetchers, Pushers, Warmers, ValueCosts, Growers, Lasts, Changers, RetIndex
<1>4. \A k \in 1 .. 2 : LegalStep(Dup, k, "DUP")
  BY <1>2, <1>3
<1> QED BY <1>1, <1>4 DEF Legal

LEMMA SwapLegal == Legal(Swap, "SWAP")
<1>1. /\ Len(Swap) = 2
      /\ Swap[1] = [do |-> "charge", gas |-> 3]
      /\ Swap[2] = [do |-> "swap"]
  BY DEF Swap, Charge, Act
<1> USE DEF LegalStep, Parameters, LegalReads, LegalPops, LegalPush, LegalOrder, LegalCall, Reads, Read, Past,
     Steps, Payers, Checks, Readers, Fetchers, Pushers, Warmers, ValueCosts, Growers, Lasts, Changers, RetIndex
<1>2. LegalStep(Swap, 1, "SWAP")
  BY <1>1
<1>3. LegalStep(Swap, 2, "SWAP")
  BY <1>1
<1> HIDE DEF LegalStep, Parameters, LegalReads, LegalPops, LegalPush, LegalOrder, LegalCall, Reads, Read, Past,
     Steps, Payers, Checks, Readers, Fetchers, Pushers, Warmers, ValueCosts, Growers, Lasts, Changers, RetIndex
<1>4. \A k \in 1 .. 2 : LegalStep(Swap, k, "SWAP")
  BY <1>2, <1>3
<1> QED BY <1>1, <1>4 DEF Legal

LEMMA ReturnLegal == Legal(Return, "RETURN")
<1>1. /\ Len(Return) = 4
      /\ Return[1] = [do |-> "peek", n |-> 2]
      /\ Return[2] = [do |-> "range", o |-> 1, s |-> 2]
      /\ Return[3] = [do |-> "expand", regions |-> <<<<1, 2>>>>]
      /\ Return[4] = [do |-> "yield", how |-> "Return"]
  BY DEF Return, Peek, InRange, Expand, Yield
<1> USE DEF LegalStep, Parameters, LegalReads, LegalPops, LegalPush, LegalOrder, LegalCall, Reads, Read, Past,
     Steps, Payers, Checks, Readers, Fetchers, Pushers, Warmers, ValueCosts, Growers, Lasts, Changers, RetIndex
<1>2. LegalStep(Return, 1, "RETURN")
  BY <1>1
<1>3. LegalStep(Return, 2, "RETURN")
  BY <1>1
<1>4. LegalStep(Return, 3, "RETURN")
  BY <1>1
<1>5. LegalStep(Return, 4, "RETURN")
  BY <1>1
<1> HIDE DEF LegalStep, Parameters, LegalReads, LegalPops, LegalPush, LegalOrder, LegalCall, Reads, Read, Past,
     Steps, Payers, Checks, Readers, Fetchers, Pushers, Warmers, ValueCosts, Growers, Lasts, Changers, RetIndex
<1>6. \A k \in 1 .. 4 : LegalStep(Return, k, "RETURN")
  BY <1>2, <1>3, <1>4, <1>5
<1> QED BY <1>1, <1>6 DEF Legal

LEMMA SelfDestructLegal == Legal(SelfDestruct, "SELFDESTRUCT")
<1>1. /\ Len(SelfDestruct) = 7
      /\ SelfDestruct[1] = [do |-> "static"]
      /\ SelfDestruct[2] = [do |-> "peek", n |-> 1]
      /\ SelfDestruct[3] = [do |-> "need", i |-> 1, but |-> {}]
      /\ SelfDestruct[4] = [do |-> "charge", gas |-> 5000]
      /\ SelfDestruct[5] = [do |-> "cold_heir"]
      /\ SelfDestruct[6] = [do |-> "bequeath"]
      /\ SelfDestruct[7] = [do |-> "yield", how |-> "Return"]
  BY DEF SelfDestruct, Static, Peek, Need, Charge, Act, Yield
<1> USE DEF LegalStep, Parameters, LegalReads, LegalPops, LegalPush, LegalOrder, LegalCall, Reads, Read, Past,
     Steps, Payers, Checks, Readers, Fetchers, Pushers, Warmers, ValueCosts, Growers, Lasts, Changers, RetIndex
<1>2. LegalStep(SelfDestruct, 1, "SELFDESTRUCT")
  BY <1>1
<1>3. LegalStep(SelfDestruct, 2, "SELFDESTRUCT")
  BY <1>1
<1>4. LegalStep(SelfDestruct, 3, "SELFDESTRUCT")
  BY <1>1
<1>5. LegalStep(SelfDestruct, 4, "SELFDESTRUCT")
  BY <1>1
<1>6. LegalStep(SelfDestruct, 5, "SELFDESTRUCT")
  BY <1>1
<1>7. LegalStep(SelfDestruct, 6, "SELFDESTRUCT")
  BY <1>1
<1>8. LegalStep(SelfDestruct, 7, "SELFDESTRUCT")
  BY <1>1
<1> HIDE DEF LegalStep, Parameters, LegalReads, LegalPops, LegalPush, LegalOrder, LegalCall, Reads, Read, Past,
     Steps, Payers, Checks, Readers, Fetchers, Pushers, Warmers, ValueCosts, Growers, Lasts, Changers, RetIndex
<1>9. \A k \in 1 .. 7 : LegalStep(SelfDestruct, k, "SELFDESTRUCT")
  BY <1>2, <1>3, <1>4, <1>5, <1>6, <1>7, <1>8
<1> QED BY <1>1, <1>9 DEF Legal

LEMMA YieldLegal ==
  ASSUME NEW p, NEW op, NEW k \in Nat, NEW j \in 1 .. k - 1,
         p[k].do = "yield", p[k].how = "Call", Reads(p[k]) = {},
         p[j].do = "expand", Len(p[j].regions) = 2,
         p[j].regions[2] = <<RetIndex(op), RetIndex(op) + 1>>
  PROVE  LegalStep(p, k, op)
<1>1. \E i \in 1 .. k - 1 :
        p[i].do = "expand"
        /\ \E m \in 1 .. Len(p[i].regions) : p[i].regions[m] = <<RetIndex(op), RetIndex(op) + 1>>
  <2> WITNESS j \in 1 .. k - 1
  <2>1. 2 \in 1 .. Len(p[j].regions)
    OBVIOUS
  <2> QED BY <2>1
<1>2. LegalCall(p, k, op)
  BY <1>1 DEF LegalCall
<1> QED BY <1>2 DEF LegalStep, Parameters, LegalReads, LegalPops, LegalPush, LegalOrder,
            Steps, Checks, Fetchers, Warmers, Lasts

LEMMA NeedLegal ==
  ASSUME NEW p, NEW op, p[4].do = "need", Reads(p[4]) = {2},
         p[1].do = "peek", p[1].n \in Nat, 2 <= p[1].n, p[2].do = "range", p[3].do = "range"
  PROVE  LegalStep(p, 4, op)
<1>1. Read(p, 3, 2)
  BY DEF Read, Readers
<1>2. ~Past(p, 3, Changers)
  BY DEF Past, Changers, Lasts, Growers
<1> QED BY <1>1, <1>2
    DEF LegalStep, Parameters, LegalReads, LegalPops, LegalPush, LegalOrder, LegalCall,
        Steps, Fetchers, Warmers, Lasts

LEMMA CallDataCopyLegal == Legal(CallDataCopy, "CALLDATACOPY")
<1>1. /\ Len(CallDataCopy) = 5
      /\ CallDataCopy[1] = [do |-> "charge", gas |-> 3]
      /\ CallDataCopy[2] = [do |-> "peek", n |-> 3]
      /\ CallDataCopy[3] = [do |-> "range", o |-> 1, s |-> 3]
      /\ CallDataCopy[4] = [do |-> "expand", regions |-> <<<<1, 3>>>>]
      /\ CallDataCopy[5] = [do |-> "per_word", gas |-> 3, s |-> 3]
  BY DEF CallDataCopy, Charge, Expand, InRange, Peek, PerWord
<1>2a. Reads(CallDataCopy[1]) = {}
  BY <1>1 DEF Reads
<1>2b. Reads(CallDataCopy[2]) = {}
  BY <1>1 DEF Reads
<1>2c. Reads(CallDataCopy[3]) = {1, 3}
  BY <1>1 DEF Reads
<1>2d. Reads(CallDataCopy[4]) = {1, 3}
  BY <1>1 DEF Reads
<1>2e. Reads(CallDataCopy[5]) = {3}
  BY <1>1 DEF Reads
<1> USE DEF LegalStep, Parameters, LegalReads, LegalPops, LegalPush, LegalOrder, LegalCall, Read, Past,
     Steps, Payers, Checks, Readers, Fetchers, Pushers, Warmers, ValueCosts, Growers, Lasts, Changers, RetIndex
<1>3a. LegalStep(CallDataCopy, 1, "CALLDATACOPY")
  BY <1>1, <1>2a
<1>3b. LegalStep(CallDataCopy, 2, "CALLDATACOPY")
  BY <1>1, <1>2b
<1>3c. LegalStep(CallDataCopy, 3, "CALLDATACOPY")
  BY <1>1, <1>2c
<1>3d. LegalStep(CallDataCopy, 4, "CALLDATACOPY")
  BY <1>1, <1>2d
<1>3e. LegalStep(CallDataCopy, 5, "CALLDATACOPY")
  BY <1>1, <1>2e
<1> HIDE DEF LegalStep, Parameters, LegalReads, LegalPops, LegalPush, LegalOrder, LegalCall, Read, Past,
     Steps, Payers, Checks, Readers, Fetchers, Pushers, Warmers, ValueCosts, Growers, Lasts, Changers, RetIndex
<1>4. \A k \in 1 .. 5 : LegalStep(CallDataCopy, k, "CALLDATACOPY")
  BY <1>3a, <1>3b, <1>3c, <1>3d, <1>3e
<1> QED BY <1>1, <1>4 DEF Legal

LEMMA CodeCopyLegal == Legal(CodeCopy, "CODECOPY")
<1>1. /\ Len(CodeCopy) = 5
      /\ CodeCopy[1] = [do |-> "charge", gas |-> 3]
      /\ CodeCopy[2] = [do |-> "peek", n |-> 3]
      /\ CodeCopy[3] = [do |-> "range", o |-> 1, s |-> 3]
      /\ CodeCopy[4] = [do |-> "expand", regions |-> <<<<1, 3>>>>]
      /\ CodeCopy[5] = [do |-> "per_word", gas |-> 3, s |-> 3]
  BY DEF CodeCopy, CallDataCopy, Charge, Expand, InRange, Peek, PerWord
<1>2a. Reads(CodeCopy[1]) = {}
  BY <1>1 DEF Reads
<1>2b. Reads(CodeCopy[2]) = {}
  BY <1>1 DEF Reads
<1>2c. Reads(CodeCopy[3]) = {1, 3}
  BY <1>1 DEF Reads
<1>2d. Reads(CodeCopy[4]) = {1, 3}
  BY <1>1 DEF Reads
<1>2e. Reads(CodeCopy[5]) = {3}
  BY <1>1 DEF Reads
<1> USE DEF LegalStep, Parameters, LegalReads, LegalPops, LegalPush, LegalOrder, LegalCall, Read, Past,
     Steps, Payers, Checks, Readers, Fetchers, Pushers, Warmers, ValueCosts, Growers, Lasts, Changers, RetIndex
<1>3a. LegalStep(CodeCopy, 1, "CODECOPY")
  BY <1>1, <1>2a
<1>3b. LegalStep(CodeCopy, 2, "CODECOPY")
  BY <1>1, <1>2b
<1>3c. LegalStep(CodeCopy, 3, "CODECOPY")
  BY <1>1, <1>2c
<1>3d. LegalStep(CodeCopy, 4, "CODECOPY")
  BY <1>1, <1>2d
<1>3e. LegalStep(CodeCopy, 5, "CODECOPY")
  BY <1>1, <1>2e
<1> HIDE DEF LegalStep, Parameters, LegalReads, LegalPops, LegalPush, LegalOrder, LegalCall, Read, Past,
     Steps, Payers, Checks, Readers, Fetchers, Pushers, Warmers, ValueCosts, Growers, Lasts, Changers, RetIndex
<1>4. \A k \in 1 .. 5 : LegalStep(CodeCopy, k, "CODECOPY")
  BY <1>3a, <1>3b, <1>3c, <1>3d, <1>3e
<1> QED BY <1>1, <1>4 DEF Legal

LEMMA MLoadLegal == Legal(MLoad, "MLOAD")
<1>1. /\ Len(MLoad) = 5
      /\ MLoad[1] = [do |-> "charge", gas |-> 3]
      /\ MLoad[2] = [do |-> "peek", n |-> 1]
      /\ MLoad[3] = [do |-> "fixed", o |-> 1, n |-> Bytes]
      /\ MLoad[4] = [do |-> "expand_fixed", o |-> 1, n |-> Bytes]
      /\ MLoad[5] = [do |-> "push", what |-> "given"]
  BY DEF MLoad, Charge, ExpandFixed, Fixed, Peek, Push
<1>2a. Reads(MLoad[1]) = {}
  BY <1>1 DEF Reads
<1>2b. Reads(MLoad[2]) = {}
  BY <1>1 DEF Reads
<1>2c. Reads(MLoad[3]) = {1}
  BY <1>1 DEF Reads
<1>2d. Reads(MLoad[4]) = {1}
  BY <1>1 DEF Reads
<1>2e. Reads(MLoad[5]) = {}
  BY <1>1 DEF Reads
<1> USE DEF LegalStep, Parameters, LegalReads, LegalPops, LegalPush, LegalOrder, LegalCall, Read, Past,
     Steps, Payers, Checks, Readers, Fetchers, Pushers, Warmers, ValueCosts, Growers, Lasts, Changers, RetIndex
<1>3a. LegalStep(MLoad, 1, "MLOAD")
  BY <1>1, <1>2a
<1>3b. LegalStep(MLoad, 2, "MLOAD")
  BY <1>1, <1>2b
<1>3c. LegalStep(MLoad, 3, "MLOAD")
  BY WordFacts, <1>1, <1>2c
<1>3d. LegalStep(MLoad, 4, "MLOAD")
  BY WordFacts, <1>1, <1>2d
<1>3e. LegalStep(MLoad, 5, "MLOAD")
  BY <1>1, <1>2e
<1> HIDE DEF LegalStep, Parameters, LegalReads, LegalPops, LegalPush, LegalOrder, LegalCall, Read, Past,
     Steps, Payers, Checks, Readers, Fetchers, Pushers, Warmers, ValueCosts, Growers, Lasts, Changers, RetIndex
<1>4. \A k \in 1 .. 5 : LegalStep(MLoad, k, "MLOAD")
  BY <1>3a, <1>3b, <1>3c, <1>3d, <1>3e
<1> QED BY <1>1, <1>4 DEF Legal

LEMMA MStoreLegal == Legal(MStore, "MSTORE")
<1>1. /\ Len(MStore) = 4
      /\ MStore[1] = [do |-> "charge", gas |-> 3]
      /\ MStore[2] = [do |-> "peek", n |-> 2]
      /\ MStore[3] = [do |-> "fixed", o |-> 1, n |-> Bytes]
      /\ MStore[4] = [do |-> "expand_fixed", o |-> 1, n |-> Bytes]
  BY DEF MStore, Charge, ExpandFixed, Fixed, Peek
<1>2a. Reads(MStore[1]) = {}
  BY <1>1 DEF Reads
<1>2b. Reads(MStore[2]) = {}
  BY <1>1 DEF Reads
<1>2c. Reads(MStore[3]) = {1}
  BY <1>1 DEF Reads
<1>2d. Reads(MStore[4]) = {1}
  BY <1>1 DEF Reads
<1> USE DEF LegalStep, Parameters, LegalReads, LegalPops, LegalPush, LegalOrder, LegalCall, Read, Past,
     Steps, Payers, Checks, Readers, Fetchers, Pushers, Warmers, ValueCosts, Growers, Lasts, Changers, RetIndex
<1>3a. LegalStep(MStore, 1, "MSTORE")
  BY <1>1, <1>2a
<1>3b. LegalStep(MStore, 2, "MSTORE")
  BY <1>1, <1>2b
<1>3c. LegalStep(MStore, 3, "MSTORE")
  BY WordFacts, <1>1, <1>2c
<1>3d. LegalStep(MStore, 4, "MSTORE")
  BY WordFacts, <1>1, <1>2d
<1> HIDE DEF LegalStep, Parameters, LegalReads, LegalPops, LegalPush, LegalOrder, LegalCall, Read, Past,
     Steps, Payers, Checks, Readers, Fetchers, Pushers, Warmers, ValueCosts, Growers, Lasts, Changers, RetIndex
<1>4. \A k \in 1 .. 4 : LegalStep(MStore, k, "MSTORE")
  BY <1>3a, <1>3b, <1>3c, <1>3d
<1> QED BY <1>1, <1>4 DEF Legal

LEMMA MCopyLegal == Legal(MCopy, "MCOPY")
<1>1. /\ Len(MCopy) = 7
      /\ MCopy[1] = [do |-> "charge", gas |-> 3]
      /\ MCopy[2] = [do |-> "peek", n |-> 3]
      /\ MCopy[3] = [do |-> "range", o |-> 1, s |-> 3]
      /\ MCopy[4] = [do |-> "range", o |-> 2, s |-> 3]
      /\ MCopy[5] = [do |-> "per_word", gas |-> 3, s |-> 3]
      /\ MCopy[6] = [do |-> "expand", regions |-> <<<<2, 3>>>>]
      /\ MCopy[7] = [do |-> "expand", regions |-> <<<<1, 3>>>>]
  BY DEF MCopy, Charge, Expand, InRange, Peek, PerWord
<1>2a. Reads(MCopy[1]) = {}
  BY <1>1 DEF Reads
<1>2b. Reads(MCopy[2]) = {}
  BY <1>1 DEF Reads
<1>2c. Reads(MCopy[3]) = {1, 3}
  BY <1>1 DEF Reads
<1>2d. Reads(MCopy[4]) = {2, 3}
  BY <1>1 DEF Reads
<1>2e. Reads(MCopy[5]) = {3}
  BY <1>1 DEF Reads
<1>2f. Reads(MCopy[6]) = {2, 3}
  BY <1>1 DEF Reads
<1>2g. Reads(MCopy[7]) = {1, 3}
  BY <1>1 DEF Reads
<1> USE DEF LegalStep, Parameters, LegalReads, LegalPops, LegalPush, LegalOrder, LegalCall, Read, Past,
     Steps, Payers, Checks, Readers, Fetchers, Pushers, Warmers, ValueCosts, Growers, Lasts, Changers, RetIndex
<1>3a. LegalStep(MCopy, 1, "MCOPY")
  BY <1>1, <1>2a
<1>3b. LegalStep(MCopy, 2, "MCOPY")
  BY <1>1, <1>2b
<1>3c. LegalStep(MCopy, 3, "MCOPY")
  BY <1>1, <1>2c
<1>3d. LegalStep(MCopy, 4, "MCOPY")
  BY <1>1, <1>2d
<1>3e. LegalStep(MCopy, 5, "MCOPY")
  BY <1>1, <1>2e
<1>3f. LegalStep(MCopy, 6, "MCOPY")
  BY <1>1, <1>2f
<1>3g. LegalStep(MCopy, 7, "MCOPY")
  BY <1>1, <1>2g
<1> HIDE DEF LegalStep, Parameters, LegalReads, LegalPops, LegalPush, LegalOrder, LegalCall, Read, Past,
     Steps, Payers, Checks, Readers, Fetchers, Pushers, Warmers, ValueCosts, Growers, Lasts, Changers, RetIndex
<1>4. \A k \in 1 .. 7 : LegalStep(MCopy, k, "MCOPY")
  BY <1>3a, <1>3b, <1>3c, <1>3d, <1>3e, <1>3f, <1>3g
<1> QED BY <1>1, <1>4 DEF Legal

LEMMA CreateLegal == Legal(Create, "CREATE")
<1>1. /\ Len(Create) = 9
      /\ Create[1] = [do |-> "static"]
      /\ Create[2] = [do |-> "charge", gas |-> 32000]
      /\ Create[3] = [do |-> "peek", n |-> 3]
      /\ Create[4] = [do |-> "range", o |-> 2, s |-> 3]
      /\ Create[5] = [do |-> "per_word", gas |-> 2, s |-> 3]
      /\ Create[6] = [do |-> "need_this"]
      /\ Create[7] = [do |-> "expand", regions |-> <<<<2, 3>>>>]
      /\ Create[8] = [do |-> "lend", i |-> 0, v |-> 0]
      /\ Create[9] = [do |-> "yield", how |-> "Call"]
  BY DEF Create, Charge, Expand, InRange, Lend, NeedThis, Peek, PerWord, Static, Yield
<1>2a. Reads(Create[1]) = {}
  BY <1>1 DEF Reads
<1>2b. Reads(Create[2]) = {}
  BY <1>1 DEF Reads
<1>2c. Reads(Create[3]) = {}
  BY <1>1 DEF Reads
<1>2d. Reads(Create[4]) = {2, 3}
  BY <1>1 DEF Reads
<1>2e. Reads(Create[5]) = {3}
  BY <1>1 DEF Reads
<1>2f. Reads(Create[6]) = {}
  BY <1>1 DEF Reads
<1>2g. Reads(Create[7]) = {2, 3}
  BY <1>1 DEF Reads
<1>2h. Reads(Create[8]) = {}
  BY <1>1 DEF Reads
<1>2i. Reads(Create[9]) = {}
  BY <1>1 DEF Reads
<1> USE DEF LegalStep, Parameters, LegalReads, LegalPops, LegalPush, LegalOrder, LegalCall, Read, Past,
     Steps, Payers, Checks, Readers, Fetchers, Pushers, Warmers, ValueCosts, Growers, Lasts, Changers, RetIndex
<1>3a. LegalStep(Create, 1, "CREATE")
  BY <1>1, <1>2a
<1>3b. LegalStep(Create, 2, "CREATE")
  BY <1>1, <1>2b
<1>3c. LegalStep(Create, 3, "CREATE")
  BY <1>1, <1>2c
<1>3d. LegalStep(Create, 4, "CREATE")
  BY <1>1, <1>2d
<1>3e. LegalStep(Create, 5, "CREATE")
  BY <1>1, <1>2e
<1>3f. LegalStep(Create, 6, "CREATE")
  BY <1>1, <1>2f
<1>3g. LegalStep(Create, 7, "CREATE")
  BY <1>1, <1>2g
<1>3h. LegalStep(Create, 8, "CREATE")
  BY <1>1, <1>2h
<1>3i. LegalStep(Create, 9, "CREATE")
  BY <1>1, <1>2i
<1> HIDE DEF LegalStep, Parameters, LegalReads, LegalPops, LegalPush, LegalOrder, LegalCall, Read, Past,
     Steps, Payers, Checks, Readers, Fetchers, Pushers, Warmers, ValueCosts, Growers, Lasts, Changers, RetIndex
<1>4. \A k \in 1 .. 9 : LegalStep(Create, k, "CREATE")
  BY <1>3a, <1>3b, <1>3c, <1>3d, <1>3e, <1>3f, <1>3g, <1>3h, <1>3i
<1> QED BY <1>1, <1>4 DEF Legal

LEMMA Create2Legal == Legal(Create2, "CREATE2")
<1>1. /\ Len(Create2) = 8
      /\ Create2[1] = [do |-> "static"]
      /\ Create2[2] = [do |-> "charge", gas |-> 32000]
      /\ Create2[3] = [do |-> "peek", n |-> 4]
      /\ Create2[4] = [do |-> "range", o |-> 2, s |-> 3]
      /\ Create2[5] = [do |-> "per_word", gas |-> 8, s |-> 3]
      /\ Create2[6] = [do |-> "expand", regions |-> <<<<2, 3>>>>]
      /\ Create2[7] = [do |-> "lend", i |-> 0, v |-> 0]
      /\ Create2[8] = [do |-> "yield", how |-> "Call"]
  BY DEF Create2, Charge, Expand, InRange, Lend, Peek, PerWord, Static, Yield
<1>2a. Reads(Create2[1]) = {}
  BY <1>1 DEF Reads
<1>2b. Reads(Create2[2]) = {}
  BY <1>1 DEF Reads
<1>2c. Reads(Create2[3]) = {}
  BY <1>1 DEF Reads
<1>2d. Reads(Create2[4]) = {2, 3}
  BY <1>1 DEF Reads
<1>2e. Reads(Create2[5]) = {3}
  BY <1>1 DEF Reads
<1>2f. Reads(Create2[6]) = {2, 3}
  BY <1>1 DEF Reads
<1>2g. Reads(Create2[7]) = {}
  BY <1>1 DEF Reads
<1>2h. Reads(Create2[8]) = {}
  BY <1>1 DEF Reads
<1> USE DEF LegalStep, Parameters, LegalReads, LegalPops, LegalPush, LegalOrder, LegalCall, Read, Past,
     Steps, Payers, Checks, Readers, Fetchers, Pushers, Warmers, ValueCosts, Growers, Lasts, Changers, RetIndex
<1>3a. LegalStep(Create2, 1, "CREATE2")
  BY <1>1, <1>2a
<1>3b. LegalStep(Create2, 2, "CREATE2")
  BY <1>1, <1>2b
<1>3c. LegalStep(Create2, 3, "CREATE2")
  BY <1>1, <1>2c
<1>3d. LegalStep(Create2, 4, "CREATE2")
  BY <1>1, <1>2d
<1>3e. LegalStep(Create2, 5, "CREATE2")
  BY <1>1, <1>2e
<1>3f. LegalStep(Create2, 6, "CREATE2")
  BY <1>1, <1>2f
<1>3g. LegalStep(Create2, 7, "CREATE2")
  BY <1>1, <1>2g
<1>3h. LegalStep(Create2, 8, "CREATE2")
  BY <1>1, <1>2h
<1> HIDE DEF LegalStep, Parameters, LegalReads, LegalPops, LegalPush, LegalOrder, LegalCall, Read, Past,
     Steps, Payers, Checks, Readers, Fetchers, Pushers, Warmers, ValueCosts, Growers, Lasts, Changers, RetIndex
<1>4. \A k \in 1 .. 8 : LegalStep(Create2, k, "CREATE2")
  BY <1>3a, <1>3b, <1>3c, <1>3d, <1>3e, <1>3f, <1>3g, <1>3h
<1> QED BY <1>1, <1>4 DEF Legal

LEMMA RevertLegal == Legal(Revert, "REVERT")
<1>1. /\ Len(Revert) = 4
      /\ Revert[1] = [do |-> "peek", n |-> 2]
      /\ Revert[2] = [do |-> "range", o |-> 1, s |-> 2]
      /\ Revert[3] = [do |-> "expand", regions |-> <<<<1, 2>>>>]
      /\ Revert[4] = [do |-> "yield", how |-> "Revert"]
  BY DEF Revert, Expand, InRange, Peek, Yield
<1>2a. Reads(Revert[1]) = {}
  BY <1>1 DEF Reads
<1>2b. Reads(Revert[2]) = {1, 2}
  BY <1>1 DEF Reads
<1>2c. Reads(Revert[3]) = {1, 2}
  BY <1>1 DEF Reads
<1>2d. Reads(Revert[4]) = {}
  BY <1>1 DEF Reads
<1> USE DEF LegalStep, Parameters, LegalReads, LegalPops, LegalPush, LegalOrder, LegalCall, Read, Past,
     Steps, Payers, Checks, Readers, Fetchers, Pushers, Warmers, ValueCosts, Growers, Lasts, Changers, RetIndex
<1>3a. LegalStep(Revert, 1, "REVERT")
  BY <1>1, <1>2a
<1>3b. LegalStep(Revert, 2, "REVERT")
  BY <1>1, <1>2b
<1>3c. LegalStep(Revert, 3, "REVERT")
  BY <1>1, <1>2c
<1>3d. LegalStep(Revert, 4, "REVERT")
  BY <1>1, <1>2d
<1> HIDE DEF LegalStep, Parameters, LegalReads, LegalPops, LegalPush, LegalOrder, LegalCall, Read, Past,
     Steps, Payers, Checks, Readers, Fetchers, Pushers, Warmers, ValueCosts, Growers, Lasts, Changers, RetIndex
<1>4. \A k \in 1 .. 4 : LegalStep(Revert, k, "REVERT")
  BY <1>3a, <1>3b, <1>3c, <1>3d
<1> QED BY <1>1, <1>4 DEF Legal

LEMMA CallLegal == Legal(Call, "CALL")
<1>1. /\ Len(Call) = 12
      /\ Call[1] = [do |-> "peek", n |-> 7]
      /\ Call[2] = [do |-> "range", o |-> 4, s |-> 5]
      /\ Call[3] = [do |-> "range", o |-> 6, s |-> 7]
      /\ Call[4] = [do |-> "need_this"]
      /\ Call[5] = [do |-> "need", i |-> 2, but |-> {}]
      /\ Call[6] = [do |-> "need_delegate", i |-> 2]
      /\ Call[7] = [do |-> "access", i |-> 2]
      /\ Call[8] = [do |-> "access_delegate", i |-> 2]
      /\ Call[9] = [do |-> "value_cost", i |-> 3, to |-> 2]
      /\ Call[10] = [do |-> "expand", regions |-> <<<<4, 5>>, <<6, 7>>>>]
      /\ Call[11] = [do |-> "lend", i |-> 1, v |-> 3]
      /\ Call[12] = [do |-> "yield", how |-> "Call"]
  BY DEF Call, Access, AccessDelegate, Expand, InRange, Lend, Need, NeedDelegate, NeedThis, Peek, ValueCost, Yield
<1>2a. Reads(Call[1]) = {}
  BY <1>1 DEF Reads
<1>2b. Reads(Call[2]) = {4, 5}
  BY <1>1 DEF Reads
<1>2c. Reads(Call[3]) = {6, 7}
  BY <1>1 DEF Reads
<1>2d. Reads(Call[4]) = {}
  BY <1>1 DEF Reads
<1>2e. Reads(Call[5]) = {2}
  BY <1>1 DEF Reads
<1>2f. Reads(Call[6]) = {2}
  BY <1>1 DEF Reads
<1>2g. Reads(Call[7]) = {2}
  BY <1>1 DEF Reads
<1>2h. Reads(Call[8]) = {2}
  BY <1>1 DEF Reads
<1>2i. Reads(Call[9]) = {3, 2}
  BY <1>1 DEF Reads
<1>2j. Reads(Call[10]) = {4, 5, 6, 7}
  BY <1>1 DEF Reads
<1>2k. Reads(Call[11]) = {1, 3}
  BY <1>1 DEF Reads
<1>2l. Reads(Call[12]) = {}
  BY <1>1 DEF Reads
<1> USE DEF LegalStep, Parameters, LegalReads, LegalPops, LegalPush, LegalOrder, LegalCall, Read, Past,
     Steps, Payers, Checks, Readers, Fetchers, Pushers, Warmers, ValueCosts, Growers, Lasts, Changers, RetIndex
<1>3a. LegalStep(Call, 1, "CALL")
  BY <1>1, <1>2a
<1>3b. LegalStep(Call, 2, "CALL")
  BY <1>1, <1>2b
<1>3c. LegalStep(Call, 3, "CALL")
  BY <1>1, <1>2c
<1>3d. LegalStep(Call, 4, "CALL")
  BY <1>1, <1>2d
<1>3e. LegalStep(Call, 5, "CALL")
  BY <1>1, <1>2e
<1>3f. LegalStep(Call, 6, "CALL")
  BY <1>1, <1>2f
<1>3g. LegalStep(Call, 7, "CALL")
  BY <1>1, <1>2g
<1>3h. LegalStep(Call, 8, "CALL")
  BY <1>1, <1>2h
<1>3i. LegalStep(Call, 9, "CALL")
  BY <1>1, <1>2i
<1>3j. LegalStep(Call, 10, "CALL")
  BY <1>1, <1>2j
<1>3k. LegalStep(Call, 11, "CALL")
  BY <1>1, <1>2k
<1>3l. LegalStep(Call, 12, "CALL")
  <2>1. /\ Call[12].do = "yield" /\ Call[12].how = "Call"
        /\ Call[10].do = "expand" /\ Len(Call[10].regions) = 2
        /\ Call[10].regions[2] = <<RetIndex("CALL"), RetIndex("CALL") + 1>>
    BY <1>1
  <2> HIDE DEF LegalStep, Parameters, LegalReads, LegalPops, LegalPush, LegalOrder, LegalCall, Read, Past,
     Steps, Payers, Checks, Readers, Fetchers, Pushers, Warmers, ValueCosts, Growers, Lasts, Changers, RetIndex
  <2> QED BY <2>1, <1>2l, YieldLegal
<1> HIDE DEF LegalStep, Parameters, LegalReads, LegalPops, LegalPush, LegalOrder, LegalCall, Read, Past,
     Steps, Payers, Checks, Readers, Fetchers, Pushers, Warmers, ValueCosts, Growers, Lasts, Changers, RetIndex
<1>4. \A k \in 1 .. 12 : LegalStep(Call, k, "CALL")
  BY <1>3a, <1>3b, <1>3c, <1>3d, <1>3e, <1>3f, <1>3g, <1>3h, <1>3i, <1>3j, <1>3k, <1>3l
<1> QED BY <1>1, <1>4 DEF Legal

LEMMA CallCodeLegal == Legal(CallCode, "CALLCODE")
<1>1. /\ Len(CallCode) = 11
      /\ CallCode[1] = [do |-> "peek", n |-> 7]
      /\ CallCode[2] = [do |-> "range", o |-> 4, s |-> 5]
      /\ CallCode[3] = [do |-> "range", o |-> 6, s |-> 7]
      /\ CallCode[4] = [do |-> "need", i |-> 2, but |-> Pre \cup {0}]
      /\ CallCode[5] = [do |-> "need_delegate", i |-> 2]
      /\ CallCode[6] = [do |-> "access", i |-> 2]
      /\ CallCode[7] = [do |-> "access_delegate", i |-> 2]
      /\ CallCode[8] = [do |-> "expand", regions |-> <<<<4, 5>>, <<6, 7>>>>]
      /\ CallCode[9] = [do |-> "paid_value", i |-> 3]
      /\ CallCode[10] = [do |-> "lend", i |-> 1, v |-> 3]
      /\ CallCode[11] = [do |-> "yield", how |-> "Call"]
  BY DEF CallCode, Access, AccessDelegate, Expand, InRange, Lend, NeedContract, NeedDelegate, Peek, Yield
<1>2a. Reads(CallCode[1]) = {}
  BY <1>1 DEF Reads
<1>2b. Reads(CallCode[2]) = {4, 5}
  BY <1>1 DEF Reads
<1>2c. Reads(CallCode[3]) = {6, 7}
  BY <1>1 DEF Reads
<1>2d. Reads(CallCode[4]) = {2}
  BY <1>1 DEF Reads
<1>2e. Reads(CallCode[5]) = {2}
  BY <1>1 DEF Reads
<1>2f. Reads(CallCode[6]) = {2}
  BY <1>1 DEF Reads
<1>2g. Reads(CallCode[7]) = {2}
  BY <1>1 DEF Reads
<1>2h. Reads(CallCode[8]) = {4, 5, 6, 7}
  BY <1>1 DEF Reads
<1>2i. Reads(CallCode[9]) = {3}
  BY <1>1 DEF Reads
<1>2j. Reads(CallCode[10]) = {1, 3}
  BY <1>1 DEF Reads
<1>2k. Reads(CallCode[11]) = {}
  BY <1>1 DEF Reads
<1> USE DEF LegalStep, Parameters, LegalReads, LegalPops, LegalPush, LegalOrder, LegalCall, Read, Past,
     Steps, Payers, Checks, Readers, Fetchers, Pushers, Warmers, ValueCosts, Growers, Lasts, Changers, RetIndex
<1>3a. LegalStep(CallCode, 1, "CALLCODE")
  BY <1>1, <1>2a
<1>3b. LegalStep(CallCode, 2, "CALLCODE")
  BY <1>1, <1>2b
<1>3c. LegalStep(CallCode, 3, "CALLCODE")
  BY <1>1, <1>2c
<1>3d. LegalStep(CallCode, 4, "CALLCODE")
  <2>1. /\ CallCode[4].do = "need" /\ CallCode[1].do = "peek" /\ CallCode[1].n \in Nat /\ 2 <= CallCode[1].n
        /\ CallCode[2].do = "range" /\ CallCode[3].do = "range"
    BY <1>1
  <2> HIDE DEF LegalStep, Parameters, LegalReads, LegalPops, LegalPush, LegalOrder, LegalCall, Read, Past,
     Steps, Payers, Checks, Readers, Fetchers, Pushers, Warmers, ValueCosts, Growers, Lasts, Changers, RetIndex
  <2> QED BY <2>1, <1>2d, NeedLegal
<1>3e. LegalStep(CallCode, 5, "CALLCODE")
  BY <1>1, <1>2e
<1>3f. LegalStep(CallCode, 6, "CALLCODE")
  BY <1>1, <1>2f
<1>3g. LegalStep(CallCode, 7, "CALLCODE")
  BY <1>1, <1>2g
<1>3h. LegalStep(CallCode, 8, "CALLCODE")
  BY <1>1, <1>2h
<1>3i. LegalStep(CallCode, 9, "CALLCODE")
  BY <1>1, <1>2i
<1>3j. LegalStep(CallCode, 10, "CALLCODE")
  BY <1>1, <1>2j
<1>3k. LegalStep(CallCode, 11, "CALLCODE")
  <2>1. /\ CallCode[11].do = "yield" /\ CallCode[11].how = "Call"
        /\ CallCode[8].do = "expand" /\ Len(CallCode[8].regions) = 2
        /\ CallCode[8].regions[2] = <<RetIndex("CALLCODE"), RetIndex("CALLCODE") + 1>>
    BY <1>1
  <2> HIDE DEF LegalStep, Parameters, LegalReads, LegalPops, LegalPush, LegalOrder, LegalCall, Read, Past,
     Steps, Payers, Checks, Readers, Fetchers, Pushers, Warmers, ValueCosts, Growers, Lasts, Changers, RetIndex
  <2> QED BY <2>1, <1>2k, YieldLegal
<1> HIDE DEF LegalStep, Parameters, LegalReads, LegalPops, LegalPush, LegalOrder, LegalCall, Read, Past,
     Steps, Payers, Checks, Readers, Fetchers, Pushers, Warmers, ValueCosts, Growers, Lasts, Changers, RetIndex
<1>4. \A k \in 1 .. 11 : LegalStep(CallCode, k, "CALLCODE")
  BY <1>3a, <1>3b, <1>3c, <1>3d, <1>3e, <1>3f, <1>3g, <1>3h, <1>3i, <1>3j, <1>3k
<1> QED BY <1>1, <1>4 DEF Legal

LEMMA DelegateCallLegal == Legal(DelegateCall, "DELEGATECALL")
<1>1. /\ Len(DelegateCall) = 10
      /\ DelegateCall[1] = [do |-> "peek", n |-> 6]
      /\ DelegateCall[2] = [do |-> "range", o |-> 3, s |-> 4]
      /\ DelegateCall[3] = [do |-> "range", o |-> 5, s |-> 6]
      /\ DelegateCall[4] = [do |-> "need", i |-> 2, but |-> Pre \cup {0}]
      /\ DelegateCall[5] = [do |-> "need_delegate", i |-> 2]
      /\ DelegateCall[6] = [do |-> "access", i |-> 2]
      /\ DelegateCall[7] = [do |-> "access_delegate", i |-> 2]
      /\ DelegateCall[8] = [do |-> "expand", regions |-> <<<<3, 4>>, <<5, 6>>>>]
      /\ DelegateCall[9] = [do |-> "lend", i |-> 1, v |-> 0]
      /\ DelegateCall[10] = [do |-> "yield", how |-> "Call"]
  BY DEF DelegateCall, Access, AccessDelegate, Expand, InRange, Lend, NeedContract, NeedDelegate, Peek, Yield
<1>2a. Reads(DelegateCall[1]) = {}
  BY <1>1 DEF Reads
<1>2b. Reads(DelegateCall[2]) = {3, 4}
  BY <1>1 DEF Reads
<1>2c. Reads(DelegateCall[3]) = {5, 6}
  BY <1>1 DEF Reads
<1>2d. Reads(DelegateCall[4]) = {2}
  BY <1>1 DEF Reads
<1>2e. Reads(DelegateCall[5]) = {2}
  BY <1>1 DEF Reads
<1>2f. Reads(DelegateCall[6]) = {2}
  BY <1>1 DEF Reads
<1>2g. Reads(DelegateCall[7]) = {2}
  BY <1>1 DEF Reads
<1>2h. Reads(DelegateCall[8]) = {3, 4, 5, 6}
  BY <1>1 DEF Reads
<1>2i. Reads(DelegateCall[9]) = {1}
  BY <1>1 DEF Reads
<1>2j. Reads(DelegateCall[10]) = {}
  BY <1>1 DEF Reads
<1> USE DEF LegalStep, Parameters, LegalReads, LegalPops, LegalPush, LegalOrder, LegalCall, Read, Past,
     Steps, Payers, Checks, Readers, Fetchers, Pushers, Warmers, ValueCosts, Growers, Lasts, Changers, RetIndex
<1>3a. LegalStep(DelegateCall, 1, "DELEGATECALL")
  BY <1>1, <1>2a
<1>3b. LegalStep(DelegateCall, 2, "DELEGATECALL")
  BY <1>1, <1>2b
<1>3c. LegalStep(DelegateCall, 3, "DELEGATECALL")
  BY <1>1, <1>2c
<1>3d. LegalStep(DelegateCall, 4, "DELEGATECALL")
  <2>1. /\ DelegateCall[4].do = "need" /\ DelegateCall[1].do = "peek" /\ DelegateCall[1].n \in Nat /\ 2 <= DelegateCall[1].n
        /\ DelegateCall[2].do = "range" /\ DelegateCall[3].do = "range"
    BY <1>1
  <2> HIDE DEF LegalStep, Parameters, LegalReads, LegalPops, LegalPush, LegalOrder, LegalCall, Read, Past,
     Steps, Payers, Checks, Readers, Fetchers, Pushers, Warmers, ValueCosts, Growers, Lasts, Changers, RetIndex
  <2> QED BY <2>1, <1>2d, NeedLegal
<1>3e. LegalStep(DelegateCall, 5, "DELEGATECALL")
  BY <1>1, <1>2e
<1>3f. LegalStep(DelegateCall, 6, "DELEGATECALL")
  BY <1>1, <1>2f
<1>3g. LegalStep(DelegateCall, 7, "DELEGATECALL")
  BY <1>1, <1>2g
<1>3h. LegalStep(DelegateCall, 8, "DELEGATECALL")
  BY <1>1, <1>2h
<1>3i. LegalStep(DelegateCall, 9, "DELEGATECALL")
  BY <1>1, <1>2i
<1>3j. LegalStep(DelegateCall, 10, "DELEGATECALL")
  <2>1. /\ DelegateCall[10].do = "yield" /\ DelegateCall[10].how = "Call"
        /\ DelegateCall[8].do = "expand" /\ Len(DelegateCall[8].regions) = 2
        /\ DelegateCall[8].regions[2] = <<RetIndex("DELEGATECALL"), RetIndex("DELEGATECALL") + 1>>
    BY <1>1
  <2> HIDE DEF LegalStep, Parameters, LegalReads, LegalPops, LegalPush, LegalOrder, LegalCall, Read, Past,
     Steps, Payers, Checks, Readers, Fetchers, Pushers, Warmers, ValueCosts, Growers, Lasts, Changers, RetIndex
  <2> QED BY <2>1, <1>2j, YieldLegal
<1> HIDE DEF LegalStep, Parameters, LegalReads, LegalPops, LegalPush, LegalOrder, LegalCall, Read, Past,
     Steps, Payers, Checks, Readers, Fetchers, Pushers, Warmers, ValueCosts, Growers, Lasts, Changers, RetIndex
<1>4. \A k \in 1 .. 10 : LegalStep(DelegateCall, k, "DELEGATECALL")
  BY <1>3a, <1>3b, <1>3c, <1>3d, <1>3e, <1>3f, <1>3g, <1>3h, <1>3i, <1>3j
<1> QED BY <1>1, <1>4 DEF Legal

LEMMA StaticCallLegal == Legal(StaticCall, "STATICCALL")
<1>1. /\ Len(StaticCall) = 11
      /\ StaticCall[1] = [do |-> "peek", n |-> 6]
      /\ StaticCall[2] = [do |-> "range", o |-> 3, s |-> 4]
      /\ StaticCall[3] = [do |-> "range", o |-> 5, s |-> 6]
      /\ StaticCall[4] = [do |-> "need", i |-> 2, but |-> Pre \cup {0}]
      /\ StaticCall[5] = [do |-> "need_delegate", i |-> 2]
      /\ StaticCall[6] = [do |-> "access", i |-> 2]
      /\ StaticCall[7] = [do |-> "access_delegate", i |-> 2]
      /\ StaticCall[8] = [do |-> "need", i |-> 2, but |-> Pre]
      /\ StaticCall[9] = [do |-> "expand", regions |-> <<<<3, 4>>, <<5, 6>>>>]
      /\ StaticCall[10] = [do |-> "lend", i |-> 1, v |-> 0]
      /\ StaticCall[11] = [do |-> "yield", how |-> "Call"]
  BY DEF StaticCall, Access, AccessDelegate, Expand, InRange, Lend, NeedCode, NeedContract, NeedDelegate, Peek, Yield
<1>2a. Reads(StaticCall[1]) = {}
  BY <1>1 DEF Reads
<1>2b. Reads(StaticCall[2]) = {3, 4}
  BY <1>1 DEF Reads
<1>2c. Reads(StaticCall[3]) = {5, 6}
  BY <1>1 DEF Reads
<1>2d. Reads(StaticCall[4]) = {2}
  BY <1>1 DEF Reads
<1>2e. Reads(StaticCall[5]) = {2}
  BY <1>1 DEF Reads
<1>2f. Reads(StaticCall[6]) = {2}
  BY <1>1 DEF Reads
<1>2g. Reads(StaticCall[7]) = {2}
  BY <1>1 DEF Reads
<1>2h. Reads(StaticCall[8]) = {2}
  BY <1>1 DEF Reads
<1>2i. Reads(StaticCall[9]) = {3, 4, 5, 6}
  BY <1>1 DEF Reads
<1>2j. Reads(StaticCall[10]) = {1}
  BY <1>1 DEF Reads
<1>2k. Reads(StaticCall[11]) = {}
  BY <1>1 DEF Reads
<1> USE DEF LegalStep, Parameters, LegalReads, LegalPops, LegalPush, LegalOrder, LegalCall, Read, Past,
     Steps, Payers, Checks, Readers, Fetchers, Pushers, Warmers, ValueCosts, Growers, Lasts, Changers, RetIndex
<1>3a. LegalStep(StaticCall, 1, "STATICCALL")
  BY <1>1, <1>2a
<1>3b. LegalStep(StaticCall, 2, "STATICCALL")
  BY <1>1, <1>2b
<1>3c. LegalStep(StaticCall, 3, "STATICCALL")
  BY <1>1, <1>2c
<1>3d. LegalStep(StaticCall, 4, "STATICCALL")
  <2>1. /\ StaticCall[4].do = "need" /\ StaticCall[1].do = "peek" /\ StaticCall[1].n \in Nat /\ 2 <= StaticCall[1].n
        /\ StaticCall[2].do = "range" /\ StaticCall[3].do = "range"
    BY <1>1
  <2> HIDE DEF LegalStep, Parameters, LegalReads, LegalPops, LegalPush, LegalOrder, LegalCall, Read, Past,
     Steps, Payers, Checks, Readers, Fetchers, Pushers, Warmers, ValueCosts, Growers, Lasts, Changers, RetIndex
  <2> QED BY <2>1, <1>2d, NeedLegal
<1>3e. LegalStep(StaticCall, 5, "STATICCALL")
  BY <1>1, <1>2e
<1>3f. LegalStep(StaticCall, 6, "STATICCALL")
  BY <1>1, <1>2f
<1>3g. LegalStep(StaticCall, 7, "STATICCALL")
  BY <1>1, <1>2g
<1>3h. LegalStep(StaticCall, 8, "STATICCALL")
  BY <1>1, <1>2h
<1>3i. LegalStep(StaticCall, 9, "STATICCALL")
  BY <1>1, <1>2i
<1>3j. LegalStep(StaticCall, 10, "STATICCALL")
  BY <1>1, <1>2j
<1>3k. LegalStep(StaticCall, 11, "STATICCALL")
  <2>1. /\ StaticCall[11].do = "yield" /\ StaticCall[11].how = "Call"
        /\ StaticCall[9].do = "expand" /\ Len(StaticCall[9].regions) = 2
        /\ StaticCall[9].regions[2] = <<RetIndex("STATICCALL"), RetIndex("STATICCALL") + 1>>
    BY <1>1
  <2> HIDE DEF LegalStep, Parameters, LegalReads, LegalPops, LegalPush, LegalOrder, LegalCall, Read, Past,
     Steps, Payers, Checks, Readers, Fetchers, Pushers, Warmers, ValueCosts, Growers, Lasts, Changers, RetIndex
  <2> QED BY <2>1, <1>2k, YieldLegal
<1> HIDE DEF LegalStep, Parameters, LegalReads, LegalPops, LegalPush, LegalOrder, LegalCall, Read, Past,
     Steps, Payers, Checks, Readers, Fetchers, Pushers, Warmers, ValueCosts, Growers, Lasts, Changers, RetIndex
<1>4. \A k \in 1 .. 11 : LegalStep(StaticCall, k, "STATICCALL")
  BY <1>3a, <1>3b, <1>3c, <1>3d, <1>3e, <1>3f, <1>3g, <1>3h, <1>3i, <1>3j, <1>3k
<1> QED BY <1>1, <1>4 DEF Legal

LEMMA LogLegal == \A n \in Nat : Legal(Log(n), "LOG")
<1> TAKE n \in Nat
<1>1. /\ Len(Log(n)) = 7
      /\ Log(n)[1] = [do |-> "static"]
      /\ Log(n)[2] = [do |-> "operands", n |-> n + 2]
      /\ Log(n)[3] = [do |-> "peek", n |-> 2]
      /\ Log(n)[4] = [do |-> "range", o |-> 1, s |-> 2]
      /\ Log(n)[5] = [do |-> "log_cost", n |-> n]
      /\ Log(n)[6] = [do |-> "expand", regions |-> <<<<1, 2>>>>]
      /\ Log(n)[7] = [do |-> "log", n |-> n]
  BY DEF Log, Expand, InRange, Peek, Static
<1>2a. Reads(Log(n)[1]) = {}
  BY <1>1 DEF Reads
<1>2b. Reads(Log(n)[2]) = {}
  BY <1>1 DEF Reads
<1>2c. Reads(Log(n)[3]) = {}
  BY <1>1 DEF Reads
<1>2d. Reads(Log(n)[4]) = {1, 2}
  BY <1>1 DEF Reads
<1>2e. Reads(Log(n)[5]) = {2}
  BY <1>1 DEF Reads
<1>2f. Reads(Log(n)[6]) = {1, 2}
  BY <1>1 DEF Reads
<1>2g. Reads(Log(n)[7]) = {}
  BY <1>1 DEF Reads
<1> USE DEF LegalStep, Parameters, LegalReads, LegalPops, LegalPush, LegalOrder, LegalCall, Read, Past,
     Steps, Payers, Checks, Readers, Fetchers, Pushers, Warmers, ValueCosts, Growers, Lasts, Changers, RetIndex
<1>3a. LegalStep(Log(n), 1, "LOG")
  BY <1>1, <1>2a
<1>3b. LegalStep(Log(n), 2, "LOG")
  BY <1>1, <1>2b
<1>3c. LegalStep(Log(n), 3, "LOG")
  BY <1>1, <1>2c
<1>3d. LegalStep(Log(n), 4, "LOG")
  BY <1>1, <1>2d
<1>3e. LegalStep(Log(n), 5, "LOG")
  BY <1>1, <1>2e
<1>3f. LegalStep(Log(n), 6, "LOG")
  BY <1>1, <1>2f
<1>3g. LegalStep(Log(n), 7, "LOG")
  BY <1>1, <1>2g
<1> HIDE DEF LegalStep, Parameters, LegalReads, LegalPops, LegalPush, LegalOrder, LegalCall, Read, Past,
     Steps, Payers, Checks, Readers, Fetchers, Pushers, Warmers, ValueCosts, Growers, Lasts, Changers, RetIndex
<1>4. \A k \in 1 .. 7 : LegalStep(Log(n), k, "LOG")
  BY <1>3a, <1>3b, <1>3c, <1>3d, <1>3e, <1>3f, <1>3g
<1> QED BY <1>1, <1>4 DEF Legal

LEMMA PushDataLegal == \A n \in Nat : Legal(PushData(n), "PUSH")
<1> TAKE n \in Nat
<1>1. /\ Len(PushData(n)) = 3
      /\ PushData(n)[1] = [do |-> "charge", gas |-> IF n = 0 THEN 2 ELSE 3]
      /\ PushData(n)[2] = [do |-> "push", what |-> "data"]
      /\ PushData(n)[3] = [do |-> "skip"]
  BY DEF PushData, Act, Charge, Push
<1>2a. Reads(PushData(n)[1]) = {}
  BY <1>1 DEF Reads
<1>2b. Reads(PushData(n)[2]) = {}
  BY <1>1 DEF Reads
<1>2c. Reads(PushData(n)[3]) = {}
  BY <1>1 DEF Reads
<1> USE DEF LegalStep, Parameters, LegalReads, LegalPops, LegalPush, LegalOrder, LegalCall, Read, Past,
     Steps, Payers, Checks, Readers, Fetchers, Pushers, Warmers, ValueCosts, Growers, Lasts, Changers, RetIndex
<1>3a. LegalStep(PushData(n), 1, "PUSH")
  BY <1>1, <1>2a
<1>3b. LegalStep(PushData(n), 2, "PUSH")
  BY <1>1, <1>2b
<1>3c. LegalStep(PushData(n), 3, "PUSH")
  BY <1>1, <1>2c
<1> HIDE DEF LegalStep, Parameters, LegalReads, LegalPops, LegalPush, LegalOrder, LegalCall, Read, Past,
     Steps, Payers, Checks, Readers, Fetchers, Pushers, Warmers, ValueCosts, Growers, Lasts, Changers, RetIndex
<1>4. \A k \in 1 .. 3 : LegalStep(PushData(n), k, "PUSH")
  BY <1>3a, <1>3b, <1>3c
<1> QED BY <1>1, <1>4 DEF Legal

LEMMA ArithLegal ==
  ASSUME NEW op \in ArithOps, NEW g \in Nat
  PROVE  Legal(Arith(g, Arity(op)), op)
<1>1. Arity(op) \in Nat
  BY DEF Arity
<1> DEFINE p == Arith(g, Arity(op))
<1>2. /\ Len(p) = 3 /\ p[1] = [do |-> "charge", gas |-> g] /\ p[2] = [do |-> "peek", n |-> Arity(op)]
      /\ p[3] = [do |-> "push", what |-> "alu"]
  BY DEF Arith, Charge, Peek, Push
<1> HIDE DEF p
<1>3. Reads(p[1]) = {} /\ Reads(p[2]) = {} /\ Reads(p[3]) = {}
  BY <1>2 DEF Reads
<1>4. \A k \in 1 .. 3 : LegalStep(p, k, op)
  BY <1>1, <1>2, <1>3
  DEF LegalStep, Parameters, LegalReads, LegalPops, LegalPush, LegalOrder, LegalCall, Read, Past,
      Steps, Payers, Checks, Readers, Fetchers, Pushers, Warmers, ValueCosts, Growers, Lasts, Changers
<1>5. Legal(p, op)
  BY <1>2, <1>4 DEF Legal
<1> QED BY <1>5 DEF p

LEMMA ExpLegal == Legal(Exp, "EXP")
<1>1. /\ Len(Exp) = 3 /\ Exp[1] = [do |-> "peek", n |-> 2] /\ Exp[2] = [do |-> "charge_exp"]
      /\ Exp[3] = [do |-> "push", what |-> "alu"]
  BY DEF Exp, ChargeExp, Peek, Push
<1>2. Reads(Exp[1]) = {} /\ Reads(Exp[2]) = {2} /\ Reads(Exp[3]) = {}
  BY <1>1 DEF Reads
<1>3. "EXP" \in ArithOps /\ Arity("EXP") = 2
  BY DEF ArithOps, Arity, Unary, Ternary
<1>4. \A k \in 1 .. 3 : LegalStep(Exp, k, "EXP")
  BY <1>1, <1>2, <1>3
  DEF LegalStep, Parameters, LegalReads, LegalPops, LegalPush, LegalOrder, LegalCall, Read, Past,
      Steps, Payers, Checks, Readers, Fetchers, Pushers, Warmers, ValueCosts, Growers, Lasts, Changers
<1> QED BY <1>1, <1>4 DEF Legal

LEMMA InvalidLegal == ASSUME NEW op PROVE Legal(<<[do |-> "invalid"]>>, op)
BY DEF Legal, LegalStep, Parameters, LegalReads, LegalPops, LegalPush, LegalOrder, LegalCall,
   Reads, Steps, Checks, Fetchers, Warmers, Lasts

\* Every program is legal.
LEMMA DispatchLegal == ASSUME NEW op, NEW n \in Nat PROVE Legal(Dispatch(op, n), op)
<1>1. CASE op \in ArithOps
  <2>1. CASE op = "EXP"
    <3>1. Dispatch(op, n) = Exp
      BY <2>1 DEF Dispatch, Unary, Binary3, Binary5, Ternary
    <3> QED BY <3>1, <2>1, ExpLegal
  <2>2. CASE op # "EXP"
    <3>1. \E g \in Nat : Dispatch(op, n) = Arith(g, Arity(op))
      <4>1. CASE op \in Unary
        <5>0. op # "STOP" /\ Arity(op) = 1
          BY <4>1 DEF Unary, Arity
        <5>1. Dispatch(op, n) = Arith(IF op = "CLZ" THEN 5 ELSE 3, 1)
          BY <4>1, <5>0 DEF Dispatch, Unary, Binary3, Binary5, Ternary
        <5>2. (IF op = "CLZ" THEN 5 ELSE 3) \in Nat
          OBVIOUS
        <5> QED BY <5>0, <5>1, <5>2
      <4>2. CASE op \in Binary3
        BY <4>2 DEF Dispatch, Unary, Binary3, Ternary, Arity
      <4>3. CASE op \in Binary5
        BY <4>3 DEF Dispatch, Unary, Binary3, Binary5, Ternary, Arity
      <4>4. CASE op \in Ternary
        BY <4>4 DEF Dispatch, Unary, Binary3, Binary5, Ternary, Arity
      <4> QED BY <1>1, <2>2, <4>1, <4>2, <4>3, <4>4 DEF ArithOps
    <3> QED BY <1>1, <3>1, ArithLegal
  <2> QED BY <2>1, <2>2
<1>2. CASE op \notin ArithOps
  <2>0. op \notin Unary /\ op \notin Binary3 /\ op \notin Binary5 /\ op \notin Ternary /\ op # "EXP"
    BY <1>2 DEF ArithOps
  <2>1. CASE op = "STOP"
    <3>1. Dispatch(op, n) = <<Yield("Return")>>
      BY <2>0, <2>1 DEF Dispatch, Yield
    <3> QED BY <3>1, <2>1, StopLegal
  <2>2. CASE op = "KECCAK256"
    <3>1. Dispatch(op, n) = Keccak
      BY <2>0, <2>2 DEF Dispatch
    <3> QED BY <3>1, <2>2, KeccakLegal
  <2>3. CASE op = "CALLVALUE"
    <3>1. Dispatch(op, n) = Env(2)
      BY <2>0, <2>3 DEF Dispatch
    <3> QED BY <3>1, <2>3, EnvLegal
  <2>4. CASE op = "CALLDATALOAD"
    <3>1. Dispatch(op, n) = CallDataLoad
      BY <2>0, <2>4 DEF Dispatch
    <3> QED BY <3>1, <2>4, CallDataLoadLegal
  <2>5. CASE op = "BLOBHASH"
    <3>1. Dispatch(op, n) = BlobHash
      BY <2>0, <2>5 DEF Dispatch
    <3> QED BY <3>1, <2>5, BlobHashLegal
  <2>6. CASE op = "BALANCE"
    <3>1. Dispatch(op, n) = Balance
      BY <2>0, <2>6 DEF Dispatch
    <3> QED BY <3>1, <2>6, BalanceLegal
  <2>7. CASE op = "EXTCODESIZE"
    <3>1. Dispatch(op, n) = ExtCodeSize
      BY <2>0, <2>7 DEF Dispatch
    <3> QED BY <3>1, <2>7, ExtCodeSizeLegal
  <2>8. CASE op = "EXTCODEHASH"
    <3>1. Dispatch(op, n) = ExtCodeHash
      BY <2>0, <2>8 DEF Dispatch
    <3> QED BY <3>1, <2>8, ExtCodeHashLegal
  <2>9. CASE op = "SELFBALANCE"
    <3>1. Dispatch(op, n) = SelfBalance
      BY <2>0, <2>9 DEF Dispatch
    <3> QED BY <3>1, <2>9, SelfBalanceLegal
  <2>10. CASE op = "BLOCKHASH"
    <3>1. Dispatch(op, n) = BlockHash
      BY <2>0, <2>10 DEF Dispatch
    <3> QED BY <3>1, <2>10, BlockHashLegal
  <2>11. CASE op = "CALLDATACOPY"
    <3>1. Dispatch(op, n) = CallDataCopy
      BY <2>0, <2>11 DEF Dispatch
    <3> QED BY <3>1, <2>11, CallDataCopyLegal
  <2>12. CASE op = "CODECOPY"
    <3>1. Dispatch(op, n) = CodeCopy
      BY <2>0, <2>12 DEF Dispatch
    <3> QED BY <3>1, <2>12, CodeCopyLegal
  <2>13. CASE op = "EXTCODECOPY"
    <3>1. Dispatch(op, n) = ExtCodeCopy
      BY <2>0, <2>13 DEF Dispatch
    <3> QED BY <3>1, <2>13, ExtCodeCopyLegal
  <2>14. CASE op = "RETURNDATACOPY"
    <3>1. Dispatch(op, n) = ReturnDataCopy
      BY <2>0, <2>14 DEF Dispatch
    <3> QED BY <3>1, <2>14, ReturnDataCopyLegal
  <2>15. CASE op = "POP"
    <3>1. Dispatch(op, n) = Pop
      BY <2>0, <2>15 DEF Dispatch
    <3> QED BY <3>1, <2>15, PopLegal
  <2>16. CASE op = "MLOAD"
    <3>1. Dispatch(op, n) = MLoad
      BY <2>0, <2>16 DEF Dispatch
    <3> QED BY <3>1, <2>16, MLoadLegal
  <2>17. CASE op = "MSTORE"
    <3>1. Dispatch(op, n) = MStore
      BY <2>0, <2>17 DEF Dispatch
    <3> QED BY <3>1, <2>17, MStoreLegal
  <2>18. CASE op = "MSTORE8"
    <3>1. Dispatch(op, n) = MStore8
      BY <2>0, <2>18 DEF Dispatch
    <3> QED BY <3>1, <2>18, MStore8Legal
  <2>19. CASE op = "MCOPY"
    <3>1. Dispatch(op, n) = MCopy
      BY <2>0, <2>19 DEF Dispatch
    <3> QED BY <3>1, <2>19, MCopyLegal
  <2>20. CASE op = "SLOAD"
    <3>1. Dispatch(op, n) = SLoad
      BY <2>0, <2>20 DEF Dispatch
    <3> QED BY <3>1, <2>20, SLoadLegal
  <2>21. CASE op = "SSTORE"
    <3>1. Dispatch(op, n) = SStore
      BY <2>0, <2>21 DEF Dispatch
    <3> QED BY <3>1, <2>21, SStoreLegal
  <2>22. CASE op = "TLOAD"
    <3>1. Dispatch(op, n) = TLoad
      BY <2>0, <2>22 DEF Dispatch
    <3> QED BY <3>1, <2>22, TLoadLegal
  <2>23. CASE op = "TSTORE"
    <3>1. Dispatch(op, n) = TStore
      BY <2>0, <2>23 DEF Dispatch
    <3> QED BY <3>1, <2>23, TStoreLegal
  <2>24. CASE op = "JUMP"
    <3>1. Dispatch(op, n) = Jump
      BY <2>0, <2>24 DEF Dispatch
    <3> QED BY <3>1, <2>24, JumpLegal
  <2>25. CASE op = "JUMPI"
    <3>1. Dispatch(op, n) = JumpI
      BY <2>0, <2>25 DEF Dispatch
    <3> QED BY <3>1, <2>25, JumpILegal
  <2>26. CASE op = "JUMPDEST"
    <3>1. Dispatch(op, n) = JumpDest
      BY <2>0, <2>26 DEF Dispatch
    <3> QED BY <3>1, <2>26, JumpDestLegal
  <2>27. CASE op = "PC"
    <3>1. Dispatch(op, n) = Counter
      BY <2>0, <2>27 DEF Dispatch
    <3> QED BY <3>1, <2>27, CounterLegal
  <2>28. CASE op = "MSIZE"
    <3>1. Dispatch(op, n) = MSize
      BY <2>0, <2>28 DEF Dispatch
    <3> QED BY <3>1, <2>28, MSizeLegal
  <2>29. CASE op = "GAS"
    <3>1. Dispatch(op, n) = GasLeft
      BY <2>0, <2>29 DEF Dispatch
    <3> QED BY <3>1, <2>29, GasLeftLegal
  <2>30. CASE op = "PUSH"
    <3>1. Dispatch(op, n) = PushData(n)
      BY <2>0, <2>30 DEF Dispatch
    <3> QED BY <3>1, <2>30, PushDataLegal
  <2>31. CASE op = "DUP"
    <3>1. Dispatch(op, n) = Dup
      BY <2>0, <2>31 DEF Dispatch
    <3> QED BY <3>1, <2>31, DupLegal
  <2>32. CASE op = "SWAP"
    <3>1. Dispatch(op, n) = Swap
      BY <2>0, <2>32 DEF Dispatch
    <3> QED BY <3>1, <2>32, SwapLegal
  <2>33. CASE op = "LOG"
    <3>1. Dispatch(op, n) = Log(n)
      BY <2>0, <2>33 DEF Dispatch
    <3> QED BY <3>1, <2>33, LogLegal
  <2>34. CASE op = "CALL"
    <3>1. Dispatch(op, n) = Call
      BY <2>0, <2>34 DEF Dispatch
    <3> QED BY <3>1, <2>34, CallLegal
  <2>35. CASE op = "CALLCODE"
    <3>1. Dispatch(op, n) = CallCode
      BY <2>0, <2>35 DEF Dispatch
    <3> QED BY <3>1, <2>35, CallCodeLegal
  <2>36. CASE op = "DELEGATECALL"
    <3>1. Dispatch(op, n) = DelegateCall
      BY <2>0, <2>36 DEF Dispatch
    <3> QED BY <3>1, <2>36, DelegateCallLegal
  <2>37. CASE op = "STATICCALL"
    <3>1. Dispatch(op, n) = StaticCall
      BY <2>0, <2>37 DEF Dispatch
    <3> QED BY <3>1, <2>37, StaticCallLegal
  <2>38. CASE op = "CREATE"
    <3>1. Dispatch(op, n) = Create
      BY <2>0, <2>38 DEF Dispatch
    <3> QED BY <3>1, <2>38, CreateLegal
  <2>39. CASE op = "CREATE2"
    <3>1. Dispatch(op, n) = Create2
      BY <2>0, <2>39 DEF Dispatch
    <3> QED BY <3>1, <2>39, Create2Legal
  <2>40. CASE op = "RETURN"
    <3>1. Dispatch(op, n) = Return
      BY <2>0, <2>40 DEF Dispatch
    <3> QED BY <3>1, <2>40, ReturnLegal
  <2>41. CASE op = "REVERT"
    <3>1. Dispatch(op, n) = Revert
      BY <2>0, <2>41 DEF Dispatch
    <3> QED BY <3>1, <2>41, RevertLegal
  <2>42. CASE op = "SELFDESTRUCT"
    <3>1. Dispatch(op, n) = SelfDestruct
      BY <2>0, <2>42 DEF Dispatch
    <3> QED BY <3>1, <2>42, SelfDestructLegal
  <2>43. CASE op \notin {"STOP", "KECCAK256", "CALLVALUE", "CALLDATALOAD", "BLOBHASH", "BALANCE", "EXTCODESIZE", "EXTCODEHASH", "SELFBALANCE", "BLOCKHASH", "CALLDATACOPY", "CODECOPY", "EXTCODECOPY", "RETURNDATACOPY", "POP", "MLOAD", "MSTORE", "MSTORE8", "MCOPY", "SLOAD", "SSTORE", "TLOAD", "TSTORE", "JUMP", "JUMPI", "JUMPDEST", "PC", "MSIZE", "GAS", "PUSH", "DUP", "SWAP", "LOG", "CALL", "CALLCODE", "DELEGATECALL", "STATICCALL", "CREATE", "CREATE2", "RETURN", "REVERT", "SELFDESTRUCT"}
    <3>1. Dispatch(op, n) = <<[do |-> "invalid"]>>
      BY <2>0, <2>43 DEF Dispatch
    <3> QED BY <3>1, InvalidLegal
  <2> QED BY <2>1, <2>2, <2>3, <2>4, <2>5, <2>6, <2>7, <2>8, <2>9, <2>10, <2>11, <2>12, <2>13, <2>14, <2>15, <2>16, <2>17, <2>18, <2>19, <2>20, <2>21, <2>22, <2>23, <2>24, <2>25, <2>26, <2>27, <2>28, <2>29, <2>30, <2>31, <2>32, <2>33, <2>34, <2>35, <2>36, <2>37, <2>38, <2>39, <2>40, <2>41, <2>42, <2>43
<1> QED BY <1>1, <1>2

----------------------------------------------------------------------------
(* What each step does to a frame.                                         *)

\* The fields a step may change.
Touches(do) ==
  CASE do \in Payers -> {"charge", "out"}
    [] do \in Checks -> {"out"}
    [] do \in Fetchers -> {"out", "want"}
    [] do \in Pushers -> {"push", "out"}
    [] do \in Growers -> {"charge", "out", "mem", "owed"}
    [] do \in Warmers -> {"charge", "out", "accs", "cold"}
    [] do \in {"jump", "jumpi", "skip"} -> {"pc", "out"}
    [] do = "peek" -> {"pops", "out"}
    [] do = "swap" -> {"stack", "out"}
    [] do = "log" -> {"pops", "logs"}
    [] do = "warm_slot" -> {"charge", "out", "warmKeys"}
    [] do = "sstore" -> {"charge", "out", "keys", "gain", "slot"}
    [] do = "tstore" -> {"temp"}
    [] do = "bequeath" -> {"charge", "out", "bal", "gone"}
    [] do = "lend" -> {"charge", "out", "lent"}

\* From f to g: within the fields of D, with gas that is there, and for no data.
Moves(g, f, D) ==
  /\ IsFrame(g) /\ Only(g, f, D)
  /\ Solvent(g) /\ f.charge <= g.charge
  /\ g.out \notin {"Fetch", "Call"}

\* A frame that still goes on.
Going(f) == IsFrame(f) /\ Solvent(f) /\ f.out = "Ok"

LEMMA GoingMoves == ASSUME NEW f, Going(f), NEW D PROVE Moves(f, f, D)
BY FieldTypes DEF Going, Moves, Only, IsFrame

LEMMA MovesMore ==
  ASSUME NEW f, NEW g, NEW D, NEW E, Moves(g, f, D), D \subseteq E
  PROVE  Moves(g, f, E)
BY DEF Moves, Only

LEMMA MovesOn ==
  ASSUME NEW f, NEW g, NEW h, NEW D, IsFrame(f), Moves(g, f, D), Moves(h, g, D)
  PROVE  Moves(h, f, D)
<1>1. f.charge \in Int /\ g.charge \in Int /\ h.charge \in Int
  BY FieldTypes DEF Moves
<1> QED BY <1>1 DEF Moves, Only

LEMMA HaltMoves ==
  ASSUME NEW f, Going(f), NEW why \in Outs \ {"Fetch", "Call"}
  PROVE  Moves(Halt(f, why), f, {"out"}) /\ Halt(f, why).out = why
<1> DEFINE g == Halt(f, why)
<1>1. IsFrame(g) /\ Only(g, f, {"out"}) /\ g.out = why
  BY HaltFacts DEF Going
<1> HIDE DEF g
<1>2. g.charge = f.charge /\ g.spent = f.spent /\ g.limit = f.limit
  BY <1>1 DEF Only, Fields
<1>3. f.charge \in Int
  BY FieldTypes DEF Going
<1>4. Solvent(g) /\ f.charge <= g.charge
  BY <1>2, <1>3 DEF Going, Solvent
<1> QED BY <1>1, <1>4 DEF Moves, g

LEMMA PayMoves ==
  ASSUME NEW f, Going(f), NEW x \in Nat
  PROVE  /\ Moves(Pay(f, x), f, {"charge", "out"}) /\ Pay(f, x).out \in {"Ok", "OutOfGas"}
         /\ Pay(f, x).out = "Ok" => Pay(f, x).charge = f.charge + x /\ Going(Pay(f, x))
<1>1. IsFrame(f) /\ Solvent(f) /\ f.out = "Ok" /\ f.out # "OutOfGas" /\ x \in Int
  BY DEF Going
<1>2. IsFrame(Pay(f, x)) /\ Only(Pay(f, x), f, {"charge", "out"})
  BY <1>1, PayFacts
<1>3. /\ Solvent(Pay(f, x)) /\ f.charge <= Pay(f, x).charge
      /\ Pay(f, x).out \in {f.out, "OutOfGas"}
      /\ Pay(f, x).out # "OutOfGas" => Pay(f, x).charge = f.charge + x
  BY <1>1, PaySolvent
<1> QED BY <1>1, <1>2, <1>3 DEF Moves, Going

----------------------------------------------------------------------------
LEMMA ArgWord ==
  ASSUME NEW f, IsFrame(f), NEW i \in 1 .. Len(f.stack)
  PROVE  Arg(f, i) \in Word /\ Arg(f, i) \in Nat /\ AsUsize(Arg(f, i)) \in Nat /\ AsUsize(Arg(f, i)) \in Word
<1>1. f.stack \in Seq(Word)
  BY FieldTypes
<1>2. Len(f.stack) \in Nat
  BY <1>1
<1>3. Len(f.stack) - i + 1 \in 1 .. Len(f.stack)
  BY <1>2
<1>4. Arg(f, i) \in Word
  BY <1>1, <1>3 DEF Arg
<1>6. \A y \in Word : y \in Nat /\ y \in Int
  BY WordInt
<1>5. Arg(f, i) \in Nat /\ Arg(f, i) \in Int
  BY <1>4, <1>6
<1> QED BY <1>4, <1>5, UsizeWord

LEMMA AddrAcct == \A x \in Nat : Addr(x) \in Acct
<1> TAKE x \in Nat
<1>1. A \in Nat \ {0}
  BY MachineAssumption
<1> DEFINE r == (x % A)
<1>2. r \in 0 .. A - 1
  BY <1>1, DivType
<1> HIDE DEF r
<1>3. r \in Acct
  BY <1>1, <1>2 DEF Acct
<1> QED BY <1>3 DEF Addr, r

LEMMA LengthType == ASSUME NEW f, IsFrame(f) PROVE Len(f.stack) \in Nat /\ Len(f.push) \in Nat
BY FieldTypes

\* The steps that only look.
LEMMA CheckStep ==
  ASSUME NEW f, Going(f), NEW c, NEW op, NEW s, s.do \in Checks, Parameters(s),
         NEW g, g = Do(f, c, op, s)
  PROVE  /\ IsFrame(g) /\ Only(g, f, {"out"}) /\ Solvent(g) /\ f.charge <= g.charge
         /\ g.out # "Fetch" /\ (g.out = "Call" => s.do = "yield" /\ s.how = "Call")
         /\ s.do = "operands" /\ g.out = "Ok" => s.n <= Len(f.stack)
         /\ s.do = "yield" => g.out = s.how
<1>1. IsFrame(f) /\ Solvent(f) /\ f.out = "Ok" /\ f.charge \in Int
  BY FieldTypes DEF Going
<1>2. ASSUME s.do = "yield" PROVE g = Halt(f, s.how) /\ s.how \in {"Call", "Return", "Revert"}
  BY <1>2 DEF Do, Halt, Parameters
<1>3. ASSUME s.do # "yield" PROVE g = f \/ \E why \in Outs \ {"Fetch", "Call"} : g = Halt(f, why)
  <2>0. {"NonStatic", "StackUnderflow", "OutOfMemory", "BadCopyRange", "GasBelowStipend", "BadOpcode"}
          \subseteq Outs \ {"Fetch", "Call"}
    BY DEF Outs
  <2>1. CASE s.do = "static"  BY <2>0, <2>1 DEF Do
  <2>2. CASE s.do = "operands"  BY <2>0, <2>2 DEF Do
  <2>3. CASE s.do = "range"  BY <2>0, <2>3 DEF Do
  <2>4. CASE s.do = "fixed"  BY <2>0, <2>4 DEF Do
  <2>5. CASE s.do = "ret_range"  BY <2>0, <2>5 DEF Do
  <2>6. CASE s.do = "sentinel"  BY <2>0, <2>6 DEF Do
  <2>7. CASE s.do = "invalid"  BY <2>0, <2>7 DEF Do
  <2> QED BY <1>3, <2>1, <2>2, <2>3, <2>4, <2>5, <2>6, <2>7 DEF Checks
<1>4. ASSUME s.do = "operands", g.out = "Ok" PROVE s.n <= Len(f.stack)
  <2>1. g = IF Len(f.stack) < s.n THEN Halt(f, "StackUnderflow") ELSE f
    BY <1>4 DEF Do
  <2>2. Halt(f, "StackUnderflow").out = "StackUnderflow"
    BY <1>1, HaltFacts DEF Outs
  <2>3. s.n \in Nat /\ Len(f.stack) \in Nat
    BY <1>1, <1>4, LengthType DEF Parameters
  <2> QED BY <1>4, <2>1, <2>2, <2>3
<1>5. CASE s.do = "yield"
  <2>1. s.how \in Outs /\ s.how # "Fetch" /\ s.how # "OutOfGas"
    BY <1>2, <1>5 DEF Outs
  <2>2. IsFrame(g) /\ Only(g, f, {"out"}) /\ g.out = s.how
    BY <1>1, <1>2, <1>5, <2>1, HaltFacts
  <2>3. g.charge = f.charge /\ g.spent = f.spent /\ g.limit = f.limit
    BY <2>2 DEF Only, Fields
  <2> QED BY <1>1, <1>5, <2>1, <2>2, <2>3 DEF Solvent
<1>6. CASE s.do # "yield"
  <2>1. CASE g = f
    BY <1>1, <1>4, <1>6, <2>1 DEF Only, IsFrame
  <2>2. CASE \E why \in Outs \ {"Fetch", "Call"} : g = Halt(f, why)
    BY <1>4, <1>6, <2>2, HaltMoves DEF Moves
  <2> QED BY <1>3, <1>6, <2>1, <2>2
<1> QED BY <1>5, <1>6

LEMMA PeekStep ==
  ASSUME NEW f, Going(f), NEW c, NEW op, NEW s, s.do = "peek", Parameters(s),
         NEW g, g = Do(f, c, op, s)
  PROVE  /\ Moves(g, f, {"pops", "out"})
         /\ g.out = "Ok" => g.pops = s.n /\ s.n <= Len(f.stack)
         /\ g.out # "Ok" => g.pops = f.pops
<1>1. IsFrame(f) /\ f.out = "Ok" /\ s.n \in Nat /\ Len(f.stack) \in Nat /\ f.charge \in Int
  BY FieldTypes, LengthType DEF Going, Parameters
<1>2. g = IF Len(f.stack) < s.n THEN Halt(f, "StackUnderflow") ELSE [f EXCEPT !.pops = s.n]
  BY DEF Do
<1>3. CASE Len(f.stack) < s.n
  <2>1. g = Halt(f, "StackUnderflow")
    BY <1>2, <1>3
  <2>2. "StackUnderflow" \in Outs \ {"Fetch", "Call"}
    BY DEF Outs
  <2>3. Moves(g, f, {"out"}) /\ g.out = "StackUnderflow"
    BY <2>1, <2>2, HaltMoves
  <2>4. g.pops = f.pops
    BY <2>3 DEF Moves, Only, Fields
  <2> QED BY <2>3, <2>4, MovesMore
<1>4. CASE ~ Len(f.stack) < s.n
  <2> DEFINE h == [f EXCEPT !.pops = s.n]
  <2>1. Only(h, f, {"pops", "out"}) /\ h.pops = s.n /\ h.out = "Ok"
        /\ h.charge = f.charge /\ h.spent = f.spent /\ h.limit = f.limit
    BY <1>1 DEF IsFrame, Shape, Only, Fields
  <2>2. g = h
    BY <1>2, <1>4
  <2> HIDE DEF h
  <2>3. "Ok" \in Outs
    BY DEF Outs
  <2>4. \A y \in {"pops", "out"} : h[y] \in TypeOf(y)
    BY <1>1, <2>1, <2>3, TypeIs
  <2>5. IsFrame(h)
    BY <1>1, <2>1, <2>4, Retyped
  <2>6. Solvent(h) /\ f.charge <= h.charge
    BY <1>1, <2>1 DEF Going, Solvent
  <2> QED BY <1>1, <1>4, <2>1, <2>2, <2>5, <2>6 DEF Moves
<1> QED BY <1>3, <1>4

\* The price of value that is sent.
LEMMA PriceStep ==
  ASSUME NEW f, Going(f), NEW v \in Nat, NEW to
  PROVE  /\ Moves(Price(f, v, to), f, {"charge", "out"})
         /\ Price(f, v, to).out = "Ok" /\ v # 0 => Price(f, v, to).charge >= 9000
<1> DEFINE p == Price(f, v, to)
           q == Pay(f, 9000)
<1>1. f.charge \in Int /\ f.charge >= 0
  BY FieldTypes DEF Going, Solvent
<1>2. CASE v = 0
  <2>1. p = f
    BY <1>2 DEF Price
  <2> HIDE DEF p
  <2>2. Moves(f, f, {"charge", "out"})
    BY GoingMoves
  <2>3. Moves(p, f, {"charge", "out"})
    BY <2>1, <2>2
  <2> QED BY <1>2, <2>3 DEF p
<1>3. CASE v # 0 /\ f.static
  <2>1. p = Halt(f, "NonStatic")
    BY <1>3 DEF Price
  <2>2. "NonStatic" \in Outs \ {"Fetch", "Call"}
    BY DEF Outs
  <2>3. Moves(p, f, {"out"}) /\ p.out = "NonStatic"
    BY <2>1, <2>2, HaltMoves
  <2> HIDE DEF p
  <2>4. Moves(p, f, {"charge", "out"}) /\ p.out # "Ok"
    BY <2>3, MovesMore
  <2> QED BY <2>4 DEF p
<1>4. CASE v # 0 /\ ~f.static
  <2>1. Moves(q, f, {"charge", "out"}) /\ q.out \in {"Ok", "OutOfGas"}
        /\ (q.out = "Ok" => q.charge = f.charge + 9000 /\ Going(q))
    BY PayMoves
  <2>2. p = IF q.out = "Ok" /\ IsEmpty(f, to) THEN Pay(q, 25000) ELSE q
    BY <1>4 DEF Price
  <2> HIDE DEF p, q
  <2>3. CASE q.out = "Ok" /\ IsEmpty(f, to)
    <3>1. /\ Moves(Pay(q, 25000), q, {"charge", "out"})
          /\ Pay(q, 25000).out = "Ok" => Pay(q, 25000).charge = q.charge + 25000
      BY <2>1, <2>3, PayMoves
    <3>2. p = Pay(q, 25000)
      BY <2>2, <2>3
    <3>3. Moves(p, q, {"charge", "out"}) /\ (p.out = "Ok" => p.charge = q.charge + 25000)
      BY <3>1, <3>2
    <3>4. Moves(p, f, {"charge", "out"})
      BY <2>1, <3>3, MovesOn DEF Going
    <3> QED BY <1>1, <2>1, <2>3, <3>3, <3>4 DEF p
  <2>4. CASE ~(q.out = "Ok" /\ IsEmpty(f, to))
    <3>1. p = q
      BY <2>2, <2>4
    <3>2. Moves(p, f, {"charge", "out"}) /\ (p.out = "Ok" => p.charge >= 9000)
      BY <1>1, <2>1, <3>1
    <3> QED BY <3>2 DEF p
  <2> QED BY <2>3, <2>4
<1> QED BY <1>2, <1>3, <1>4

\* The price of a log: no product of its size may pass the width of a word.
LEMMA PayLogIs ==
  ASSUME NEW f, NEW base \in Nat, NEW size \in Nat
  PROVE  \/ PayLog(f, base, size) = [f EXCEPT !.charge = @ + Remaining(f), !.out = "OutOfGas"]
         \/ PayLog(f, base, size) = Pay(f, base + 8 * size)
BY DEF PayLog

LEMMA PayLogMoves ==
  ASSUME NEW f, Going(f), NEW base \in Nat, NEW size \in Nat
  PROVE  Moves(PayLog(f, base, size), f, {"charge", "out"})
<1> DEFINE h == [f EXCEPT !.charge = @ + Remaining(f), !.out = "OutOfGas"]
<1>1. IsFrame(f) /\ Solvent(f) /\ f.out = "Ok" /\ f.charge \in Int /\ f.spent \in Int /\ f.limit \in Nat
  BY FieldTypes DEF Going
<1>2. PayLog(f, base, size) = h \/ PayLog(f, base, size) = Pay(f, base + 8 * size)
  BY PayLogIs
<1>3. Only(h, f, {"charge", "out"}) /\ h.charge = f.charge + Remaining(f) /\ h.out = "OutOfGas"
  BY <1>1 DEF IsFrame, Shape, Only, Fields
<1> HIDE DEF h
<1>4. Remaining(f) \in Nat
  BY <1>1 DEF Solvent, Remaining
<1>5. h.charge \in Int /\ h.charge >= f.charge /\ h.charge >= 0
  BY <1>1, <1>3, <1>4 DEF Solvent
<1>6. "OutOfGas" \in Outs
  BY DEF Outs
<1>7. \A y \in {"charge", "out"} : h[y] \in TypeOf(y)
  BY <1>3, <1>5, <1>6, TypeIs
<1>8. IsFrame(h)
  BY <1>1, <1>3, <1>7, Retyped
<1>9. Moves(h, f, {"charge", "out"})
  BY <1>3, <1>5, <1>8 DEF Moves, Solvent
<1>10. base + 8 * size \in Nat
  OBVIOUS
<1>11. Moves(Pay(f, base + 8 * size), f, {"charge", "out"})
  BY <1>10, PayMoves
<1> QED BY <1>2, <1>9, <1>11

LEMMA LogCostStep ==
  ASSUME NEW f, Going(f), NEW c, NEW op, NEW s, s.do = "log_cost", Parameters(s),
         2 \in 1 .. Len(f.stack), NEW g, g = Do(f, c, op, s)
  PROVE  Moves(g, f, {"charge", "out"})
<1>1. g = PayLog(f, 375 + 375 * s.n, AsUsize(Arg(f, 2)))
  BY DEF Do
<1>2. 375 + 375 * s.n \in Nat
  <2>1. s.n \in Nat
    BY DEF Parameters
  <2> QED BY <2>1
<1>3. AsUsize(Arg(f, 2)) \in Nat
  BY ArgWord DEF Going
<1> QED BY <1>1, <1>2, <1>3, PayLogMoves

LEMMA PayStep ==
  ASSUME NEW f, Going(f), NEW c, NEW op, NEW s, s.do \in Payers, Parameters(s),
         \A i \in Reads(s) : i \in 1 .. Len(f.stack), NEW g, g = Do(f, c, op, s)
  PROVE  /\ Moves(g, f, {"charge", "out"})
         /\ s.do \in ValueCosts /\ g.out = "Ok" /\ Arg(f, s.i) # 0 => g.charge >= 9000
<1>1. IsFrame(f) /\ f.charge \in Int /\ f.charge >= 0
  BY FieldTypes DEF Going, Solvent
<1>2. CASE s.do = "charge"
  <2>1. g = Pay(f, s.gas) /\ s.gas \in Nat /\ s.do \notin ValueCosts
    BY <1>2 DEF Do, Parameters, ValueCosts
  <2> QED BY <2>1, PayMoves
<1>3. CASE s.do = "charge_exp"
  <2>1. g = Pay(f, ExpCost(Arg(f, 2))) /\ s.do \notin ValueCosts /\ 2 \in Reads(s)
    BY <1>3 DEF Do, ValueCosts, Reads
  <2>2. ExpCost(Arg(f, 2)) \in Nat
    BY <1>1, <2>1, ArgWord, ExpCostType
  <2> QED BY <2>1, <2>2, PayMoves
<1>4. CASE s.do = "per_word"
  <2> DEFINE a == AsUsize(Arg(f, s.s))
             w == RoundUp(a) \div Bytes
             x == s.gas * w
  <2>1. g = Pay(f, x) /\ s.do \notin ValueCosts /\ s.s \in Reads(s) /\ s.gas \in Nat
    BY <1>4 DEF Do, ValueCosts, Reads, Parameters
  <2>2. a \in Nat
    BY <1>1, <2>1, ArgWord
  <2> HIDE DEF a
  <2>3. RoundUp(a) \in Nat /\ Bytes \in Nat \ {0}
    BY <2>2, RoundUpFacts, WordFacts
  <2>4. w \in Nat
    BY <2>3, DivType
  <2> HIDE DEF w
  <2>5. x \in Nat
    BY <2>1, <2>4
  <2> HIDE DEF x
  <2> QED BY <2>1, <2>5, PayMoves
<1>5. CASE s.do = "value_cost"
  <2>1. g = Price(f, Arg(f, s.i), Addr(Arg(f, s.to))) /\ s.i \in Reads(s)
    BY <1>5 DEF Do, Reads
  <2>2. Arg(f, s.i) \in Nat
    BY <1>1, <2>1, ArgWord
  <2> QED BY <2>1, <2>2, PriceStep
<1>6. CASE s.do = "paid_value"
  <2>1. g = IF Arg(f, s.i) = 0 THEN f ELSE Pay(f, 9000)
    BY <1>6 DEF Do
  <2>2. Moves(f, f, {"charge", "out"})
    BY GoingMoves
  <2>3. /\ Moves(Pay(f, 9000), f, {"charge", "out"})
        /\ Pay(f, 9000).out = "Ok" => Pay(f, 9000).charge = f.charge + 9000
    BY PayMoves
  <2> QED BY <1>1, <2>1, <2>2, <2>3
<1>7. CASE s.do = "log_cost"
  <2>1. 2 \in Reads(s) /\ s.do \notin ValueCosts
    BY <1>7 DEF Reads, ValueCosts
  <2>2. 2 \in 1 .. Len(f.stack)
    BY <2>1
  <2>3. Moves(g, f, {"charge", "out"})
    BY <1>7, <2>2, LogCostStep
  <2> QED BY <2>1, <2>3
<1> QED BY <1>2, <1>3, <1>4, <1>5, <1>6, <1>7 DEF Payers

LEMMA MaxOne == ASSUME NEW x \in Int PROVE Max({x}) = x
<1>1. IsFiniteSet({x}) /\ {x} \subseteq Int /\ {x} # {}
  BY FS_Singleton
<1>2. Max({x}) \in {x}
  BY <1>1, MaxIs
<1> QED BY <1>2

LEMMA DelegateIs ==
  ASSUME NEW f, NEW a
  PROVE  \/ Delegate(f, a) = {}
         \/ /\ a \in DOMAIN Auth /\ <<"acc", a>> \in f.known /\ Delegate(f, a) # {}
            /\ Delegate(f, a) = {Auth[a]} /\ Auth[a] \in Acct /\ Max(Delegate(f, a)) = Auth[a]
<1>1. CASE a \in DOMAIN Auth /\ <<"acc", a>> \in f.known
  <2>1. Auth[a] \in Acct /\ A \in Nat
    BY <1>1, MachineAssumption
  <2>2. Auth[a] \in Int
    BY <2>1 DEF Acct
  <2>3. Delegate(f, a) = {Auth[a]}
    BY <1>1 DEF Delegate
  <2> QED BY <1>1, <2>1, <2>2, <2>3, MaxOne
<1>2. CASE ~(a \in DOMAIN Auth /\ <<"acc", a>> \in f.known)
  BY <1>2 DEF Delegate
<1> QED BY <1>1, <1>2

LEMMA AccItem == \A a \in Acct : <<"acc", a>> \in Everything
BY DEF Everything

LEMMA WordItem == \A x \in Word : <<"slot", x>> \in Everything /\ <<"hash", x>> \in Everything
BY DEF Everything

\* A step that asks for data does nothing else.
LEMMA FetchStep ==
  ASSUME NEW f, Going(f), NEW c, NEW op, NEW s, s.do \in Fetchers,
         \A i \in Reads(s) : i \in 1 .. Len(f.stack), NEW g, g = Do(f, c, op, s)
  PROVE  /\ IsFrame(g) /\ Only(g, f, {"out", "want"}) /\ Solvent(g) /\ f.charge <= g.charge
         /\ g.out \in {"Ok", "Fetch"} /\ (g.out = "Ok" => g = f)
<1>1. IsFrame(f) /\ f.charge \in Int /\ f.charge >= 0 /\ f.out = "Ok"
  BY FieldTypes DEF Going, Solvent
<1>2. g = f \/ \E item \in Everything : g = Fetch(f, item)
  <2>1. CASE s.do = "need_this"
    <3>1. g = Fetch(f, <<"acc", This>>)
      BY <2>1 DEF Do
    <3> QED BY <3>1, AccItem, MachineAssumption
  <2>2. CASE s.do = "need"
    <3>1. s.i \in Reads(s)
      BY <2>2 DEF Reads
    <3>2. Addr(Arg(f, s.i)) \in Acct
      BY <1>1, <3>1, ArgWord, AddrAcct
    <3>3. g = f \/ g = Fetch(f, <<"acc", Addr(Arg(f, s.i))>>)
      BY <2>2 DEF Do
    <3> QED BY <3>2, <3>3, AccItem
  <2>3. CASE s.do = "need_delegate"
    <3> DEFINE d == Delegate(f, Addr(Arg(f, s.i)))
    <3>1. g = IF d = {} THEN f ELSE Fetch(f, <<"acc", Max(d)>>)
      BY <2>3 DEF Do
    <3>2. d = {} \/ Max(d) \in Acct
      BY DelegateIs
    <3> HIDE DEF d
    <3> QED BY <3>1, <3>2, AccItem
  <2>4. CASE s.do = "need_slot"
    <3>1. g = Fetch(f, <<"slot", Arg(f, 1)>>) /\ 1 \in Reads(s)
      BY <2>4 DEF Do, Reads
    <3>2. Arg(f, 1) \in Word
      BY <1>1, <3>1, ArgWord
    <3> QED BY <3>1, <3>2, WordItem
  <2>5. CASE s.do = "need_hash"
    <3>1. (g = f \/ g = Fetch(f, <<"hash", HashNumber(f)>>)) /\ 1 \in Reads(s)
      BY <2>5 DEF Do, Reads
    <3>2. HashNumber(f) \in Word
      BY <1>1, <3>1, ArgWord DEF HashNumber
    <3> QED BY <3>1, <3>2, WordItem
  <2> QED BY <2>1, <2>2, <2>3, <2>4, <2>5 DEF Fetchers
<1>3. CASE g = f
  BY <1>1, <1>3 DEF Going, Only, IsFrame
<1>4. CASE \E item \in Everything : g = Fetch(f, item)
  <2> PICK item \in Everything : g = Fetch(f, item)
    BY <1>4
  <2>1. /\ IsFrame(g) /\ Only(g, f, {"out", "want"})
        /\ \/ g = f /\ item \in f.known
           \/ g.out = "Fetch" /\ g.want = {item} /\ item \notin f.known
    BY <1>1, FetchFacts
  <2>2. g.charge = f.charge /\ g.spent = f.spent /\ g.limit = f.limit
    BY <2>1 DEF Only, Fields
  <2>3. Solvent(g)
    BY <1>1, <2>1, <2>2 DEF Going, Solvent
  <2> QED BY <1>1, <2>1, <2>2, <2>3
<1> QED BY <1>2, <1>3, <1>4

----------------------------------------------------------------------------
\* The code of a frame, and an instruction of it.
CodeFits(c) ==
  /\ c \in Seq([op : STRING, n : Nat])
  /\ \A i \in DOMAIN c :
       /\ c[i].op = "PUSH" => c[i].n <= Bytes
       /\ c[i].op \in {"DUP", "SWAP"} => c[i].n >= 1

At(f, c, op) == CodeFits(c) /\ f.pc < Len(c) /\ c[f.pc + 1].op = op

LEMMA AtFacts ==
  ASSUME NEW f, IsFrame(f), NEW c, NEW op, At(f, c, op)
  PROVE  /\ Len(c) \in Nat /\ f.pc \in Nat /\ f.pc + 1 \in 1 .. Len(c) /\ c[f.pc + 1].n \in Nat
         /\ op = "PUSH" => c[f.pc + 1].n <= Bytes
         /\ op \in {"DUP", "SWAP"} => c[f.pc + 1].n >= 1
         /\ \A i \in 1 .. Len(c) : c[i].n \in Nat
<1>1. f.pc \in Nat /\ c \in Seq([op : STRING, n : Nat]) /\ Len(c) \in Nat
  BY FieldTypes DEF At, CodeFits
<1>2. f.pc + 1 \in 1 .. Len(c) /\ DOMAIN c = 1 .. Len(c)
  BY <1>1 DEF At
<1>3. \A i \in 1 .. Len(c) : c[i] \in [op : STRING, n : Nat]
  BY <1>1, ElementOfSeq
<1>4. \A i \in 1 .. Len(c) : c[i].n \in Nat
  BY <1>3
<1> QED BY <1>1, <1>2, <1>4 DEF At, CodeFits

LEMMA PushedDataWord ==
  ASSUME NEW f, IsFrame(f), NEW c, At(f, c, "PUSH")
  PROVE  PushedData(f, c, c[f.pc + 1].n) \in Word
<1> DEFINE n == c[f.pc + 1].n
           at(i) == f.pc + 1 + i
           part == [i \in 1 .. n |->
                      IF at(i) <= Len(c)
                      THEN (c[at(i)].n % Two[ByteBits]) * Two[ByteBits * (n - i)] ELSE 0]
<1>1. n \in Nat /\ n <= Bytes /\ f.pc \in Nat /\ Len(c) \in Nat
      /\ \A i \in 1 .. Len(c) : c[i].n \in Nat
  BY AtFacts
<1>2. PushedData(f, c, n) = Total(part, 1 .. n)
  BY DEF PushedData, Total
<1> HIDE DEF n
<1>3. ByteBits \in Nat \ {0} /\ Bytes \in Nat \ {0} /\ N \in Nat /\ N = ByteBits * Bytes /\ W = Two[N]
      /\ W \in Nat
  BY WordFacts
<1>4. ASSUME NEW i \in 1 .. n PROVE part[i] \in 0 .. (Two[ByteBits] - 1) * Two[ByteBits * (n - i)]
  <2>1. n - i \in Nat
    BY <1>1
  <2>2. ByteBits * (n - i) \in Nat
    BY <1>3, <2>1
  <2> DEFINE t == Two[ByteBits]
             w == Two[ByteBits * (n - i)]
             m == (t - 1) * w
  <2>3. t \in Nat \ {0} /\ w \in Nat \ {0}
    BY <1>3, <2>2, TwoType
  <2>4. part[i] = IF at(i) <= Len(c) THEN (c[at(i)].n % t) * w ELSE 0
    OBVIOUS
  <2>5. at(i) \in Nat /\ at(i) >= 1
    BY <1>1
  <2> HIDE DEF t, w, part, at
  <2>6. t - 1 \in Nat /\ m \in Nat
    BY <2>3
  <2>7. CASE at(i) <= Len(c)
    <3> DEFINE r == (c[at(i)].n % t)
    <3>1. c[at(i)].n \in Nat
      BY <1>1, <2>5, <2>7
    <3>2. r \in 0 .. t - 1
      BY <2>3, <3>1, DivType
    <3> HIDE DEF r
    <3>3. r \in Nat /\ r <= t - 1
      BY <2>3, <3>2
    <3>4. r * w <= (t - 1) * w /\ r * w \in Nat
      <4>1. r * w \in Nat
        BY <2>3, <3>3
      <4> QED BY <2>3, <2>6, <3>3, <4>1, TimesGrows
    <3>5. part[i] = r * w
      BY <2>4, <2>7 DEF r
    <3> DEFINE y == r * w
    <3> HIDE DEF m
    <3>6. y \in Nat /\ y <= m /\ part[i] = y
      BY <3>4, <3>5 DEF m
    <3> HIDE DEF y
    <3>7. part[i] \in 0 .. m
      BY <2>6, <3>6
    <3> QED BY <3>7 DEF m, t, w
  <2>8. CASE ~ at(i) <= Len(c)
    <3> HIDE DEF m
    <3>1. part[i] \in 0 .. m
      BY <2>4, <2>6, <2>8
    <3> QED BY <3>1 DEF m, t, w
  <2> QED BY <2>7, <2>8
<1> HIDE DEF part
<1>5. Total(part, 1 .. n) \in 0 .. Two[ByteBits * n] - 1
  BY <1>1, <1>4, PushedBound
<1>6. Two[ByteBits * n] \in Nat /\ Two[ByteBits * n] <= W
  <2>1. ByteBits * n \in Nat /\ ByteBits * n <= ByteBits * Bytes
    BY <1>1, <1>3, TimesGrows
  <2>2. ByteBits * n <= N
    BY <1>3, <2>1
  <2> QED BY <1>3, <2>1, <2>2, TwoType, TwoGrows
<1>7. Total(part, 1 .. n) \in Word
  <2> DEFINE b == Two[ByteBits * n]
             x == Total(part, 1 .. n)
  <2>1. x \in 0 .. b - 1 /\ b \in Nat /\ b <= W
    BY <1>5, <1>6
  <2> HIDE DEF b, x
  <2>2. x \in Word
    BY <1>3, <2>1 DEF Word
  <2> QED BY <2>2 DEF x
<1> QED BY <1>2, <1>7 DEF n

\* What an instruction pushes is a word.
LEMMA PushedWord ==
  ASSUME NEW f, IsFrame(f), Solvent(f), f.out = "Ok", NEW c, NEW op, At(f, c, op), NEW s, s.do = "push", Parameters(s),
         \A i \in Reads(s) : i \in 1 .. Len(f.stack),
         s.what = "alu" => op \in ArithOps /\ f.pops = Arity(op) /\ f.pops <= Len(f.stack),
         s.what = "data" => op = "PUSH"
  PROVE  Pushed(f, c, op, s.what) \in Word
<1> DEFINE v == Pushed(f, c, op, s.what)
<1>0. /\ Given \in Word /\ 0 \in Word /\ W \in Nat \ {0}
  BY MachineAssumption, WordFacts DEF Word
<1>1. CASE s.what = "alu"
  <2>1. \A i \in 1 .. Arity(op) : Args(f)[i] \in Word
    <3> TAKE i \in 1 .. Arity(op)
    <3>1. i \in 1 .. f.pops /\ i \in 1 .. Len(f.stack)
      BY <1>1, FieldTypes, LengthType
    <3>2. Arg(f, i) \in Word
      BY <3>1, ArgWord
    <3> QED BY <3>1, <3>2 DEF Args
  <2>2. Compute(op, Args(f)) \in Word
    BY <1>1, <2>1, ComputeWord
  <2> QED BY <1>1, <2>2 DEF Pushed
<1>2. CASE s.what = "data"
  <2>1. PushedData(f, c, c[f.pc + 1].n) \in Word
    BY <1>2, PushedDataWord
  <2> QED BY <1>2, <2>1 DEF Pushed
<1>3. CASE s.what = "slot"
  <2>1. Arg(f, 1) \in Word /\ f.slot \in [Word -> Word]
    BY <1>3, ArgWord, FieldTypes DEF Reads
  <2> QED BY <1>3, <2>1 DEF Pushed
<1>4. CASE s.what = "temp"
  <2>1. Arg(f, 1) \in Word /\ f.temp \in [Word -> Word]
    BY <1>4, ArgWord, FieldTypes DEF Reads
  <2> QED BY <1>4, <2>1 DEF Pushed
<1>5. CASE s.what = "hash"
  BY <1>0, <1>5 DEF Pushed
<1>6. CASE s.what = "given"
  BY <1>0, <1>6 DEF Pushed
<1>7. \A x \in Nat : (x % W) \in Word
  <2> TAKE x \in Nat
  <2>1. x \in Int
    OBVIOUS
  <2> QED BY <2>1, ModWord
<1>8. f.pc \in Nat /\ f.mem \in Nat /\ Remaining(f) \in Nat
  BY FieldTypes DEF Solvent, Remaining
<1>9. CASE s.what = "pc"
  <2>1. v = (f.pc % W)
    BY <1>9 DEF Pushed
  <2> QED BY <1>7, <1>8, <2>1
<1>10. CASE s.what = "msize"
  <2>1. v = (f.mem % W)
    BY <1>10 DEF Pushed
  <2> QED BY <1>7, <1>8, <2>1
<1>11. CASE s.what = "gas"
  <2>1. v = (Remaining(f) % W)
    BY <1>11 DEF Pushed
  <2> QED BY <1>7, <1>8, <2>1
<1> QED BY <1>1, <1>2, <1>3, <1>4, <1>5, <1>6, <1>9, <1>10, <1>11 DEF Parameters

LEMMA PushMoves ==
  ASSUME NEW f, Going(f), NEW v \in Word
  PROVE  LET g == PushWord(f, v) IN
         /\ Moves(g, f, {"push", "out"})
         /\ \/ g.out = "StackOverflow" /\ g.push = f.push
            \/ g.out = "Ok" /\ Len(f.stack) - f.pops + Len(g.push) <= StackLimit
<1> DEFINE g == PushWord(f, v)
<1>1. IsFrame(f) /\ f.out = "Ok" /\ f.charge \in Int /\ f.pops \in Nat /\ f.push \in Seq(Word)
      /\ Len(f.stack) \in Nat
  BY FieldTypes, LengthType DEF Going
<1>2. /\ IsFrame(g) /\ Only(g, f, {"push", "out"})
      /\ \/ g.out = "StackOverflow" /\ g.push = f.push
         \/ /\ g.out = f.out /\ g.push = Append(f.push, v)
            /\ Len(f.stack) - f.pops + Len(f.push) < StackLimit
  BY <1>1, PushWordFacts
<1> HIDE DEF g
<1>3. g.charge = f.charge /\ g.spent = f.spent /\ g.limit = f.limit
  BY <1>2 DEF Only, Fields
<1>4. Len(Append(f.push, v)) = Len(f.push) + 1 /\ Len(f.push) \in Nat /\ StackLimit \in Nat
  BY <1>1, MachineAssumption
<1>5. Solvent(g) /\ f.charge <= g.charge
  BY <1>1, <1>2, <1>3 DEF Going, Solvent
<1>6. g.out = "Ok" => Len(f.stack) - f.pops + Len(g.push) <= StackLimit
  <2> HAVE g.out = "Ok"
  <2>1. g.push = Append(f.push, v) /\ Len(f.stack) - f.pops + Len(f.push) < StackLimit
    BY <1>2
  <2>2. Len(g.push) = Len(f.push) + 1
    BY <1>4, <2>1
  <2> QED BY <1>1, <1>4, <2>1, <2>2
<1> QED BY <1>1, <1>2, <1>5, <1>6 DEF Moves, g

LEMMA PushStep ==
  ASSUME NEW f, Going(f), NEW c, NEW op, At(f, c, op), NEW s, s.do \in Pushers, Parameters(s),
         \A i \in Reads(s) : i \in 1 .. Len(f.stack),
         s.do = "push" /\ s.what = "alu" => op \in ArithOps /\ f.pops = Arity(op) /\ f.pops <= Len(f.stack),
         s.do = "push" /\ s.what = "data" => op = "PUSH", s.do = "dup" => op = "DUP",
         NEW g, g = Do(f, c, op, s)
  PROVE  /\ Moves(g, f, {"push", "out"})
         /\ \/ g.out # "Ok" /\ g.push = f.push
            \/ g.out = "Ok" /\ Len(f.stack) - f.pops + Len(g.push) <= StackLimit
<1>1. CASE s.do = "push"
  <2>1. Pushed(f, c, op, s.what) \in Word
    BY <1>1, PushedWord DEF Going
  <2>2. g = PushWord(f, Pushed(f, c, op, s.what))
    BY <1>1 DEF Do
  <2> QED BY <2>1, <2>2, PushMoves
<1>2. CASE s.do = "dup"
  <2> DEFINE n == c[f.pc + 1].n
  <2>1. n \in Nat /\ n >= 1 /\ Len(f.stack) \in Nat
    BY <1>2, AtFacts, LengthType DEF Going
  <2>2. g = IF Len(f.stack) < n THEN Halt(f, "StackUnderflow") ELSE PushWord(f, Arg(f, n))
    BY <1>2 DEF Do
  <2> HIDE DEF n
  <2>3. CASE Len(f.stack) < n
    <3>1. "StackUnderflow" \in Outs \ {"Fetch", "Call"}
      BY DEF Outs
    <3>2. g = Halt(f, "StackUnderflow")
      BY <2>2, <2>3
    <3>3. Moves(g, f, {"out"}) /\ g.out = "StackUnderflow"
      BY <3>1, <3>2, HaltMoves
    <3>4. g.push = f.push
      BY <3>3 DEF Moves, Only, Fields
    <3> QED BY <3>3, <3>4, MovesMore
  <2>4. CASE ~ Len(f.stack) < n
    <3>1. n \in 1 .. Len(f.stack)
      BY <2>1, <2>4
    <3>2. Arg(f, n) \in Word
      BY <3>1, ArgWord DEF Going
    <3>3. g = PushWord(f, Arg(f, n))
      BY <2>2, <2>4
    <3> QED BY <3>2, <3>3, PushMoves
  <2> QED BY <2>3, <2>4
<1> QED BY <1>1, <1>2 DEF Pushers

----------------------------------------------------------------------------
\* The regions a step makes room for.
RegionsOf(f, s) ==
  IF s.do = "expand"
  THEN {<<AsUsize(Arg(f, r[1])), AsUsize(Arg(f, r[2]))>> : r \in Fn!Range(s.regions)}
  ELSE {<<AsUsize(Arg(f, s.o)), s.n>>}

LEMMA RegionsFacts ==
  ASSUME NEW f, IsFrame(f), NEW s, s.do \in Growers, Parameters(s),
         \A i \in Reads(s) : i \in 1 .. Len(f.stack)
  PROVE  /\ IsFiniteSet(RegionsOf(f, s)) /\ \A r \in RegionsOf(f, s) : r[1] \in Nat /\ r[2] \in Nat
         /\ s.do = "expand" => \A m \in 1 .. Len(s.regions) :
              <<AsUsize(Arg(f, s.regions[m][1])), AsUsize(Arg(f, s.regions[m][2]))>> \in RegionsOf(f, s)
<1>1. CASE s.do = "expand"
  <2> DEFINE at(m) == <<AsUsize(Arg(f, s.regions[m][1])), AsUsize(Arg(f, s.regions[m][2]))>>
  <2>1. Len(s.regions) \in {1, 2}
    BY <1>1 DEF Parameters
  <2>2. RegionsOf(f, s) = {at(m) : m \in 1 .. Len(s.regions)}
    <3>1. Fn!Range(s.regions) = {s.regions[m] : m \in 1 .. Len(s.regions)}
      BY <1>1 DEF Fn!Range, Parameters
    <3> QED BY <1>1, <3>1 DEF RegionsOf
  <2>3. \A m \in 1 .. Len(s.regions) : at(m)[1] \in Nat /\ at(m)[2] \in Nat
    <3> TAKE m \in 1 .. Len(s.regions)
    <3>1. s.regions[m][1] \in Reads(s) /\ s.regions[m][2] \in Reads(s)
      BY <1>1 DEF Reads
    <3> QED BY <3>1, ArgWord
  <2>4. IsFiniteSet({at(m) : m \in 1 .. Len(s.regions)})
    <3>1. {at(m) : m \in 1 .. Len(s.regions)} = {at(1)} \cup {at(Len(s.regions))}
      BY <2>1
    <3> HIDE DEF at
    <3>2. IsFiniteSet({at(1)}) /\ IsFiniteSet({at(Len(s.regions))})
      BY FS_Singleton
    <3>3. IsFiniteSet({at(1)} \cup {at(Len(s.regions))})
      BY <3>2, FS_Union
    <3> QED BY <3>1, <3>3
  <2> HIDE DEF at
  <2>5. \A r \in RegionsOf(f, s) : r[1] \in Nat /\ r[2] \in Nat
    BY <2>2, <2>3
  <2>6. \A m \in 1 .. Len(s.regions) : at(m) \in RegionsOf(f, s)
    BY <2>2
  <2> QED BY <2>2, <2>4, <2>5, <2>6 DEF at
<1>2. CASE s.do = "expand_fixed"
  <2>1. RegionsOf(f, s) = {<<AsUsize(Arg(f, s.o)), s.n>>} /\ s.o \in Reads(s) /\ s.n \in Nat
    BY <1>2 DEF RegionsOf, Reads, Parameters
  <2>2. AsUsize(Arg(f, s.o)) \in Nat
    BY <2>1, ArgWord
  <2> DEFINE r == <<AsUsize(Arg(f, s.o)), s.n>>
  <2>5. IsFiniteSet({r})
    BY FS_Singleton
  <2>3. IsFiniteSet(RegionsOf(f, s))
    BY <2>1, <2>5
  <2>4. s.do # "expand"
    BY <1>2
  <2> QED BY <2>1, <2>2, <2>3, <2>4
<1> QED BY <1>1, <1>2 DEF Growers

LEMMA GrowStep ==
  ASSUME NEW f, Going(f), MemoryFits(f), NEW c, NEW op, NEW s, s.do \in Growers, Parameters(s),
         \A i \in Reads(s) : i \in 1 .. Len(f.stack), NEW g, g = Do(f, c, op, s)
  PROVE  /\ Moves(g, f, {"charge", "out", "mem", "owed"})
         /\ MemoryFits(g) /\ f.mem <= g.mem /\ g.owed - f.owed = Cost(g.mem) - Cost(f.mem)
         /\ s.do = "expand" /\ g.out = "Ok" => \A m \in 1 .. Len(s.regions) :
              LET a == AsUsize(Arg(f, s.regions[m][1]))
                  b == AsUsize(Arg(f, s.regions[m][2]))
              IN  b > 0 => a + b <= g.mem
<1>1. IsFrame(f) /\ Solvent(f) /\ f.out = "Ok" /\ f.out # "OutOfGas"
  BY DEF Going
<1> DEFINE R == RegionsOf(f, s)
<1>2. g = Grow(f, R)
  <2>1. CASE s.do = "expand"
    BY <2>1 DEF Do, RegionsOf
  <2>2. CASE s.do = "expand_fixed"
    BY <2>2 DEF Do, RegionsOf
  <2> QED BY <2>1, <2>2 DEF Growers
<1>3. /\ IsFiniteSet(R) /\ \A r \in R : r[1] \in Nat /\ r[2] \in Nat
      /\ s.do = "expand" => \A m \in 1 .. Len(s.regions) :
           <<AsUsize(Arg(f, s.regions[m][1])), AsUsize(Arg(f, s.regions[m][2]))>> \in R
  BY <1>1, RegionsFacts
<1> HIDE DEF R
<1>4. /\ IsFrame(g) /\ Only(g, f, {"charge", "out", "mem", "owed"})
      /\ MemoryFits(g) /\ f.mem <= g.mem
      /\ g.owed - f.owed = Cost(g.mem) - Cost(f.mem)
      /\ Solvent(g) /\ f.charge <= g.charge
      /\ g.out \in {f.out, "OutOfGas", "OutOfMemory"}
      /\ g.out = "Ok" => \A r \in R : r[2] > 0 => r[1] + r[2] <= g.mem
  BY <1>1, <1>2, <1>3, GrowFacts
<1>5. ASSUME s.do = "expand", g.out = "Ok", NEW m \in 1 .. Len(s.regions)
      PROVE  LET a == AsUsize(Arg(f, s.regions[m][1]))
                 b == AsUsize(Arg(f, s.regions[m][2]))
             IN  b > 0 => a + b <= g.mem
  <2> DEFINE r == <<AsUsize(Arg(f, s.regions[m][1])), AsUsize(Arg(f, s.regions[m][2]))>>
  <2>1. r \in R
    BY <1>3, <1>5
  <2>2. r[2] > 0 => r[1] + r[2] <= g.mem
    BY <1>4, <1>5, <2>1
  <2> QED BY <2>2
<1> QED BY <1>1, <1>4, <1>5 DEF Moves

\* At most a is added to what is warmed and to what is paid as cold.
Warmed(g, f, a) ==
  /\ Moves(g, f, {"charge", "out", "accs", "cold"})
  /\ g.accs \in {f.accs, Append(f.accs, a)} /\ g.cold \in {f.cold, Append(f.cold, a)}
  /\ g.cold # f.cold => a \notin f.warm
  /\ g.cold # f.cold /\ g.out = "Ok" => g.accs = Append(f.accs, a)

LEMMA WarmMoves ==
  ASSUME NEW f, Going(f), NEW a \in Acct
  PROVE  /\ Moves(Warm(f, a), f, {"accs"}) /\ Going(Warm(f, a)) /\ Warm(f, a).accs = Append(f.accs, a)
         /\ Moves(Surcharge(f, a), f, {"cold"}) /\ Going(Surcharge(f, a))
         /\ Surcharge(f, a).cold = Append(f.cold, a)
<1> DEFINE g == Warm(f, a)
           h == Surcharge(f, a)
<1>1. IsFrame(f) /\ Solvent(f) /\ f.out = "Ok" /\ f.charge \in Int
  BY FieldTypes DEF Going
<1>2. /\ IsFrame(g) /\ Only(g, f, {"accs"}) /\ g.accs = Append(f.accs, a)
      /\ IsFrame(h) /\ Only(h, f, {"cold"}) /\ h.cold = Append(f.cold, a)
  BY <1>1, WarmFacts, SurchargeFacts
<1> HIDE DEF g, h
<1>3. /\ g.charge = f.charge /\ g.spent = f.spent /\ g.limit = f.limit /\ g.out = f.out
      /\ h.charge = f.charge /\ h.spent = f.spent /\ h.limit = f.limit /\ h.out = f.out
  BY <1>2 DEF Only, Fields
<1>4. Solvent(g) /\ f.charge <= g.charge /\ Solvent(h) /\ f.charge <= h.charge
  BY <1>1, <1>3 DEF Solvent
<1>5. Moves(g, f, {"accs"}) /\ Going(g) /\ Moves(h, f, {"cold"}) /\ Going(h)
  BY <1>1, <1>2, <1>3, <1>4 DEF Moves, Going
<1> QED BY <1>2, <1>5 DEF g, h

\* A surcharge may come after what failed to be paid.
LEMMA LateSurcharge ==
  ASSUME NEW f, NEW g, NEW D, IsFrame(f), Moves(g, f, D), NEW a \in Acct
  PROVE  LET h == Surcharge(g, a) IN
         /\ Moves(h, f, D \cup {"cold"}) /\ h.cold = Append(g.cold, a) /\ h.out = g.out /\ h.accs = g.accs
<1> DEFINE h == Surcharge(g, a)
<1>1. IsFrame(h) /\ Only(h, g, {"cold"}) /\ h.cold = Append(g.cold, a)
  BY SurchargeFacts DEF Moves
<1> HIDE DEF h
<1>2. h.charge = g.charge /\ h.spent = g.spent /\ h.limit = g.limit /\ h.out = g.out /\ h.accs = g.accs
  BY <1>1 DEF Only, Fields
<1>3. Only(h, f, D \cup {"cold"})
  BY <1>1 DEF Moves, Only
<1>4. Moves(h, f, D \cup {"cold"})
  BY <1>1, <1>2, <1>3 DEF Moves, Solvent
<1> QED BY <1>1, <1>2, <1>4 DEF h

LEMMA PayAccessStep ==
  ASSUME NEW f, Going(f), NEW a \in Acct
  PROVE  Warmed(PayAccess(f, a), f, a)
<1> DEFINE D == {"charge", "out", "accs", "cold"}
           g == Warm(f, a)
           x == IF IsCold(f, a) THEN 2600 ELSE 100
           h == Pay(g, x)
           r == PayAccess(f, a)
<1>0. IsFrame(f)
  BY DEF Going
<1>1. Moves(g, f, {"accs"}) /\ Going(g) /\ g.accs = Append(f.accs, a)
  BY WarmMoves
<1>2. r = IF IsCold(f, a) THEN Surcharge(h, a) ELSE h
  BY DEF PayAccess
<1>3. x \in Nat
  OBVIOUS
<1> HIDE DEF g, x
<1>4. Moves(h, g, {"charge", "out"})
  BY <1>1, <1>3, PayMoves
<1> HIDE DEF h, r
<1>5. h.accs = g.accs /\ h.cold = f.cold
  BY <1>1, <1>4 DEF Moves, Only, Fields
<1>6. Moves(h, f, {"charge", "out", "accs"})
  <2>1. Moves(g, f, {"charge", "out", "accs"}) /\ Moves(h, g, {"charge", "out", "accs"})
    BY <1>1, <1>4, MovesMore
  <2> QED BY <1>0, <2>1, MovesOn
<1>7. CASE IsCold(f, a)
  <2>1. r = Surcharge(h, a)
    BY <1>2, <1>7
  <2>2. Moves(r, f, {"charge", "out", "accs"} \cup {"cold"}) /\ r.cold = Append(h.cold, a) /\ r.accs = h.accs
    BY <1>0, <1>6, <2>1, LateSurcharge
  <2>3. {"charge", "out", "accs"} \cup {"cold"} = D
    OBVIOUS
  <2>4. Moves(r, f, D)
    BY <2>2, <2>3
  <2> QED BY <1>1, <1>5, <1>7, <2>2, <2>4 DEF Warmed, IsCold, r
<1>8. CASE ~IsCold(f, a)
  <2>1. r = h
    BY <1>2, <1>8
  <2>2. Moves(r, f, D)
    BY <1>6, <2>1, MovesMore
  <2> QED BY <1>1, <1>5, <2>1, <2>2 DEF Warmed, r
<1> QED BY <1>7, <1>8

LEMMA ColdHeirStep ==
  ASSUME NEW f, Going(f), NEW a \in Acct
  PROVE  Warmed(ColdHeir(f, a), f, a)
<1> DEFINE D == {"charge", "out", "accs", "cold"}
           q == Pay(f, 2600)
           t == Surcharge(q, a)
           g == IF IsCold(f, a) THEN t ELSE f
           r == ColdHeir(f, a)
<1>0. IsFrame(f) /\ f.out = "Ok"
  BY DEF Going
<1>1. r = IF g.out = "Ok" THEN Warm(g, a) ELSE g
  BY DEF ColdHeir
<1>2. Moves(q, f, {"charge", "out"}) /\ q.cold = f.cold /\ q.accs = f.accs /\ q.out \in {"Ok", "OutOfGas"}
  <2>1. Moves(q, f, {"charge", "out"}) /\ q.out \in {"Ok", "OutOfGas"}
    BY PayMoves
  <2> HIDE DEF q
  <2> QED BY <2>1 DEF Moves, Only, Fields
<1> HIDE DEF q
<1>3. Moves(t, f, {"charge", "out", "cold"}) /\ t.cold = Append(f.cold, a) /\ t.accs = f.accs
  <2>1. Moves(t, f, {"charge", "out"} \cup {"cold"}) /\ t.cold = Append(q.cold, a) /\ t.accs = q.accs
    BY <1>0, <1>2, LateSurcharge
  <2>2. {"charge", "out"} \cup {"cold"} = {"charge", "out", "cold"}
    OBVIOUS
  <2> QED BY <1>2, <2>1, <2>2
<1> HIDE DEF t
<1>4. Moves(g, f, {"charge", "out", "cold"}) /\ g.accs = f.accs
      /\ (g.cold = f.cold \/ (g.cold = Append(f.cold, a) /\ a \notin f.warm))
  <2>1. Moves(f, f, {"charge", "out", "cold"})
    BY GoingMoves
  <2> QED BY <1>3, <2>1 DEF IsCold
<1> HIDE DEF g, r
<1>5. CASE g.out = "Ok"
  <2>1. Going(g) /\ r = Warm(g, a)
    BY <1>1, <1>4, <1>5 DEF Moves, Going
  <2>2. Moves(r, g, {"accs"}) /\ r.accs = Append(g.accs, a)
    BY <2>1, WarmMoves
  <2>3. r.cold = g.cold
    BY <2>2 DEF Moves, Only, Fields
  <2>4. Moves(g, f, D) /\ Moves(r, g, D)
    BY <1>4, <2>2, MovesMore
  <2>5. Moves(r, f, D)
    BY <1>0, <2>4, MovesOn
  <2> QED BY <1>4, <2>2, <2>3, <2>5 DEF Warmed, r
<1>6. CASE g.out # "Ok"
  <2>1. r = g
    BY <1>1, <1>6
  <2>2. Moves(r, f, D)
    BY <1>4, <2>1, MovesMore
  <2> QED BY <1>4, <1>6, <2>1, <2>2 DEF Warmed, r
<1> QED BY <1>5, <1>6

LEMMA ColdStep ==
  ASSUME NEW f, Going(f), NEW a \in Acct
  PROVE  Warmed(IF IsCold(f, a) THEN Pay(Surcharge(Warm(f, a), a), 2500) ELSE f, f, a)
<1> DEFINE D == {"charge", "out", "accs", "cold"}
           g == Warm(f, a)
           h == Surcharge(g, a)
           r == Pay(h, 2500)
<1>0. IsFrame(f)
  BY DEF Going
<1>1. Moves(g, f, {"accs"}) /\ Going(g) /\ g.accs = Append(f.accs, a)
  BY WarmMoves
<1> HIDE DEF g
<1>2. Moves(h, g, {"cold"}) /\ Going(h) /\ h.cold = Append(g.cold, a)
  BY <1>1, WarmMoves
<1> HIDE DEF h
<1>3. Moves(r, h, {"charge", "out"})
  BY <1>2, PayMoves
<1> HIDE DEF r
<1>4. Moves(g, f, D) /\ Moves(h, g, D) /\ Moves(r, h, D)
  BY <1>1, <1>2, <1>3, MovesMore
<1>5. Moves(h, f, D)
  BY <1>0, <1>4, MovesOn
<1>6. Moves(r, f, D)
  BY <1>0, <1>4, <1>5, MovesOn
<1>7. r.accs = Append(f.accs, a) /\ r.cold = Append(f.cold, a)
  BY <1>1, <1>2, <1>3 DEF Moves, Only, Fields
<1>8. Moves(f, f, D)
  BY GoingMoves
<1>9. CASE IsCold(f, a)
  <2>1. Warmed(r, f, a)
    BY <1>6, <1>7, <1>9 DEF Warmed, IsCold
  <2> QED BY <1>9, <2>1 DEF r, h, g
<1>10. CASE ~IsCold(f, a)
  <2>1. Warmed(f, f, a)
    BY <1>8 DEF Warmed
  <2> QED BY <1>10, <2>1
<1> QED BY <1>9, <1>10

\* The account a step warms, if it warms one.
WarmedBy(f, s) ==
  IF s.do = "access_delegate" THEN Max(Delegate(f, Addr(Arg(f, s.i))))
  ELSE IF s.do = "cold_heir" THEN Addr(Arg(f, 1)) ELSE Addr(Arg(f, s.i))

LEMMA WarmStep ==
  ASSUME NEW f, Going(f), NEW c, NEW op, NEW s, s.do \in Warmers,
         \A i \in Reads(s) : i \in 1 .. Len(f.stack), NEW g, g = Do(f, c, op, s)
  PROVE  /\ Warmed(g, f, WarmedBy(f, s))
         /\ s.do = "access_delegate" =>
              \/ g.accs = f.accs /\ g.cold = f.cold
              \/ /\ Addr(Arg(f, s.i)) \in DOMAIN Auth
                 /\ WarmedBy(f, s) = Auth[Addr(Arg(f, s.i))]
<1>0. IsFrame(f)
  BY DEF Going
<1>1. CASE s.do = "cold"
  <2>1. s.i \in Reads(s) /\ WarmedBy(f, s) = Addr(Arg(f, s.i)) /\ s.do # "access_delegate"
    BY <1>1 DEF Reads, WarmedBy
  <2>2. Addr(Arg(f, s.i)) \in Acct
    BY <1>0, <2>1, ArgWord, AddrAcct
  <2> DEFINE a == Addr(Arg(f, s.i))
  <2>3. g = IF IsCold(f, a) THEN Pay(Surcharge(Warm(f, a), a), 2500) ELSE f
    BY <1>1 DEF Do
  <2> HIDE DEF a
  <2>4. Warmed(g, f, a)
    BY <2>2, <2>3, ColdStep DEF a
  <2> QED BY <2>1, <2>4 DEF a
<1>2. CASE s.do = "access"
  <2>1. s.i \in Reads(s) /\ WarmedBy(f, s) = Addr(Arg(f, s.i)) /\ s.do # "access_delegate"
    BY <1>2 DEF Reads, WarmedBy
  <2>2. Addr(Arg(f, s.i)) \in Acct
    BY <1>0, <2>1, ArgWord, AddrAcct
  <2>3. g = PayAccess(f, Addr(Arg(f, s.i)))
    BY <1>2 DEF Do
  <2> QED BY <2>1, <2>2, <2>3, PayAccessStep
<1>3. CASE s.do = "access_delegate"
  <2> DEFINE a == Addr(Arg(f, s.i))
             d == Delegate(f, a)
  <2>1. g = IF d = {} THEN f ELSE PayAccess(f, Max(d))
    BY <1>3 DEF Do
  <2>2. WarmedBy(f, s) = Max(d)
    BY <1>3 DEF WarmedBy
  <2>3. d = {} \/ (a \in DOMAIN Auth /\ Max(d) \in Acct /\ Max(d) = Auth[a] /\ d # {})
    BY DelegateIs
  <2>4. CASE d = {}
    <3>1. g = f
      BY <2>1, <2>4
    <3>2. Moves(f, f, {"charge", "out", "accs", "cold"})
      BY GoingMoves
    <3> QED BY <3>1, <3>2 DEF Warmed
  <2>5. CASE d # {}
    <3>1. g = PayAccess(f, Max(d)) /\ Max(d) \in Acct /\ a \in DOMAIN Auth /\ Max(d) = Auth[a]
      BY <2>1, <2>3, <2>5
    <3> HIDE DEF d
    <3>2. Warmed(g, f, Max(d))
      BY <3>1, PayAccessStep
    <3> QED BY <2>2, <3>1, <3>2
  <2> QED BY <2>4, <2>5
<1>4. CASE s.do = "cold_heir"
  <2>1. 1 \in Reads(s) /\ WarmedBy(f, s) = Addr(Arg(f, 1)) /\ s.do # "access_delegate"
    BY <1>4 DEF Reads, WarmedBy
  <2>2. Addr(Arg(f, 1)) \in Acct
    BY <1>0, <2>1, ArgWord, AddrAcct
  <2>3. g = ColdHeir(f, Addr(Arg(f, 1)))
    BY <1>4 DEF Do
  <2> QED BY <2>1, <2>2, <2>3, ColdHeirStep
<1> QED BY <1>1, <1>2, <1>3, <1>4 DEF Warmers

LEMMA SetMoves ==
  ASSUME NEW f, Going(f), NEW g, NEW D, D \cap {"charge", "spent", "limit", "out"} = {},
         Only(g, f, D), \A y \in D : g[y] \in TypeOf(y)
  PROVE  Moves(g, f, D) /\ Going(g)
<1>1. IsFrame(f) /\ Solvent(f) /\ f.out = "Ok" /\ f.charge \in Int
  BY FieldTypes DEF Going
<1>2. IsFrame(g)
  BY <1>1, Retyped
<1>3. g.charge = f.charge /\ g.spent = f.spent /\ g.limit = f.limit /\ g.out = f.out
  <2>1. "charge" \in Fields \ D /\ "spent" \in Fields \ D /\ "limit" \in Fields \ D /\ "out" \in Fields \ D
    BY DEF Fields
  <2> QED BY <2>1 DEF Only
<1>4. Solvent(g) /\ f.charge <= g.charge
  BY <1>1, <1>3 DEF Solvent
<1> QED BY <1>1, <1>2, <1>3, <1>4 DEF Moves, Going

LEMMA LendStep ==
  ASSUME NEW f, Going(f), NEW c, NEW op, NEW s, s.do = "lend",
         \A i \in Reads(s) : i \in 1 .. Len(f.stack), NEW g, g = Do(f, c, op, s)
  PROVE  /\ Moves(g, f, {"charge", "out", "lent"}) /\ g.out = "Ok"
         /\ g.lent = g.charge - f.charge + (IF s.v # 0 /\ Arg(f, s.v) # 0 THEN 2300 ELSE 0)
<1> DEFINE r == Remaining(f)
           ask == IF s.i = 0 THEN Remaining(f) ELSE AsUsize(Arg(f, s.i))
           most == r - r \div 64
           gas == IF ask < most THEN ask ELSE most
           v == s.v # 0 /\ Arg(f, s.v) # 0
           h == Pay(f, gas)
           k == [h EXCEPT !.lent = gas + (IF v THEN 2300 ELSE 0)]
<1>1. IsFrame(f) /\ Solvent(f) /\ f.out = "Ok" /\ f.charge \in Int /\ f.spent \in Int /\ f.limit \in Nat
  BY FieldTypes DEF Going
<1>2. r \in Nat
  BY <1>1 DEF Solvent, Remaining
<1>3. ask \in Nat
  <2>1. CASE s.i = 0
    BY <1>2, <2>1
  <2>2. CASE s.i # 0
    <3>1. s.i \in Reads(s)
      BY <2>2 DEF Reads
    <3>2. AsUsize(Arg(f, s.i)) \in Nat
      BY <1>1, <3>1, ArgWord
    <3> QED BY <2>2, <3>2
  <2> QED BY <2>1, <2>2
<1>4. g = k
  BY DEF Do, LendGas
<1>10. most \in Nat /\ most <= r
  <2> DEFINE q == r \div 64
  <2>0. 64 \in Nat \ {0}
    OBVIOUS
  <2> HIDE DEF r
  <2>1. q \in Nat /\ q <= r
    BY <1>2, <2>0, DivType
  <2> HIDE DEF q
  <2> QED BY <1>2, <2>1 DEF q
<1>5. gas \in Nat /\ gas <= r
  <2> HIDE DEF most, ask, r
  <2>1. gas = IF ask < most THEN ask ELSE most
    OBVIOUS
  <2> QED BY <1>2, <1>3, <1>10, <2>1
<1> HIDE DEF most, ask
<1> HIDE DEF gas, v
<1>6. IsFrame(h) /\ Only(h, f, {"charge", "out"}) /\ h.charge = f.charge + gas /\ h.out = "Ok"
  <2>1. gas \in Int
    BY <1>5
  <2> QED BY <1>1, <1>5, <2>1, PayFacts DEF r
<1>7. Going(h)
  <2>1. h.spent = f.spent /\ h.limit = f.limit
    BY <1>6 DEF Only, Fields
  <2> QED BY <1>1, <1>2, <1>5, <1>6, <2>1 DEF Going, Solvent, Remaining
<1> HIDE DEF h
<1>8. Only(k, h, {"lent"}) /\ k.lent = gas + (IF v THEN 2300 ELSE 0)
  BY <1>6 DEF IsFrame, Shape, Only, Fields
<1> HIDE DEF k
<1>9. Moves(k, h, {"lent"}) /\ Going(k)
  <2>1. k.lent \in Nat
    BY <1>5, <1>8
  <2>2. \A y \in {"lent"} : k[y] \in TypeOf(y)
    BY <2>1, TypeIs
  <2> QED BY <1>7, <1>8, <2>2, SetMoves
<1>11. Only(k, f, {"charge", "out", "lent"})
  BY <1>6, <1>8 DEF Only
<1>12. k.charge = f.charge + gas /\ f.charge <= k.charge
  <2>1. k.charge = h.charge
    BY <1>8 DEF Only, Fields
  <2> QED BY <1>1, <1>5, <1>6, <2>1
<1>13. Moves(k, f, {"charge", "out", "lent"})
  BY <1>9, <1>11, <1>12 DEF Moves
<1>14. k.lent = k.charge - f.charge + (IF v THEN 2300 ELSE 0)
  BY <1>1, <1>5, <1>8, <1>12
<1> QED BY <1>4, <1>9, <1>13, <1>14 DEF Going, v

LEMMA WarmSlotStep ==
  ASSUME NEW f, Going(f), NEW c, NEW op, NEW s, s.do = "warm_slot",
         1 \in 1 .. Len(f.stack), NEW g, g = Do(f, c, op, s)
  PROVE  Moves(g, f, {"charge", "out", "warmKeys"})
<1> DEFINE key == Arg(f, 1)
           h == [f EXCEPT !.warmKeys = @ \cup {key}]
           D == {"charge", "out", "warmKeys"}
<1>1. IsFrame(f) /\ f.warmKeys \subseteq Word
  BY FieldTypes DEF Going
<1>2. key \in Word
  BY <1>1, ArgWord
<1>3. g = IF key \in f.warmKeys THEN f ELSE Pay(h, 2000)
  BY DEF Do
<1> HIDE DEF key
<1>4. Only(h, f, {"warmKeys"}) /\ h.warmKeys = f.warmKeys \cup {key}
  BY <1>1 DEF IsFrame, Shape, Only, Fields
<1> HIDE DEF h
<1>5. h.warmKeys \in SUBSET Word
  BY <1>1, <1>2, <1>4
<1>6. \A y \in {"warmKeys"} : h[y] \in TypeOf(y)
  BY <1>5, TypeIs
<1>7. Moves(h, f, {"warmKeys"}) /\ Going(h)
  BY <1>4, <1>6, SetMoves
<1>8. Moves(Pay(h, 2000), h, {"charge", "out"})
  BY <1>7, PayMoves
<1>9. Moves(h, f, D) /\ Moves(Pay(h, 2000), h, D) /\ Moves(f, f, D)
  BY <1>7, <1>8, MovesMore, GoingMoves
<1>10. Moves(Pay(h, 2000), f, D)
  BY <1>1, <1>9, MovesOn
<1> QED BY <1>3, <1>9, <1>10

LEMMA SstoreStep ==
  ASSUME NEW f, Going(f), NEW key \in Word, NEW val \in Word, NEW g, g = Sstore(f, key, val)
  PROVE  Moves(g, f, {"charge", "out", "keys", "gain", "slot"}) /\ g.keys \in {f.keys, {key}}
<1> DEFINE new == key \notin f.warmKeys
           x == SstoreGas(val, f.slot[key], Org[key]) + (IF new THEN 2100 ELSE 0)
           y == SstoreRefund(val, f.slot[key], Org[key])
           p == [f EXCEPT !.keys = IF new THEN {key} ELSE @]
           q == Pay(p, x)
           t == [q EXCEPT !.gain = @ + y, !.slot[key] = val]
           D == {"charge", "out", "keys", "gain", "slot"}
<1>1. IsFrame(f) /\ f.keys \subseteq Word
  BY FieldTypes DEF Going
<1>2. x \in Nat /\ y \in Int
  BY DEF SstoreGas, SstoreRefund
<1>3. g = IF q.out # "Ok" THEN q ELSE t
  BY DEF Sstore
<1> HIDE DEF x, y, new
<1>4. Only(p, f, {"keys"}) /\ p.keys = IF new THEN {key} ELSE f.keys
  BY <1>1 DEF IsFrame, Shape, Only, Fields
<1> HIDE DEF p
<1>5. p.keys \in SUBSET Word /\ p.keys \in {f.keys, {key}}
  BY <1>1, <1>4
<1>6. \A z \in {"keys"} : p[z] \in TypeOf(z)
  BY <1>5, TypeIs
<1>7. Moves(p, f, {"keys"}) /\ Going(p)
  BY <1>4, <1>6, SetMoves
<1>8. Moves(q, p, {"charge", "out"}) /\ (q.out = "Ok" => Going(q))
  BY <1>2, <1>7, PayMoves
<1> HIDE DEF q
<1>9. Moves(p, f, D) /\ Moves(q, p, D)
  BY <1>7, <1>8, MovesMore
<1>10. Moves(q, f, D) /\ q.keys = p.keys
  <2>1. Moves(q, f, D)
    BY <1>1, <1>9, MovesOn
  <2>2. q.keys = p.keys
    BY <1>8 DEF Moves, Only, Fields
  <2> QED BY <2>1, <2>2
<1>11. CASE q.out # "Ok"
  BY <1>3, <1>5, <1>10, <1>11
<1>12. CASE q.out = "Ok"
  <2>1. Going(q) /\ IsFrame(q) /\ q.gain \in Int /\ q.slot \in [Word -> Word]
    BY <1>8, <1>12, FieldTypes DEF Going
  <2>2. Only(t, q, {"gain", "slot"}) /\ t.gain = q.gain + y /\ t.slot = [q.slot EXCEPT ![key] = val]
        /\ t.keys = q.keys
    BY <2>1 DEF IsFrame, Shape, Only, Fields
  <2> HIDE DEF t
  <2>3. t.gain \in Int /\ t.slot \in [Word -> Word]
    BY <1>2, <2>1, <2>2
  <2>4. \A z \in {"gain", "slot"} : t[z] \in TypeOf(z)
    BY <2>3, TypeIs
  <2>5. Moves(t, q, {"gain", "slot"})
    BY <2>1, <2>2, <2>4, SetMoves
  <2>6. Moves(t, q, D)
    BY <2>5, MovesMore
  <2>7. Moves(t, f, D)
    BY <1>1, <1>10, <2>6, MovesOn
  <2> QED BY <1>3, <1>5, <1>10, <1>12, <2>2, <2>7
<1> QED BY <1>11, <1>12

LEMMA SstoreIs ==
  ASSUME NEW f, Going(f), NEW c, NEW op, NEW s, s.do = "sstore",
         \A i \in Reads(s) : i \in 1 .. Len(f.stack), NEW g, g = Do(f, c, op, s)
  PROVE  Moves(g, f, {"charge", "out", "keys", "gain", "slot"}) /\ \E key \in Word : g.keys \in {f.keys, {key}}
<1>1. 1 \in 1 .. Len(f.stack) /\ 2 \in 1 .. Len(f.stack)
  BY DEF Reads
<1>2. Arg(f, 1) \in Word /\ Arg(f, 2) \in Word
  BY <1>1, ArgWord DEF Going
<1>3. g = Sstore(f, Arg(f, 1), Arg(f, 2))
  BY DEF Do
<1> QED BY <1>2, <1>3, SstoreStep

LEMMA TstoreStep ==
  ASSUME NEW f, Going(f), NEW c, NEW op, NEW s, s.do = "tstore",
         \A i \in Reads(s) : i \in 1 .. Len(f.stack), NEW g, g = Do(f, c, op, s)
  PROVE  Moves(g, f, {"temp"}) /\ g.out = "Ok"
<1> DEFINE key == Arg(f, 1)
           val == Arg(f, 2)
           h == [f EXCEPT !.temp[key] = val]
<1>1. IsFrame(f) /\ f.temp \in [Word -> Word]
  BY FieldTypes DEF Going
<1>2. 1 \in 1 .. Len(f.stack) /\ 2 \in 1 .. Len(f.stack)
  BY DEF Reads
<1>3. key \in Word /\ val \in Word
  BY <1>1, <1>2, ArgWord
<1>4. g = h
  BY DEF Do
<1> HIDE DEF key, val
<1>5. Only(h, f, {"temp"}) /\ h.temp = [f.temp EXCEPT ![key] = val]
  BY <1>1 DEF IsFrame, Shape, Only, Fields
<1> HIDE DEF h
<1>6. h.temp \in [Word -> Word]
  BY <1>1, <1>3, <1>5
<1>7. \A y \in {"temp"} : h[y] \in TypeOf(y)
  BY <1>6, TypeIs
<1>8. Moves(h, f, {"temp"}) /\ Going(h)
  BY <1>5, <1>7, SetMoves
<1> QED BY <1>4, <1>8 DEF Going

LEMMA LogStep ==
  ASSUME NEW f, Going(f), NEW c, NEW op, NEW s, s.do = "log", Parameters(s), NEW g, g = Do(f, c, op, s)
  PROVE  Moves(g, f, {"pops", "logs"}) /\ g.pops = s.n + 2
<1> DEFINE h == [f EXCEPT !.pops = s.n + 2, !.logs = @ + 1]
<1>1. IsFrame(f) /\ f.logs \in Nat /\ s.n \in Nat
  BY FieldTypes DEF Going, Parameters
<1>2. g = h
  BY DEF Do
<1>3. Only(h, f, {"pops", "logs"}) /\ h.pops = s.n + 2 /\ h.logs = f.logs + 1
  BY <1>1 DEF IsFrame, Shape, Only, Fields
<1> HIDE DEF h
<1>4. h.pops \in Nat /\ h.logs \in Nat
  BY <1>1, <1>3
<1>5. \A y \in {"pops", "logs"} : h[y] \in TypeOf(y)
  BY <1>4, TypeIs
<1>6. Moves(h, f, {"pops", "logs"})
  BY <1>3, <1>5, SetMoves
<1> QED BY <1>2, <1>3, <1>6

LEMMA PcMoves ==
  ASSUME NEW f, Going(f), NEW x \in Nat
  PROVE  Moves([f EXCEPT !.pc = x], f, {"pc"})
<1> DEFINE h == [f EXCEPT !.pc = x]
<1>1. Only(h, f, {"pc"}) /\ h.pc = x
  BY DEF Going, IsFrame, Shape, Only, Fields
<1> HIDE DEF h
<1>2. \A y \in {"pc"} : h[y] \in TypeOf(y)
  BY <1>1, TypeIs
<1>3. Moves(h, f, {"pc"})
  BY <1>1, <1>2, SetMoves
<1> QED BY <1>3 DEF h

LEMMA JumpStep ==
  ASSUME NEW f, Going(f), NEW c, NEW op, At(f, c, op), NEW s, s.do \in {"jump", "jumpi", "skip"},
         \A i \in Reads(s) : i \in 1 .. Len(f.stack), NEW g, g = Do(f, c, op, s)
  PROVE  Moves(g, f, {"pc", "out"})
<1>1. IsFrame(f) /\ f.pc \in Nat /\ f.pc + 1 \in Nat
  BY FieldTypes DEF Going
<1>2. ASSUME s.do # "skip" PROVE Moves(Target(f, c, 1), f, {"pc", "out"})
  <2> DEFINE d == AsUsize(Arg(f, 1))
  <2>1. 1 \in Reads(s)
    BY <1>2 DEF Reads
  <2>2. d \in Nat
    BY <1>1, <2>1, ArgWord
  <2>3. Target(f, c, 1) = [f EXCEPT !.pc = d] \/ Target(f, c, 1) = Halt(f, "BadJump")
    BY DEF Target
  <2> HIDE DEF d
  <2>4. "BadJump" \in Outs \ {"Fetch", "Call"}
    BY DEF Outs
  <2>5. Moves(Halt(f, "BadJump"), f, {"pc", "out"})
    BY <2>4, HaltMoves, MovesMore
  <2>6. Moves([f EXCEPT !.pc = d], f, {"pc"})
    BY <2>2, PcMoves
  <2>7. Moves([f EXCEPT !.pc = d], f, {"pc", "out"})
    BY <2>6, MovesMore
  <2> QED BY <2>3, <2>5, <2>7
<1>3. CASE s.do = "jump"
  <2>1. g = Target(f, c, 1)
    BY <1>3 DEF Do
  <2> QED BY <1>2, <1>3, <2>1
<1>4. CASE s.do = "jumpi"
  <2>1. g = Target(f, c, 1) \/ g = [f EXCEPT !.pc = f.pc + 1]
    BY <1>4 DEF Do
  <2>2. Moves([f EXCEPT !.pc = f.pc + 1], f, {"pc"})
    BY <1>1, PcMoves
  <2>3. Moves([f EXCEPT !.pc = f.pc + 1], f, {"pc", "out"})
    BY <2>2, MovesMore
  <2> QED BY <1>2, <1>4, <2>1, <2>3
<1>5. CASE s.do = "skip"
  <2>1. g = [f EXCEPT !.pc = f.pc + c[f.pc + 1].n]
    BY <1>5 DEF Do
  <2>2. f.pc + c[f.pc + 1].n \in Nat
    BY <1>1, AtFacts
  <2>3. Moves([f EXCEPT !.pc = f.pc + c[f.pc + 1].n], f, {"pc"})
    BY <2>2, PcMoves
  <2>4. Moves([f EXCEPT !.pc = f.pc + c[f.pc + 1].n], f, {"pc", "out"})
    BY <2>3, MovesMore
  <2> QED BY <2>1, <2>4
<1> QED BY <1>3, <1>4, <1>5

LEMMA SwapStep ==
  ASSUME NEW f, Going(f), NEW c, NEW op, At(f, c, "SWAP"), NEW s, s.do = "swap", NEW g, g = Do(f, c, op, s)
  PROVE  Moves(g, f, {"stack", "out"}) /\ Len(g.stack) = Len(f.stack)
<1> DEFINE n == c[f.pc + 1].n
           l == Len(f.stack)
           t == [f.stack EXCEPT ![l] = f.stack[l - n], ![l - n] = f.stack[l]]
           h == [f EXCEPT !.stack = t]
<1>1. IsFrame(f) /\ f.stack \in Seq(Word) /\ l \in Nat /\ n \in Nat /\ n >= 1
  BY FieldTypes, LengthType, AtFacts DEF Going
<1>2. g = IF l <= n THEN Halt(f, "StackUnderflow") ELSE h
  BY DEF Do
<1> HIDE DEF n
<1>3. CASE l <= n
  <2>1. "StackUnderflow" \in Outs \ {"Fetch", "Call"}
    BY DEF Outs
  <2>2. g = Halt(f, "StackUnderflow")
    BY <1>2, <1>3
  <2>3. Moves(g, f, {"out"})
    BY <2>1, <2>2, HaltMoves
  <2>4. g.stack = f.stack
    BY <2>3 DEF Moves, Only, Fields
  <2> QED BY <2>3, <2>4, MovesMore
<1>4. CASE ~ l <= n
  <2>1. l \in 1 .. Len(f.stack) /\ l - n \in 1 .. Len(f.stack)
    BY <1>1, <1>4
  <2>2. t \in Seq(Word) /\ Len(t) = Len(f.stack)
    BY <1>1, <2>1
  <2> HIDE DEF t, l
  <2>3. Only(h, f, {"stack"}) /\ h.stack = t
    BY <1>1 DEF IsFrame, Shape, Only, Fields
  <2> HIDE DEF h
  <2>4. \A y \in {"stack"} : h[y] \in TypeOf(y)
    BY <2>2, <2>3, TypeIs
  <2>5. Moves(h, f, {"stack"})
    BY <2>3, <2>4, SetMoves
  <2>6. g = h
    BY <1>2, <1>4
  <2> QED BY <2>2, <2>3, <2>5, <2>6, MovesMore
<1> QED BY <1>3, <1>4

LEMMA BequeathStep ==
  ASSUME NEW f, Going(f), NEW heir \in Acct, NEW g, g = Bequeath(f, heir)
  PROVE  Moves(g, f, {"charge", "out", "bal", "gone"})
<1> DEFINE moves == f.bal[This] # 0 /\ heir # This
           q == IF moves /\ IsEmpty(f, heir) THEN Pay(f, 25000) ELSE f
           b == [q.bal EXCEPT ![heir] = q.bal[heir] + q.bal[This]]
           e == [b EXCEPT ![This] = 0]
           k == [q EXCEPT !.bal[heir] = @ + q.bal[This], !.bal[This] = 0]
           h == IF moves THEN k ELSE q
           t == [h EXCEPT !.gone = f.born]
           D == {"charge", "out", "bal", "gone"}
<1>1. IsFrame(f) /\ f.born \in BOOLEAN /\ f.bal \in [Acct -> Nat] /\ This \in Acct
  BY FieldTypes, MachineAssumption DEF Going
<1>2. g = IF q.out = "Ok" THEN t ELSE q
  BY DEF Bequeath
<1>3. Moves(q, f, {"charge", "out"}) /\ (q.out = "Ok" => Going(q))
  <2>1. Moves(f, f, {"charge", "out"})
    BY GoingMoves
  <2>2. Moves(Pay(f, 25000), f, {"charge", "out"})
        /\ (Pay(f, 25000).out = "Ok" => Going(Pay(f, 25000)))
    BY PayMoves
  <2> QED BY <2>1, <2>2
<1>4. Moves(q, f, D)
  BY <1>3, MovesMore
<1> HIDE DEF q, moves
<1>5. CASE q.out # "Ok"
  BY <1>2, <1>4, <1>5
<1>6. CASE q.out = "Ok"
  <2>1. Going(q) /\ IsFrame(q) /\ q.bal \in [Acct -> Nat] /\ q.bal[heir] + q.bal[This] \in Nat
    BY <1>1, <1>3, <1>6, FieldTypes DEF Going
  <2>2. Only(k, q, {"bal"}) /\ k.bal = e
    BY <2>1 DEF IsFrame, Shape, Only, Fields
  <2>3. e \in [Acct -> Nat]
    BY <1>1, <2>1
  <2> HIDE DEF k, e
  <2>4. \A y \in {"bal"} : k[y] \in TypeOf(y)
    BY <2>2, <2>3, TypeIs
  <2>5. Moves(k, q, {"bal"}) /\ Going(k)
    BY <2>1, <2>2, <2>4, SetMoves
  <2>6. Moves(q, q, {"bal"})
    BY <2>1, GoingMoves
  <2>7. Moves(h, q, {"bal"}) /\ Going(h)
    BY <2>1, <2>5, <2>6
  <2> HIDE DEF h
  <2>8. Only(t, h, {"gone"}) /\ t.gone = f.born
    BY <2>7 DEF Going, IsFrame, Shape, Only, Fields
  <2> HIDE DEF t
  <2>9. \A y \in {"gone"} : t[y] \in TypeOf(y)
    BY <1>1, <2>8, TypeIs
  <2>10. Moves(t, h, {"gone"})
    BY <2>7, <2>8, <2>9, SetMoves
  <2>11. Moves(h, q, D) /\ Moves(t, h, D)
    BY <2>7, <2>10, MovesMore
  <2>12. Moves(h, f, D)
    BY <1>1, <1>4, <2>11, MovesOn
  <2>13. Moves(t, f, D)
    BY <1>1, <2>11, <2>12, MovesOn
  <2> QED BY <1>2, <1>6, <2>13
<1> QED BY <1>5, <1>6

LEMMA BequeathIs ==
  ASSUME NEW f, Going(f), NEW c, NEW op, NEW s, s.do = "bequeath",
         \A i \in Reads(s) : i \in 1 .. Len(f.stack), NEW g, g = Do(f, c, op, s)
  PROVE  Moves(g, f, {"charge", "out", "bal", "gone"})
<1>1. 1 \in 1 .. Len(f.stack)
  BY DEF Reads
<1>2. Addr(Arg(f, 1)) \in Acct
  BY <1>1, ArgWord, AddrAcct DEF Going
<1>3. g = Bequeath(f, Addr(Arg(f, 1)))
  BY DEF Do
<1> QED BY <1>2, <1>3, BequeathStep

\* What a step of a legal program finds.
Ready(f, c, op, s) ==
  /\ Going(f) /\ MemoryFits(f) /\ At(f, c, op) /\ Parameters(s)
  /\ \A i \in Reads(s) : i \in 1 .. Len(f.stack)
  /\ s.do = "push" /\ s.what = "alu" =>
       op \in ArithOps /\ f.pops = Arity(op) /\ f.pops <= Len(f.stack)
  /\ s.do = "push" /\ s.what = "data" => op = "PUSH"
  /\ s.do = "dup" => op = "DUP"
  /\ s.do = "swap" => op = "SWAP"

\* A step keeps the frame a frame, within what it touches and its gas; it fetches,
\* or suspends the frame, only if it is a step that does.
Sound(g, f, s) ==
  /\ IsFrame(g) /\ Only(g, f, Touches(s.do)) /\ Solvent(g) /\ f.charge <= g.charge
  /\ g.out = "Fetch" => s.do \in Fetchers
  /\ g.out = "Call" => s.do = "yield" /\ s.how = "Call"

LEMMA MovesSound ==
  ASSUME NEW f, NEW g, NEW s, Moves(g, f, Touches(s.do))
  PROVE  Sound(g, f, s)
BY DEF Moves, Sound

LEMMA DoSound ==
  ASSUME NEW f, NEW c, NEW op, NEW s, Ready(f, c, op, s), NEW g, g = Do(f, c, op, s)
  PROVE  Sound(g, f, s)
<1>0. /\ Going(f) /\ MemoryFits(f) /\ At(f, c, op) /\ Parameters(s)
      /\ \A i \in Reads(s) : i \in 1 .. Len(f.stack)
      /\ s.do \in Steps
  BY DEF Ready, Parameters
<1>1. CASE s.do \in Payers
  <2>1. Moves(g, f, {"charge", "out"})
    BY <1>0, <1>1, PayStep
  <2>2. Touches(s.do) = {"charge", "out"}
    BY <1>1 DEF Touches, Checks, Payers, Fetchers, Pushers, Growers, Warmers
  <2> QED BY <2>1, <2>2, MovesSound
<1>2. CASE s.do \in Checks
  <2>1. /\ IsFrame(g) /\ Only(g, f, {"out"}) /\ Solvent(g) /\ f.charge <= g.charge
        /\ g.out # "Fetch" /\ (g.out = "Call" => s.do = "yield" /\ s.how = "Call")
    BY <1>0, <1>2, CheckStep
  <2>2. Touches(s.do) = {"out"}
    BY <1>2 DEF Touches, Checks, Payers, Fetchers, Pushers, Growers, Warmers
  <2> QED BY <2>1, <2>2 DEF Sound
<1>3. CASE s.do \in Fetchers
  <2>1. /\ IsFrame(g) /\ Only(g, f, {"out", "want"}) /\ Solvent(g) /\ f.charge <= g.charge
        /\ g.out \in {"Ok", "Fetch"}
    BY <1>0, <1>3, FetchStep
  <2>2. Touches(s.do) = {"out", "want"}
    BY <1>3 DEF Touches, Checks, Payers, Fetchers, Pushers, Growers, Warmers
  <2> QED BY <1>3, <2>1, <2>2 DEF Sound
<1>4. CASE s.do \in Pushers
  <2>1. Moves(g, f, {"push", "out"})
    BY <1>0, <1>4, PushStep DEF Ready
  <2>2. Touches(s.do) = {"push", "out"}
    BY <1>4 DEF Touches, Checks, Payers, Fetchers, Pushers, Growers, Warmers
  <2> QED BY <2>1, <2>2, MovesSound
<1>5. CASE s.do \in Growers
  <2>1. Moves(g, f, {"charge", "out", "mem", "owed"})
    BY <1>0, <1>5, GrowStep
  <2>2. Touches(s.do) = {"charge", "out", "mem", "owed"}
    BY <1>5 DEF Touches, Checks, Payers, Fetchers, Pushers, Growers, Warmers
  <2> QED BY <2>1, <2>2, MovesSound
<1>6. CASE s.do \in Warmers
  <2>1. Moves(g, f, {"charge", "out", "accs", "cold"})
    BY <1>0, <1>6, WarmStep DEF Warmed
  <2>2. Touches(s.do) = {"charge", "out", "accs", "cold"}
    BY <1>6 DEF Touches, Checks, Payers, Fetchers, Pushers, Growers, Warmers
  <2> QED BY <2>1, <2>2, MovesSound
<1> USE DEF Checks, Payers, Fetchers, Pushers, Growers, Warmers
<1>7. CASE s.do \in {"jump", "jumpi", "skip"}
  <2>1. Moves(g, f, {"pc", "out"})
    BY <1>0, <1>7, JumpStep
  <2>2. Touches(s.do) = {"pc", "out"}
    BY <1>7 DEF Touches
  <2> QED BY <2>1, <2>2, MovesSound
<1>8. CASE s.do = "peek"
  <2>1. Moves(g, f, {"pops", "out"})
    BY <1>0, <1>8, PeekStep
  <2>2. Touches(s.do) = {"pops", "out"}
    BY <1>8 DEF Touches
  <2> QED BY <2>1, <2>2, MovesSound
<1>9. CASE s.do = "swap"
  <2>0. At(f, c, "SWAP")
    BY <1>0, <1>9 DEF Ready
  <2>1. Moves(g, f, {"stack", "out"})
    BY <1>0, <1>9, <2>0, SwapStep
  <2>2. Touches(s.do) = {"stack", "out"}
    BY <1>9 DEF Touches
  <2> QED BY <2>1, <2>2, MovesSound
<1>10. CASE s.do = "log"
  <2>1. Moves(g, f, {"pops", "logs"})
    BY <1>0, <1>10, LogStep
  <2>2. Touches(s.do) = {"pops", "logs"}
    BY <1>10 DEF Touches
  <2> QED BY <2>1, <2>2, MovesSound
<1>11. CASE s.do = "warm_slot"
  <2>0. 1 \in 1 .. Len(f.stack)
    BY <1>0, <1>11 DEF Reads
  <2>1. Moves(g, f, {"charge", "out", "warmKeys"})
    BY <1>0, <1>11, <2>0, WarmSlotStep
  <2>2. Touches(s.do) = {"charge", "out", "warmKeys"}
    BY <1>11 DEF Touches
  <2> QED BY <2>1, <2>2, MovesSound
<1>12. CASE s.do = "sstore"
  <2>1. Moves(g, f, {"charge", "out", "keys", "gain", "slot"})
    BY <1>0, <1>12, SstoreIs
  <2>2. Touches(s.do) = {"charge", "out", "keys", "gain", "slot"}
    BY <1>12 DEF Touches
  <2> QED BY <2>1, <2>2, MovesSound
<1>13. CASE s.do = "tstore"
  <2>1. Moves(g, f, {"temp"})
    BY <1>0, <1>13, TstoreStep
  <2>2. Touches(s.do) = {"temp"}
    BY <1>13 DEF Touches
  <2> QED BY <2>1, <2>2, MovesSound
<1>14. CASE s.do = "bequeath"
  <2>1. Moves(g, f, {"charge", "out", "bal", "gone"})
    BY <1>0, <1>14, BequeathIs
  <2>2. Touches(s.do) = {"charge", "out", "bal", "gone"}
    BY <1>14 DEF Touches
  <2> QED BY <2>1, <2>2, MovesSound
<1>15. CASE s.do = "lend"
  <2>1. Moves(g, f, {"charge", "out", "lent"})
    BY <1>0, <1>15, LendStep
  <2>2. Touches(s.do) = {"charge", "out", "lent"}
    BY <1>15 DEF Touches
  <2> QED BY <2>1, <2>2, MovesSound
<1> HIDE DEF Checks, Payers, Fetchers, Pushers, Growers, Warmers
<1> QED BY <1>0, <1>1, <1>2, <1>3, <1>4, <1>5, <1>6, <1>7, <1>8, <1>9, <1>10, <1>11, <1>12, <1>13,
           <1>14, <1>15 DEF Steps, Changers, Lasts

----------------------------------------------------------------------------
(* A handler runs its program step by step.                                *)

Then(f, c, op, s) == IF f.out = "Ok" THEN Do(f, c, op, s) ELSE f

\* h is the frame after each step of p.
Course(h, f, c, op, p) ==
  h[0] = f /\ \A k \in 1 .. Len(p) : h[k] = Then(h[k - 1], c, op, p[k])

LEMMA OneOf ==
  ASSUME NEW x, NEW c, NEW op, NEW s
  PROVE  (CHOOSE r \in {IF g.out = "Ok" THEN Do(g, c, op, s) ELSE g : g \in {x}} : TRUE)
           = Then(x, c, op, s)
<1>1. {IF g.out = "Ok" THEN Do(g, c, op, s) ELSE g : g \in {x}} = {Then(x, c, op, s)}
  BY DEF Then
<1>2. \A v : (CHOOSE r \in {v} : TRUE) = v
  OBVIOUS
<1> QED BY <1>1, <1>2

\* What the definition of Handle makes of h, the frames so far, at step k.
Entry(h, k, f, c, op, p) ==
  IF k = 0 THEN f
  ELSE CHOOSE r \in {IF g.out = "Ok" THEN Do(g, c, op, p[k]) ELSE g : g \in {h[k - 1]}} : TRUE

Entries(h, n, f, c, op, p) == h = [k \in 0 .. n |-> Entry(h, k, f, c, op, p)]

LEMMA FirstEntry ==
  ASSUME NEW f, NEW c, NEW op, NEW p, NEW h
  PROVE  Entry(h, 0, f, c, op, p) = f
BY DEF Entry

LEMMA NextEntry ==
  ASSUME NEW f, NEW c, NEW op, NEW p, NEW h, NEW k, k # 0
  PROVE  Entry(h, k, f, c, op, p) = Then(h[k - 1], c, op, p[k])
BY OneOf DEF Entry

\* The definition of Handle is one: there are such frames, for every length.
LEMMA EntriesExist ==
  ASSUME NEW f, NEW c, NEW op, NEW p
  PROVE  \A n \in Nat : \E h : Entries(h, n, f, c, op, p)
<1> DEFINE E(h, k) == Entry(h, k, f, c, op, p)
           T(x, k) == Then(x, c, op, p[k])
           Has(n) == \E h : Entries(h, n, f, c, op, p)
           Bad == {n \in Nat : ~Has(n)}
<1>1. \A h : E(h, 0) = f /\ \A k : k # 0 => E(h, k) = T(h[k - 1], k)
  <2> TAKE h
  <2>1. E(h, 0) = f
    BY FirstEntry
  <2>2. ASSUME NEW k, k # 0 PROVE E(h, k) = T(h[k - 1], k)
    BY <2>2, NextEntry
  <2> QED BY <2>1, <2>2
<1>2. \A h, n : Entries(h, n, f, c, op, p) <=> h = [k \in 0 .. n |-> E(h, k)]
  BY DEF Entries
<1> HIDE DEF Has
<1>3. Bad \subseteq Nat /\ \A n \in Nat : n \notin Bad => Has(n)
  OBVIOUS
<1>4. \A n \in Bad : ~Has(n)
  OBVIOUS
<1> USE DEF Has
<1> HIDE DEF E, T, Bad
<1>5. SUFFICES ASSUME Bad # {} PROVE FALSE
  BY <1>3
<1>6. PICK n \in Bad : \A m \in Bad : n <= m
  BY <1>3, <1>5, LeastExists
<1>7. n # 0
  <2> DEFINE h == [k \in 0 .. 0 |-> f]
  <2>1. \A k \in 0 .. 0 : E(h, k) = f
    BY <1>1
  <2>2. h = [k \in 0 .. 0 |-> E(h, k)]
    BY <2>1
  <2> HIDE DEF h
  <2> QED BY <1>2, <1>4, <1>6, <2>2
<1>8. n \in Nat /\ n - 1 \in Nat /\ ~ n <= n - 1
  BY <1>3, <1>6, <1>7
<1>9. n - 1 \notin Bad
  BY <1>6, <1>8
<1>10. PICK h : h = [k \in 0 .. n - 1 |-> E(h, k)]
  BY <1>2, <1>3, <1>8, <1>9
<1> DEFINE q == [k \in 0 .. n |-> IF k = n THEN T(h[n - 1], n) ELSE h[k]]
<1>11. q[n] = T(h[n - 1], n) /\ q[n - 1] = h[n - 1] /\ \A k \in 0 .. n - 1 : q[k] = h[k]
  BY <1>8
<1>12. \A k \in 0 .. n : k = n \/ (k \in 0 .. n - 1 /\ (k # 0 => k - 1 \in 0 .. n - 1))
  BY <1>8
<1>13. q = [k \in 0 .. n |-> q[k]]
  OBVIOUS
<1> HIDE DEF q
<1>14. \A k \in 0 .. n - 1 : h[k] = E(h, k)
  BY <1>10
<1>15. \A k \in 0 .. n : q[k] = E(q, k)
  <2> SUFFICES ASSUME NEW k \in 0 .. n PROVE q[k] = E(q, k)
    OBVIOUS
  <2>1. CASE k = n
    BY <1>1, <1>7, <1>11, <2>1
  <2>2. CASE k # n /\ k = 0
    BY <1>1, <1>11, <1>12, <1>14, <2>2
  <2>3. CASE k # n /\ k # 0
    <3>1. q[k] = h[k] /\ q[k - 1] = h[k - 1] /\ h[k] = E(h, k)
      BY <1>11, <1>12, <1>14, <2>3
    <3> QED BY <1>1, <2>3, <3>1
  <2> QED BY <2>1, <2>2, <2>3
<1>16. q = [k \in 0 .. n |-> E(q, k)]
  BY <1>13, <1>15
<1> QED BY <1>2, <1>4, <1>6, <1>16

LEMMA HandleCourse ==
  ASSUME NEW f, NEW c, NEW op, NEW p,
         op = c[f.pc + 1].op, p = Dispatch(op, c[f.pc + 1].n), Len(p) \in Nat
  PROVE  \E h : Course(h, f, c, op, p) /\ Handle(f, c) = h[Len(p)]
<1> DEFINE h == CHOOSE x : Entries(x, Len(p), f, c, op, p)
<1>1. Handle(f, c) = h[Len(p)]
  BY DEF Handle, Entries, Entry
<1>2. Entries(h, Len(p), f, c, op, p)
  BY EntriesExist
<1> HIDE DEF h
<1>3. \A k \in 0 .. Len(p) : h[k] = Entry(h, k, f, c, op, p)
  BY <1>2 DEF Entries
<1>4. Course(h, f, c, op, p)
  <2>1. 0 \in 0 .. Len(p) /\ \A k \in 1 .. Len(p) : k \in 0 .. Len(p) /\ k # 0
    OBVIOUS
  <2> QED BY <1>3, <2>1, FirstEntry, NextEntry DEF Course
<1> QED BY <1>1, <1>4

----------------------------------------------------------------------------
(* In the middle of an instruction: what holds of the frame g that the     *)
(* first k steps of the program p have made of f.                          *)

\* What no step touches.
Kept == {"limit", "static", "born", "known", "paid", "colds", "warm", "spent", "refund",
         "ret", "target"}

\* A frame between two instructions, at an instruction op of the code c.
Started(f, c, op) ==
  /\ IsFrame(f) /\ Clean(f) /\ f.out = "Ok" /\ f.lent = 0
  /\ MemoryFits(f) /\ f.paid = Cost(f.mem)
  /\ f.spent <= f.limit /\ Len(f.stack) <= StackLimit
  /\ At(f, c, op)

Base(g, f) == IsFrame(g) /\ Only(g, f, Fields \ Kept) /\ Solvent(g)

FromStart(g, f, p, k) ==
  /\ Len(g.stack) = Len(f.stack)
  /\ ~Past(p, k, Lasts) => g.stack = f.stack /\ g.pc = f.pc

Operands(g, f, p, k) ==
  g.out = "Ok" => \A j \in 1 .. k : p[j].do \in Readers => p[j].n <= Len(f.stack)

Counted(g, f, p, k) ==
  /\ g.pops <= Len(f.stack) /\ Len(f.stack) - g.pops + Len(g.push) <= StackLimit
  /\ ~Past(p, k, Pushers) => g.push = <<>>
  /\ g.out = "Ok" /\ ~Past(p, k, {"log"}) => \A j \in 1 .. k : p[j].do = "peek" => g.pops = p[j].n

PaidFor(g, f) == MemoryFits(g) /\ f.mem <= g.mem /\ g.paid + g.owed = Cost(g.mem)

\* What is lent is charged, and leads to a call.
Lent(g, f, p, k) ==
  /\ g.lent <= g.charge /\ (~Past(p, k, {"lend"}) => g.lent = 0)
  /\ g.out = "Ok" => \A j \in 1 .. k : p[j].do \in ValueCosts /\ Arg(f, p[j].i) # 0 => g.charge >= 9000
  /\ g.lent # 0 => g.out = "Call" \/ (g.out = "Ok" /\ k < Len(p) /\ p[k].do = "lend" /\ k > 0)

Warmth(g, f, p, k) ==
  /\ ~Past(p, k, Warmers) => g.accs = <<>> /\ g.cold = <<>>
  /\ ~Past(p, k, Warmers \ {"access"}) =>
       /\ Len(g.accs) <= 1 /\ Len(g.cold) <= 1
       /\ g.out = "Ok" => \A j \in 1 .. k : p[j].do = "access" =>
            \A i \in 1 .. Len(g.cold) : g.cold[i] = Addr(Arg(f, p[j].i))
  /\ Len(g.accs) <= 2 /\ Len(g.cold) <= 2
  /\ \A i, j \in 1 .. Len(g.cold) : i # j /\ g.cold[i] = g.cold[j] => OwnDelegate(g.cold[i])
  /\ \A i \in 1 .. Len(g.cold) : g.cold[i] \notin f.warm
  /\ g.out \in {"Ok", "Call"} =>
       \A i \in 1 .. Len(g.cold) : \E j \in 1 .. Len(g.accs) : g.accs[j] = g.cold[i]

OneKey(g) == \E key : g.keys \subseteq {key}

\* A frame that asks for data is as it was, but for what is pending.
Asked(g, f, p, k) ==
  g.out = "Fetch" \/ ~Past(p, k, Changers) => Only(g, f, Pending \cup {"out", "want"})

Fits(f, i, j, mem) == AsUsize(Arg(f, j)) > 0 => AsUsize(Arg(f, i)) + AsUsize(Arg(f, j)) <= mem

Room(g, f, p, k, op) ==
  /\ g.out = "Ok" => \A j \in 1 .. k : p[j].do = "expand" =>
       \A m \in 1 .. Len(p[j].regions) : Fits(f, p[j].regions[m][1], p[j].regions[m][2], g.mem)
  /\ g.out = "Call" /\ RetIndex(op) # 0 =>
       /\ RetIndex(op) + 1 <= Len(f.stack)
       /\ Fits(f, RetIndex(op), RetIndex(op) + 1, g.mem)

Mid(g, f, p, k, op) ==
  /\ Base(g, f) /\ FromStart(g, f, p, k) /\ Operands(g, f, p, k) /\ Counted(g, f, p, k)
  /\ PaidFor(g, f) /\ Lent(g, f, p, k) /\ Warmth(g, f, p, k) /\ OneKey(g)
  /\ Asked(g, f, p, k) /\ Room(g, f, p, k, op)

----------------------------------------------------------------------------

LEMMA OnlyOn ==
  ASSUME NEW f, NEW g, NEW h, NEW D, NEW E, Only(g, f, D), Only(h, g, E), E \subseteq D
  PROVE  Only(h, f, D)
BY DEF Only

LEMMA PastStep ==
  ASSUME NEW p, NEW k \in Nat \ {0}, NEW D
  PROVE  Past(p, k, D) <=> (Past(p, k - 1, D) \/ p[k].do \in D)
<1>1. \A j : j \in 1 .. k <=> (j \in 1 .. k - 1 \/ j = k)
  OBVIOUS
<1> QED BY <1>1 DEF Past

LEMMA TouchesFacts ==
  ASSUME NEW do \in Steps
  PROVE  /\ Touches(do) \subseteq Fields \ Kept
         /\ "stack" \in Touches(do) => do = "swap"
         /\ "pc" \in Touches(do) => do \in {"jump", "jumpi", "skip"}
         /\ "pops" \in Touches(do) => do \in {"peek", "log"}
         /\ "push" \in Touches(do) => do \in Pushers
         /\ "mem" \in Touches(do) => do \in Growers
         /\ "owed" \in Touches(do) => do \in Growers
         /\ "lent" \in Touches(do) => do = "lend"
         /\ "accs" \in Touches(do) => do \in Warmers
         /\ "cold" \in Touches(do) => do \in Warmers
         /\ "keys" \in Touches(do) => do = "sstore"
         /\ do \notin Changers => Touches(do) \subseteq Pending \cup {"out", "want"}
<1> USE DEF Payers, Checks, Fetchers, Pushers, Growers, Warmers, Steps, Changers, Lasts
<1>1. CASE do \in Payers
  <2>1. Touches(do) = {"charge", "out"} BY <1>1 DEF Touches
  <2> QED BY <1>1, <2>1 DEF Fields, Kept, Pending
<1>2. CASE do \in Checks
  <2>1. Touches(do) = {"out"} BY <1>2 DEF Touches
  <2> QED BY <1>2, <2>1 DEF Fields, Kept, Pending
<1>3. CASE do \in Fetchers
  <2>1. Touches(do) = {"out", "want"} BY <1>3 DEF Touches
  <2> QED BY <1>3, <2>1 DEF Fields, Kept, Pending
<1>4. CASE do \in Pushers
  <2>1. Touches(do) = {"push", "out"} BY <1>4 DEF Touches
  <2> QED BY <1>4, <2>1 DEF Fields, Kept, Pending
<1>5. CASE do \in Growers
  <2>1. Touches(do) = {"charge", "out", "mem", "owed"} BY <1>5 DEF Touches
  <2> QED BY <1>5, <2>1 DEF Fields, Kept, Pending
<1>6. CASE do \in Warmers
  <2>1. Touches(do) = {"charge", "out", "accs", "cold"} BY <1>6 DEF Touches
  <2> QED BY <1>6, <2>1 DEF Fields, Kept, Pending
<1>7. CASE do \in {"jump", "jumpi", "skip"}
  <2>1. Touches(do) = {"pc", "out"} BY <1>7 DEF Touches
  <2> QED BY <1>7, <2>1 DEF Fields, Kept, Pending
<1>8. CASE do = "peek"
  <2>1. Touches(do) = {"pops", "out"} BY <1>8 DEF Touches
  <2> QED BY <1>8, <2>1 DEF Fields, Kept, Pending
<1>9. CASE do = "swap"
  <2>1. Touches(do) = {"stack", "out"} BY <1>9 DEF Touches
  <2> QED BY <1>9, <2>1 DEF Fields, Kept, Pending
<1>10. CASE do = "log"
  <2>1. Touches(do) = {"pops", "logs"} BY <1>10 DEF Touches
  <2> QED BY <1>10, <2>1 DEF Fields, Kept, Pending
<1>11. CASE do = "warm_slot"
  <2>1. Touches(do) = {"charge", "out", "warmKeys"} BY <1>11 DEF Touches
  <2> QED BY <1>11, <2>1 DEF Fields, Kept, Pending
<1>12. CASE do = "sstore"
  <2>1. Touches(do) = {"charge", "out", "keys", "gain", "slot"} BY <1>12 DEF Touches
  <2> QED BY <1>12, <2>1 DEF Fields, Kept, Pending
<1>13. CASE do = "tstore"
  <2>1. Touches(do) = {"temp"} BY <1>13 DEF Touches
  <2> QED BY <1>13, <2>1 DEF Fields, Kept, Pending
<1>14. CASE do = "bequeath"
  <2>1. Touches(do) = {"charge", "out", "bal", "gone"} BY <1>14 DEF Touches
  <2> QED BY <1>14, <2>1 DEF Fields, Kept, Pending
<1>15. CASE do = "lend"
  <2>1. Touches(do) = {"charge", "out", "lent"} BY <1>15 DEF Touches
  <2> QED BY <1>15, <2>1 DEF Fields, Kept, Pending
<1> QED BY <1>1, <1>2, <1>3, <1>4, <1>5, <1>6, <1>7, <1>8, <1>9, <1>10, <1>11, <1>12, <1>13,
           <1>14, <1>15

\* What a step leaves alone.
LEMMA StepKeeps ==
  ASSUME NEW g, NEW h, NEW s, Sound(g, h, s), s.do \in Steps
  PROVE  /\ s.do # "swap" => g.stack = h.stack
         /\ s.do \notin {"jump", "jumpi", "skip"} => g.pc = h.pc
         /\ s.do \notin {"peek", "log"} => g.pops = h.pops
         /\ s.do \notin Pushers => g.push = h.push
         /\ s.do \notin Growers => g.mem = h.mem /\ g.owed = h.owed
         /\ s.do # "lend" => g.lent = h.lent
         /\ s.do \notin Warmers => g.accs = h.accs /\ g.cold = h.cold
         /\ s.do # "sstore" => g.keys = h.keys
         /\ g.paid = h.paid /\ g.warm = h.warm /\ g.spent = h.spent
<1> DEFINE T == Touches(s.do)
<1>1. \A x \in Fields : x \notin T => g[x] = h[x]
  BY DEF Sound, Only
<1>2. T \cap Kept = {}
  BY TouchesFacts
<1>3. "stack" \notin T => g.stack = h.stack
  BY <1>1 DEF Fields
<1>4. "pc" \notin T => g.pc = h.pc
  BY <1>1 DEF Fields
<1>5. "pops" \notin T => g.pops = h.pops
  BY <1>1 DEF Fields
<1>6. "push" \notin T => g.push = h.push
  BY <1>1 DEF Fields
<1>7. "mem" \notin T => g.mem = h.mem
  BY <1>1 DEF Fields
<1>8. "owed" \notin T => g.owed = h.owed
  BY <1>1 DEF Fields
<1>9. "lent" \notin T => g.lent = h.lent
  BY <1>1 DEF Fields
<1>10. "accs" \notin T => g.accs = h.accs
  BY <1>1 DEF Fields
<1>11. "cold" \notin T => g.cold = h.cold
  BY <1>1 DEF Fields
<1>12. "keys" \notin T => g.keys = h.keys
  BY <1>1 DEF Fields
<1>13. "paid" \notin T => g.paid = h.paid
  BY <1>1 DEF Fields
<1>14. "warm" \notin T => g.warm = h.warm
  BY <1>1 DEF Fields
<1>15. "spent" \notin T => g.spent = h.spent
  BY <1>1 DEF Fields
<1>20. "paid" \notin T /\ "warm" \notin T /\ "spent" \notin T
  BY <1>2 DEF Kept
<1> QED BY <1>3, <1>4, <1>5, <1>6, <1>7, <1>8, <1>9, <1>10, <1>11, <1>12, <1>13, <1>14, <1>15, <1>20, TouchesFacts

\* The frame h, before step k of the program.
Stepping(h, f, c, op, p, k) ==
  /\ Started(f, c, op) /\ Legal(p, op) /\ Len(p) \in Nat /\ k \in 1 .. Len(p)
  /\ Mid(h, f, p, k - 1, op) /\ h.out = "Ok"

LEMMA NotLast ==
  ASSUME NEW h, NEW f, NEW c, NEW op, NEW p, NEW k, Stepping(h, f, c, op, p, k)
  PROVE  /\ ~Past(p, k - 1, Lasts) /\ ~Past(p, k - 1, {"log"})
         /\ h.stack = f.stack /\ h.pc = f.pc /\ Len(f.stack) \in Nat
         /\ \A i : Arg(h, i) = Arg(f, i)
         /\ IsFrame(f) /\ Going(h) /\ Parameters(p[k]) /\ p[k].do \in Steps /\ k \in Nat \ {0}
<1>1. k \in Nat \ {0} /\ k \in 1 .. Len(p) /\ \A j \in 1 .. k - 1 : j \in 1 .. Len(p) /\ j # Len(p)
  BY DEF Stepping
<1>2. \A j \in 1 .. Len(p) : LegalOrder(p, j) /\ Parameters(p[j])
  BY DEF Stepping, Legal, LegalStep
<1>3. \A j \in 1 .. k - 1 : p[j].do \notin Lasts
  BY <1>1, <1>2 DEF LegalOrder
<1>4. ~Past(p, k - 1, Lasts)
  BY <1>3 DEF Past
<1>5. ~Past(p, k - 1, {"log"})
  BY <1>3 DEF Past, Lasts
<1>6. h.stack = f.stack /\ h.pc = f.pc
  BY <1>4 DEF Stepping, Mid, FromStart
<1>7. IsFrame(f) /\ Going(h)
  BY DEF Stepping, Started, Mid, Base, Going
<1>8. Len(f.stack) \in Nat
  BY <1>7, LengthType
<1>9. \A i : Arg(h, i) = Arg(f, i)
  BY <1>6 DEF Arg
<1>10. Parameters(p[k])
  BY <1>1, <1>2
<1> QED BY <1>1, <1>4, <1>5, <1>6, <1>7, <1>8, <1>9, <1>10 DEF Parameters

LEMMA ReadIsThere ==
  ASSUME NEW h, NEW f, NEW c, NEW op, NEW p, NEW k, Stepping(h, f, c, op, p, k),
         NEW n \in Nat, Read(p, k - 1, n)
  PROVE  n <= Len(f.stack)
<1>1. \A j \in 1 .. k - 1 : p[j].do \in Readers => p[j].n <= Len(f.stack)
  BY DEF Stepping, Mid, Operands
<1>2. PICK j \in 1 .. k - 1 : p[j].do \in Readers /\ n <= p[j].n
  BY DEF Read
<1>3. p[j].n \in Nat
  <2>1. j \in 1 .. Len(p)
    BY DEF Stepping
  <2>2. Parameters(p[j])
    BY <2>1 DEF Stepping, Legal, LegalStep
  <2> QED BY <1>2, <2>2 DEF Parameters, Readers
<1>4. p[j].n <= Len(f.stack)
  BY <1>1, <1>2
<1>5. Len(f.stack) \in Nat
  BY NotLast
<1> QED BY <1>2, <1>3, <1>4, <1>5

\* A legal program finds what its steps need.
LEMMA StepReady ==
  ASSUME NEW h, NEW f, NEW c, NEW op, NEW p, NEW k, Stepping(h, f, c, op, p, k)
  PROVE  Ready(h, c, op, p[k])
<1>1. /\ Going(h) /\ Parameters(p[k]) /\ Len(f.stack) \in Nat /\ h.stack = f.stack /\ h.pc = f.pc
      /\ ~Past(p, k - 1, {"log"})
  BY NotLast
<1>2. MemoryFits(h)
  BY DEF Stepping, Mid, PaidFor
<1>3. At(h, c, op)
  BY <1>1 DEF Stepping, Started, At
<1>4. LegalStep(p, k, op)
  BY DEF Stepping, Legal
<1>5. \A i \in Reads(p[k]) : i \in 1 .. Len(h.stack)
  <2> TAKE i \in Reads(p[k])
  <2>1. i \in Nat /\ i >= 1 /\ Read(p, k - 1, i)
    BY <1>4 DEF LegalStep, LegalReads
  <2>2. i <= Len(f.stack)
    BY <2>1, ReadIsThere
  <2> QED BY <1>1, <2>1, <2>2
<1>6. LegalPush(p, k, op)
  BY <1>4 DEF LegalStep
<1>7. p[k].do = "push" /\ p[k].what = "alu" =>
        op \in ArithOps /\ h.pops = Arity(op) /\ h.pops <= Len(h.stack)
  <2> HAVE p[k].do = "push" /\ p[k].what = "alu"
  <2>1. op \in ArithOps
    BY <1>6 DEF LegalPush
  <2>2. PICK j \in 1 .. k - 1 : p[j].do = "peek" /\ p[j].n = Arity(op)
    BY <1>6 DEF LegalPush
  <2>3. Counted(h, f, p, k - 1) /\ h.out = "Ok"
    BY DEF Stepping, Mid
  <2>4. h.pops = p[j].n /\ h.pops <= Len(f.stack)
    BY <1>1, <2>2, <2>3 DEF Counted
  <2> QED BY <1>1, <2>1, <2>2, <2>4
<1> QED BY <1>1, <1>2, <1>3, <1>5, <1>6, <1>7 DEF Ready, LegalPush

\* Step k, and what a part of the invariant needs to know of it.
StepTo(g, h, f, c, op, p, k) ==
  Stepping(h, f, c, op, p, k) /\ g = Do(h, c, op, p[k])

LEMMA StepSound ==
  ASSUME NEW g, NEW h, NEW f, NEW c, NEW op, NEW p, NEW k, StepTo(g, h, f, c, op, p, k)
  PROVE  /\ Sound(g, h, p[k]) /\ Ready(h, c, op, p[k]) /\ LegalStep(p, k, op)
         /\ \A D : Past(p, k, D) <=> (Past(p, k - 1, D) \/ p[k].do \in D)
<1>1. Stepping(h, f, c, op, p, k) /\ g = Do(h, c, op, p[k])
  BY DEF StepTo
<1>2. Ready(h, c, op, p[k])
  BY <1>1, StepReady
<1>3. Sound(g, h, p[k])
  BY <1>1, <1>2, DoSound
<1>4. LegalStep(p, k, op) /\ k \in Nat \ {0}
  BY <1>1 DEF Stepping, Legal
<1> QED BY <1>2, <1>3, <1>4, PastStep

LEMMA BaseStep ==
  ASSUME NEW g, NEW h, NEW f, NEW c, NEW op, NEW p, NEW k, StepTo(g, h, f, c, op, p, k)
  PROVE  Base(g, f)
<1>1. Sound(g, h, p[k])
  BY StepSound
<1>2. Base(h, f) /\ p[k].do \in Steps
  BY NotLast DEF StepTo, Stepping, Mid
<1>3. Touches(p[k].do) \subseteq Fields \ Kept
  BY <1>2, TouchesFacts
<1>4. Only(g, f, Fields \ Kept)
  BY <1>1, <1>2, <1>3, OnlyOn DEF Base, Sound
<1> QED BY <1>1, <1>4 DEF Base, Sound

LEMMA FromStartStep ==
  ASSUME NEW g, NEW h, NEW f, NEW c, NEW op, NEW p, NEW k, StepTo(g, h, f, c, op, p, k)
  PROVE  FromStart(g, f, p, k)
<1>1. Sound(g, h, p[k]) /\ Ready(h, c, op, p[k]) /\ (Past(p, k, Lasts) <=> (Past(p, k - 1, Lasts) \/ p[k].do \in Lasts))
  BY StepSound
<1>2. h.stack = f.stack /\ h.pc = f.pc /\ p[k].do \in Steps /\ Going(h)
  BY NotLast DEF StepTo
<1>3. p[k].do # "swap" => g.stack = h.stack
  BY <1>1, <1>2, StepKeeps
<1>4. p[k].do \notin {"jump", "jumpi", "skip"} => g.pc = h.pc
  BY <1>1, <1>2, StepKeeps
<1>5. Len(g.stack) = Len(f.stack)
  <2>1. CASE p[k].do = "swap"
    <3>1. At(h, c, "SWAP")
      BY <1>1, <2>1 DEF Ready
    <3>2. g = Do(h, c, op, p[k])
      BY DEF StepTo
    <3> QED BY <1>2, <2>1, <3>1, <3>2, SwapStep
  <2>2. CASE p[k].do # "swap"
    BY <1>2, <1>3, <2>2
  <2> QED BY <2>1, <2>2
<1> QED BY <1>1, <1>2, <1>3, <1>4, <1>5 DEF FromStart, Lasts

LEMMA OperandsStep ==
  ASSUME NEW g, NEW h, NEW f, NEW c, NEW op, NEW p, NEW k, StepTo(g, h, f, c, op, p, k)
  PROVE  Operands(g, f, p, k)
<1>1. SUFFICES ASSUME g.out = "Ok", NEW j \in 1 .. k, p[j].do \in Readers
               PROVE  p[j].n <= Len(f.stack)
  BY DEF Operands
<1>2. Stepping(h, f, c, op, p, k) /\ g = Do(h, c, op, p[k])
  BY DEF StepTo
<1>3. Going(h) /\ Parameters(p[k]) /\ h.stack = f.stack /\ k \in Nat \ {0}
  BY <1>2, NotLast
<1>4. CASE j # k
  <2>1. j \in 1 .. k - 1
    BY <1>3, <1>4
  <2> QED BY <1>1, <1>2, <2>1 DEF Stepping, Mid, Operands
<1>5. CASE j = k /\ p[k].do = "peek"
  BY <1>1, <1>2, <1>3, <1>5, PeekStep
<1>6. CASE j = k /\ p[k].do = "operands"
  <2>1. p[k].do \in Checks
    BY <1>6 DEF Checks
  <2> QED BY <1>1, <1>2, <1>3, <1>6, <2>1, CheckStep
<1> QED BY <1>1, <1>4, <1>5, <1>6 DEF Readers

LEMMA CountedStep ==
  ASSUME NEW g, NEW h, NEW f, NEW c, NEW op, NEW p, NEW k, StepTo(g, h, f, c, op, p, k)
  PROVE  Counted(g, f, p, k)
<1>1. Stepping(h, f, c, op, p, k) /\ g = Do(h, c, op, p[k])
  BY DEF StepTo
<1>2. /\ Going(h) /\ Parameters(p[k]) /\ h.stack = f.stack /\ k \in Nat \ {0} /\ Len(f.stack) \in Nat
      /\ ~Past(p, k - 1, {"log"}) /\ p[k].do \in Steps
  BY <1>1, NotLast
<1>3. /\ Sound(g, h, p[k]) /\ Ready(h, c, op, p[k]) /\ LegalStep(p, k, op)
      /\ Past(p, k, Pushers) <=> (Past(p, k - 1, Pushers) \/ p[k].do \in Pushers)
      /\ Past(p, k, {"log"}) <=> (Past(p, k - 1, {"log"}) \/ p[k].do \in {"log"})
  BY StepSound
<1>4. /\ p[k].do \notin {"peek", "log"} => g.pops = h.pops
      /\ p[k].do \notin Pushers => g.push = h.push
  BY <1>2, <1>3, StepKeeps
<1>5. /\ h.pops <= Len(f.stack) /\ Len(f.stack) - h.pops + Len(h.push) <= StackLimit
      /\ ~Past(p, k - 1, Pushers) => h.push = <<>>
      /\ \A j \in 1 .. k - 1 : p[j].do = "peek" => h.pops = p[j].n
  BY <1>1, <1>2 DEF Stepping, Mid, Counted
<1>6. /\ LegalPops(p, k) /\ Len(h.push) \in Nat /\ h.pops \in Nat /\ StackLimit \in Nat
      /\ Len(f.stack) <= StackLimit
  <2>1. Len(h.push) \in Nat /\ h.pops \in Nat
    BY <1>2, LengthType, FieldTypes DEF Going
  <2>2. Len(f.stack) <= StackLimit
    BY <1>1 DEF Stepping, Started
  <2> QED BY <1>3, <2>1, <2>2, MachineAssumption DEF LegalStep
<1>7. \A j \in 1 .. k : j # k => j \in 1 .. k - 1
  BY <1>2
<1>8. CASE p[k].do = "peek"
  <2>1. /\ g.out = "Ok" => g.pops = p[k].n /\ p[k].n <= Len(f.stack)
        /\ g.out # "Ok" => g.pops = h.pops
    BY <1>1, <1>2, <1>8, PeekStep
  <2>2. ~Past(p, k - 1, Pushers) /\ \A j \in 1 .. k - 1 : p[j].do # "peek"
    BY <1>6, <1>8 DEF LegalPops, Past
  <2>3. g.push = <<>> /\ Len(g.push) = 0
    BY <1>4, <1>5, <1>8, <2>2 DEF Pushers
  <2>4. p[k].n \in Nat
    BY <1>2, <1>8 DEF Parameters
  <2>5. g.pops \in Nat /\ g.pops <= Len(f.stack)
    BY <1>5, <1>6, <2>1, <2>4
  <2>6. Len(f.stack) - g.pops + Len(g.push) <= StackLimit
    BY <1>2, <1>6, <2>3, <2>5
  <2>7. \A j \in 1 .. k : p[j].do = "peek" => j = k
    BY <1>7, <2>2
  <2> QED BY <2>1, <2>3, <2>5, <2>6, <2>7 DEF Counted
<1>9. CASE p[k].do = "log"
  <2>1. g.pops = p[k].n + 2
    BY <1>1, <1>2, <1>9, LogStep
  <2>2. p[k].n \in Nat /\ ~Past(p, k - 1, Pushers) /\ Read(p, k - 1, p[k].n + 2)
    BY <1>2, <1>6, <1>9 DEF LegalPops, Parameters
  <2>3. p[k].n + 2 <= Len(f.stack)
    BY <1>1, <2>2, ReadIsThere
  <2>4. g.push = <<>> /\ Len(g.push) = 0
    BY <1>4, <1>5, <1>9, <2>2 DEF Pushers
  <2>5. g.pops <= Len(f.stack) /\ Len(f.stack) - g.pops + Len(g.push) <= StackLimit
    BY <1>2, <1>6, <2>1, <2>2, <2>3, <2>4
  <2> QED BY <1>3, <1>9, <2>4, <2>5 DEF Counted
<1>10. CASE p[k].do \in Pushers
  <2>1. /\ \/ g.out # "Ok" /\ g.push = h.push
           \/ g.out = "Ok" /\ Len(h.stack) - h.pops + Len(g.push) <= StackLimit
    <3> DEFINE s == p[k]
    <3>1. /\ Going(h) /\ At(h, c, op) /\ s.do \in Pushers /\ Parameters(s)
          /\ \A i \in Reads(s) : i \in 1 .. Len(h.stack)
          /\ s.do = "push" /\ s.what = "alu" => op \in ArithOps /\ h.pops = Arity(op) /\ h.pops <= Len(h.stack)
          /\ s.do = "push" /\ s.what = "data" => op = "PUSH"
          /\ s.do = "dup" => op = "DUP"
          /\ g = Do(h, c, op, s)
      BY <1>1, <1>2, <1>3, <1>10 DEF Ready
    <3> HIDE DEF s
    <3> QED BY <3>1, PushStep
  <2>2. g.pops = h.pops
    BY <1>4, <1>10 DEF Pushers
  <2>3. \A j \in 1 .. k : p[j].do = "peek" => j \in 1 .. k - 1
    BY <1>7, <1>10 DEF Pushers
  <2>4. Len(f.stack) - g.pops + Len(g.push) <= StackLimit
    BY <1>2, <1>5, <2>1, <2>2
  <2> QED BY <1>3, <1>5, <1>10, <2>2, <2>3, <2>4 DEF Counted
<1>11. CASE p[k].do \notin Pushers \cup {"peek", "log"}
  <2>1. g.pops = h.pops /\ g.push = h.push
    BY <1>4, <1>11
  <2>2. \A j \in 1 .. k : p[j].do = "peek" => j \in 1 .. k - 1
    BY <1>7, <1>11
  <2> QED BY <1>3, <1>5, <2>1, <2>2 DEF Counted
<1> QED BY <1>8, <1>9, <1>10, <1>11

LEMMA PaidForStep ==
  ASSUME NEW g, NEW h, NEW f, NEW c, NEW op, NEW p, NEW k, StepTo(g, h, f, c, op, p, k)
  PROVE  PaidFor(g, f)
<1>1. Stepping(h, f, c, op, p, k) /\ g = Do(h, c, op, p[k])
  BY DEF StepTo
<1>2. Going(h) /\ Parameters(p[k]) /\ p[k].do \in Steps /\ IsFrame(f)
  BY <1>1, NotLast
<1>3. Sound(g, h, p[k]) /\ Ready(h, c, op, p[k])
  BY StepSound
<1>4. PaidFor(h, f)
  BY <1>1 DEF Stepping, Mid
<1>5. g.paid = h.paid /\ (p[k].do \notin Growers => g.mem = h.mem /\ g.owed = h.owed)
  BY <1>2, <1>3, StepKeeps
<1>6. CASE p[k].do \in Growers
  <2>1. MemoryFits(h) /\ \A i \in Reads(p[k]) : i \in 1 .. Len(h.stack)
    BY <1>3 DEF Ready
  <2>2. MemoryFits(g) /\ h.mem <= g.mem /\ g.owed - h.owed = Cost(g.mem) - Cost(h.mem)
    BY <1>1, <1>2, <1>6, <2>1, GrowStep
  <2>3. h.mem \in Nat /\ g.mem \in Nat /\ f.mem \in Nat /\ g.owed \in Int /\ h.owed \in Int /\ h.paid \in Int
    <3>1. IsFrame(g) /\ IsFrame(h)
      BY <1>2, <1>3 DEF Sound, Going
    <3> QED BY <1>2, <3>1, FieldTypes
  <2>4. Cost(g.mem) \in Nat /\ Cost(h.mem) \in Nat
    BY <2>3, CostType
  <2> DEFINE x == Cost(g.mem)  y == Cost(h.mem)
  <2>5. f.mem <= h.mem /\ h.paid + h.owed = y
    BY <1>4 DEF PaidFor
  <2>6. g.paid + g.owed = x
    <3>1. x \in Nat /\ y \in Nat /\ g.owed - h.owed = x - y
      BY <2>2, <2>4
    <3> HIDE DEF x, y
    <3> QED BY <1>5, <2>3, <2>5, <3>1
  <2>7. f.mem <= g.mem
    BY <2>2, <2>3, <2>5
  <2> QED BY <2>2, <2>6, <2>7 DEF PaidFor
<1>7. CASE p[k].do \notin Growers
  BY <1>4, <1>5, <1>7 DEF PaidFor, MemoryFits
<1> QED BY <1>6, <1>7

LEMMA LentStep ==
  ASSUME NEW g, NEW h, NEW f, NEW c, NEW op, NEW p, NEW k, StepTo(g, h, f, c, op, p, k)
  PROVE  Lent(g, f, p, k)
<1>1. Stepping(h, f, c, op, p, k) /\ g = Do(h, c, op, p[k])
  BY DEF StepTo
<1>2. /\ Going(h) /\ Parameters(p[k]) /\ p[k].do \in Steps /\ k \in Nat \ {0} /\ k \in 1 .. Len(p)
      /\ \A i : Arg(h, i) = Arg(f, i)
  BY <1>1, NotLast DEF Stepping
<1>3. /\ Sound(g, h, p[k]) /\ Ready(h, c, op, p[k]) /\ LegalStep(p, k, op)
      /\ Past(p, k, {"lend"}) <=> (Past(p, k - 1, {"lend"}) \/ p[k].do \in {"lend"})
  BY StepSound
<1>4. Lent(h, f, p, k - 1) /\ h.out = "Ok"
  BY <1>1 DEF Stepping, Mid
<1>5. p[k].do # "lend" => g.lent = h.lent
  BY <1>2, <1>3, StepKeeps
<1>6. /\ g.charge \in Int /\ h.charge \in Int /\ h.charge >= 0 /\ g.lent \in Nat /\ h.lent \in Nat
      /\ h.charge <= g.charge
  <2>1. IsFrame(g) /\ IsFrame(h) /\ Solvent(h) /\ h.charge <= g.charge
    BY <1>2, <1>3 DEF Sound, Going
  <2> QED BY <2>1, FieldTypes DEF Solvent
<1>7. g.out = "Ok" => \A j \in 1 .. k : p[j].do \in ValueCosts /\ Arg(f, p[j].i) # 0 => g.charge >= 9000
  <2> SUFFICES ASSUME g.out = "Ok", NEW j \in 1 .. k, p[j].do \in ValueCosts, Arg(f, p[j].i) # 0
               PROVE  g.charge >= 9000
    OBVIOUS
  <2>1. CASE j # k
    <3>1. j \in 1 .. k - 1
      BY <1>2, <2>1
    <3>2. h.charge >= 9000
      BY <1>4, <3>1 DEF Lent
    <3> QED BY <1>6, <3>2
  <2>2. CASE j = k
    <3>1. p[k].do \in Payers
      BY <2>2 DEF ValueCosts, Payers
    <3>2. \A i \in Reads(p[k]) : i \in 1 .. Len(h.stack)
      BY <1>3 DEF Ready
    <3> QED BY <1>1, <1>2, <2>2, <3>1, <3>2, PayStep
  <2> QED BY <2>1, <2>2
<1>8. CASE p[k].do = "lend"
  <2>1. /\ ~Past(p, k - 1, {"lend"}) /\ k + 1 = Len(p)
        /\ p[k].v # 0 => \E j \in 1 .. k - 1 : p[j].do \in ValueCosts /\ p[j].i = p[k].v
    BY <1>3, <1>8 DEF LegalStep, LegalCall
  <2>2. \A i \in Reads(p[k]) : i \in 1 .. Len(h.stack)
    BY <1>3 DEF Ready
  <2>3. /\ g.out = "Ok"
        /\ g.lent = g.charge - h.charge + (IF p[k].v # 0 /\ Arg(h, p[k].v) # 0 THEN 2300 ELSE 0)
    BY <1>1, <1>2, <1>8, <2>2, LendStep
  <2>4. p[k].v # 0 /\ Arg(h, p[k].v) # 0 => h.charge >= 9000
    BY <1>2, <1>4, <2>1 DEF Lent
  <2>5. g.lent <= g.charge
    BY <1>6, <2>3, <2>4
  <2>6. k < Len(p)
    BY <1>1, <1>2, <2>1
  <2> QED BY <1>2, <1>3, <1>7, <1>8, <2>3, <2>5, <2>6 DEF Lent
<1>9. CASE p[k].do # "lend"
  <2>1. g.lent = h.lent /\ h.lent <= h.charge /\ (~Past(p, k - 1, {"lend"}) => h.lent = 0)
    BY <1>4, <1>5, <1>9 DEF Lent
  <2>2. g.lent # 0 => g.out = "Call"
    <3> HAVE g.lent # 0
    <3>1. k - 1 > 0 /\ p[k - 1].do = "lend"
      BY <1>4, <2>1 DEF Lent
    <3>2. k - 1 \in 1 .. Len(p)
      BY <1>2, <3>1
    <3>3. LegalCall(p, k - 1, op)
      BY <1>1, <3>2 DEF Stepping, Legal, LegalStep
    <3>4. p[k].do = "yield" /\ p[k].how = "Call"
      <4>1. (k - 1) + 1 = k
        BY <1>2
      <4> QED BY <3>1, <3>3, <4>1 DEF LegalCall
    <3>5. p[k].do \in Checks
      BY <3>4 DEF Checks
    <3> QED BY <1>1, <1>2, <3>4, <3>5, CheckStep
  <2>3. g.lent <= g.charge
    BY <1>6, <2>1
  <2> QED BY <1>3, <1>7, <1>9, <2>1, <2>2, <2>3 DEF Lent
<1> QED BY <1>8, <1>9

LEMMA OneKeyStep ==
  ASSUME NEW g, NEW h, NEW f, NEW c, NEW op, NEW p, NEW k, StepTo(g, h, f, c, op, p, k)
  PROVE  OneKey(g)
<1>1. Stepping(h, f, c, op, p, k) /\ g = Do(h, c, op, p[k])
  BY DEF StepTo
<1>2. Going(h) /\ p[k].do \in Steps /\ OneKey(h)
  BY <1>1, NotLast DEF Stepping, Mid
<1>3. Sound(g, h, p[k]) /\ Ready(h, c, op, p[k])
  BY StepSound
<1>4. CASE p[k].do = "sstore"
  <2>1. \A i \in Reads(p[k]) : i \in 1 .. Len(h.stack)
    BY <1>3 DEF Ready
  <2>2. \E key \in Word : g.keys \in {h.keys, {key}}
    BY <1>1, <1>2, <1>4, <2>1, SstoreIs
  <2> QED BY <1>2, <2>2 DEF OneKey
<1>5. CASE p[k].do # "sstore"
  <2>1. g.keys = h.keys
    BY <1>2, <1>3, <1>5, StepKeeps
  <2> QED BY <1>2, <2>1 DEF OneKey
<1> QED BY <1>4, <1>5

LEMMA AskedStep ==
  ASSUME NEW g, NEW h, NEW f, NEW c, NEW op, NEW p, NEW k, StepTo(g, h, f, c, op, p, k)
  PROVE  Asked(g, f, p, k)
<1>1. Stepping(h, f, c, op, p, k)
  BY DEF StepTo
<1>2. p[k].do \in Steps /\ Asked(h, f, p, k - 1)
  BY <1>1, NotLast DEF Stepping, Mid
<1>3. /\ Sound(g, h, p[k]) /\ LegalStep(p, k, op)
      /\ Past(p, k, Changers) <=> (Past(p, k - 1, Changers) \/ p[k].do \in Changers)
  BY StepSound
<1>4. SUFFICES ASSUME g.out = "Fetch" \/ ~Past(p, k, Changers)
               PROVE  Only(g, f, Pending \cup {"out", "want"})
  BY DEF Asked
<1>5. ~Past(p, k - 1, Changers) /\ p[k].do \notin Changers
  <2>1. CASE g.out = "Fetch"
    <3>1. p[k].do \in Fetchers
      BY <1>3, <2>1 DEF Sound
    <3>2. ~Past(p, k - 1, Changers)
      BY <1>3, <3>1 DEF LegalStep, LegalOrder
    <3> QED BY <3>1, <3>2 DEF Fetchers, Changers, Lasts, Growers
  <2>2. CASE ~Past(p, k, Changers)
    BY <1>3, <2>2
  <2> QED BY <1>4, <2>1, <2>2
<1>6. Only(h, f, Pending \cup {"out", "want"})
  BY <1>2, <1>5 DEF Asked
<1>7. Touches(p[k].do) \subseteq Pending \cup {"out", "want"}
  BY <1>2, <1>5, TouchesFacts
<1>8. Only(g, h, Touches(p[k].do))
  BY <1>3 DEF Sound
<1> QED BY <1>6, <1>7, <1>8, OnlyOn

LEMMA RoomStep ==
  ASSUME NEW g, NEW h, NEW f, NEW c, NEW op, NEW p, NEW k, StepTo(g, h, f, c, op, p, k)
  PROVE  Room(g, f, p, k, op)
<1>1. Stepping(h, f, c, op, p, k) /\ g = Do(h, c, op, p[k])
  BY DEF StepTo
<1>2. /\ Going(h) /\ Parameters(p[k]) /\ p[k].do \in Steps /\ k \in Nat \ {0}
      /\ \A i : Arg(h, i) = Arg(f, i)
      /\ h.stack = f.stack /\ Len(f.stack) \in Nat
  BY <1>1, NotLast
<1>3. Sound(g, h, p[k]) /\ Ready(h, c, op, p[k]) /\ LegalStep(p, k, op)
  BY StepSound
<1>4. h.mem \in Nat /\ g.mem \in Nat /\ h.mem <= g.mem
  <2>1. IsFrame(g) /\ IsFrame(h)
    BY <1>2, <1>3 DEF Sound, Going
  <2>2. CASE p[k].do \in Growers
    <3>1. MemoryFits(h) /\ \A i \in Reads(p[k]) : i \in 1 .. Len(h.stack)
      BY <1>3 DEF Ready
    <3>2. h.mem <= g.mem
      BY <1>1, <1>2, <2>2, <3>1, GrowStep
    <3> QED BY <2>1, <3>2, FieldTypes
  <2>3. CASE p[k].do \notin Growers
    <3>1. g.mem = h.mem
      BY <1>2, <1>3, <2>3, StepKeeps
    <3>2. g.mem \in Nat
      BY <2>1, FieldTypes
    <3> QED BY <3>1, <3>2
  <2> QED BY <2>2, <2>3
<1>5. \A j \in 1 .. k - 1 : \A m \in 1 .. Len(p[j].regions) :
        p[j].do = "expand" =>
          /\ p[j].regions[m][1] \in 1 .. Len(f.stack) /\ p[j].regions[m][2] \in 1 .. Len(f.stack)
          /\ Fits(f, p[j].regions[m][1], p[j].regions[m][2], h.mem)
  <2> SUFFICES ASSUME NEW j \in 1 .. k - 1, NEW m \in 1 .. Len(p[j].regions), p[j].do = "expand"
               PROVE  /\ p[j].regions[m][1] \in 1 .. Len(f.stack) /\ p[j].regions[m][2] \in 1 .. Len(f.stack)
                      /\ Fits(f, p[j].regions[m][1], p[j].regions[m][2], h.mem)
    OBVIOUS
  <2>1. Fits(f, p[j].regions[m][1], p[j].regions[m][2], h.mem)
    BY <1>1 DEF Stepping, Mid, Room
  <2>2. j \in 1 .. Len(p)
    BY <1>1 DEF Stepping
  <2>3. LegalReads(p, j)
    BY <1>1, <2>2 DEF Stepping, Legal, LegalStep
  <2>4. p[j].regions[m][1] \in Reads(p[j]) /\ p[j].regions[m][2] \in Reads(p[j])
    BY DEF Reads
  <2>5. \A i \in Reads(p[j]) : i \in Nat /\ i >= 1 /\ Read(p, k - 1, i)
    <3> TAKE i \in Reads(p[j])
    <3>1. i \in Nat /\ i >= 1 /\ Read(p, j - 1, i)
      BY <2>3 DEF LegalReads
    <3>2. 1 .. j - 1 \subseteq 1 .. k - 1
      BY <1>2
    <3> QED BY <3>1, <3>2 DEF Read
  <2>6. \A i \in Reads(p[j]) : i \in 1 .. Len(f.stack)
    <3> TAKE i \in Reads(p[j])
    <3>1. i <= Len(f.stack)
      BY <1>1, <2>5, ReadIsThere
    <3> QED BY <1>2, <2>5, <3>1
  <2> QED BY <2>1, <2>4, <2>6
<1>6. \A i, j : i \in 1 .. Len(f.stack) /\ j \in 1 .. Len(f.stack) /\ Fits(f, i, j, h.mem) => Fits(f, i, j, g.mem)
  <2> SUFFICES ASSUME NEW i \in 1 .. Len(f.stack), NEW j \in 1 .. Len(f.stack), Fits(f, i, j, h.mem)
               PROVE  Fits(f, i, j, g.mem)
    OBVIOUS
  <2>1. AsUsize(Arg(f, i)) \in Nat /\ AsUsize(Arg(f, j)) \in Nat
    <3>1. IsFrame(f)
      BY <1>1, NotLast
    <3> QED BY <3>1, ArgWord
  <2> QED BY <1>4, <2>1 DEF Fits
<1>7. g.out = "Ok" => \A j \in 1 .. k : p[j].do = "expand" =>
        \A m \in 1 .. Len(p[j].regions) : Fits(f, p[j].regions[m][1], p[j].regions[m][2], g.mem)
  <2> SUFFICES ASSUME g.out = "Ok", NEW j \in 1 .. k, p[j].do = "expand", NEW m \in 1 .. Len(p[j].regions)
               PROVE  Fits(f, p[j].regions[m][1], p[j].regions[m][2], g.mem)
    OBVIOUS
  <2>1. CASE j # k
    <3>1. j \in 1 .. k - 1
      BY <1>2, <2>1
    <3> QED BY <1>5, <1>6, <3>1
  <2>2. CASE j = k
    <3>0. p[k].do \in Growers
      BY <2>2 DEF Growers
    <3>1. MemoryFits(h) /\ \A i \in Reads(p[k]) : i \in 1 .. Len(h.stack)
      BY <1>3 DEF Ready
    <3>2. \A n \in 1 .. Len(p[k].regions) :
              LET a == AsUsize(Arg(h, p[k].regions[n][1]))
                  b == AsUsize(Arg(h, p[k].regions[n][2]))
              IN  b > 0 => a + b <= g.mem
      BY <1>1, <1>2, <2>2, <3>0, <3>1, GrowStep
    <3> QED BY <1>2, <2>2, <3>2 DEF Fits
  <2> QED BY <2>1, <2>2
<1>8. ASSUME g.out = "Call", RetIndex(op) # 0
      PROVE  RetIndex(op) + 1 <= Len(f.stack) /\ Fits(f, RetIndex(op), RetIndex(op) + 1, g.mem)
  <2>1. p[k].do = "yield" /\ p[k].how = "Call"
    BY <1>3, <1>8 DEF Sound
  <2>2. PICK j \in 1 .. k - 1 :
          p[j].do = "expand"
          /\ \E m \in 1 .. Len(p[j].regions) : p[j].regions[m] = <<RetIndex(op), RetIndex(op) + 1>>
    BY <1>3, <1>8, <2>1 DEF LegalStep, LegalCall
  <2>3. PICK m \in 1 .. Len(p[j].regions) : p[j].regions[m] = <<RetIndex(op), RetIndex(op) + 1>>
    BY <2>2
  <2>4. /\ RetIndex(op) \in 1 .. Len(f.stack) /\ RetIndex(op) + 1 \in 1 .. Len(f.stack)
        /\ Fits(f, RetIndex(op), RetIndex(op) + 1, h.mem)
    BY <1>5, <2>2, <2>3
  <2>5. Fits(f, RetIndex(op), RetIndex(op) + 1, g.mem)
    BY <1>6, <2>4
  <2> QED BY <1>2, <2>4, <2>5
<1> QED BY <1>7, <1>8 DEF Room

----------------------------------------------------------------------------
(* What is warmed, and what is paid as cold.                               *)

LEMMA Appended ==
  ASSUME NEW a, NEW s \in Seq(Acct), a \in Acct
  PROVE  /\ Len(Append(s, a)) = Len(s) + 1 /\ Len(s) \in Nat
         /\ Append(s, a)[Len(s) + 1] = a /\ \A i \in 1 .. Len(s) : Append(s, a)[i] = s[i]
         /\ Append(s, a) # s
OBVIOUS

\* The parts of Warmth that follow from the account that is warmed.
LEMMA WarmedOne ==
  ASSUME NEW g, NEW h, NEW a \in Acct, IsFrame(h), h.out = "Ok", Warmed(g, h, a)
  PROVE  /\ Len(g.accs) <= Len(h.accs) + 1 /\ Len(g.cold) <= Len(h.cold) + 1
         /\ Len(h.accs) \in Nat /\ Len(h.cold) \in Nat /\ Len(g.accs) \in Nat /\ Len(g.cold) \in Nat
         /\ \A i \in 1 .. Len(g.cold) :
              (i \in 1 .. Len(h.cold) /\ g.cold[i] = h.cold[i])
                \/ (i = Len(h.cold) + 1 /\ g.cold[i] = a /\ a \notin h.warm)
         /\ g.out = "Ok" =>
              ((\A i \in 1 .. Len(h.cold) : \E j \in 1 .. Len(h.accs) : h.accs[j] = h.cold[i])
              => \A i \in 1 .. Len(g.cold) : \E j \in 1 .. Len(g.accs) : g.accs[j] = g.cold[i])
<1>1. h.accs \in Seq(Acct) /\ h.cold \in Seq(Acct)
  BY FieldTypes
<1>2. /\ g.accs \in {h.accs, Append(h.accs, a)} /\ g.cold \in {h.cold, Append(h.cold, a)}
      /\ g.cold # h.cold => a \notin h.warm
      /\ g.cold # h.cold /\ g.out = "Ok" => g.accs = Append(h.accs, a)
  BY DEF Warmed
<1>3. /\ Len(Append(h.accs, a)) = Len(h.accs) + 1 /\ Len(h.accs) \in Nat
      /\ Append(h.accs, a)[Len(h.accs) + 1] = a
      /\ \A i \in 1 .. Len(h.accs) : Append(h.accs, a)[i] = h.accs[i]
  BY <1>1, Appended
<1>4. /\ Len(Append(h.cold, a)) = Len(h.cold) + 1 /\ Len(h.cold) \in Nat
      /\ Append(h.cold, a)[Len(h.cold) + 1] = a
      /\ \A i \in 1 .. Len(h.cold) : Append(h.cold, a)[i] = h.cold[i]
      /\ Append(h.cold, a) # h.cold
  BY <1>1, Appended
<1>5. /\ Len(g.accs) <= Len(h.accs) + 1 /\ Len(g.cold) <= Len(h.cold) + 1
      /\ Len(g.accs) \in Nat /\ Len(g.cold) \in Nat
  BY <1>2, <1>3, <1>4
<1>6. \A i \in 1 .. Len(g.cold) :
              (i \in 1 .. Len(h.cold) /\ g.cold[i] = h.cold[i])
                \/ (i = Len(h.cold) + 1 /\ g.cold[i] = a /\ a \notin h.warm)
  <2>1. CASE g.cold = h.cold
    BY <2>1
  <2>2. CASE g.cold = Append(h.cold, a)
    BY <1>2, <1>4, <2>2
  <2> QED BY <1>2, <2>1, <2>2
<1>7. ASSUME g.out = "Ok", \A i \in 1 .. Len(h.cold) : \E j \in 1 .. Len(h.accs) : h.accs[j] = h.cold[i],
             NEW i \in 1 .. Len(g.cold)
      PROVE  \E j \in 1 .. Len(g.accs) : g.accs[j] = g.cold[i]
  <2>1. \A j \in 1 .. Len(h.accs) : j \in 1 .. Len(g.accs) /\ g.accs[j] = h.accs[j]
    BY <1>2, <1>3
  <2>2. CASE i \in 1 .. Len(h.cold) /\ g.cold[i] = h.cold[i]
    <3>1. PICK j \in 1 .. Len(h.accs) : h.accs[j] = h.cold[i]
      BY <1>7, <2>2
    <3> QED BY <2>1, <2>2, <3>1
  <2>3. CASE i = Len(h.cold) + 1 /\ g.cold[i] = a
    <3>1. g.cold # h.cold
      BY <1>4, <2>3
    <3>2. g.accs = Append(h.accs, a)
      BY <1>2, <1>7, <3>1
    <3>3. Len(h.accs) + 1 \in 1 .. Len(g.accs) /\ g.accs[Len(h.accs) + 1] = a
      BY <1>3, <3>2
    <3> QED BY <2>3, <3>3
  <2> QED BY <1>6, <2>2, <2>3
<1> QED BY <1>3, <1>4, <1>5, <1>6, <1>7

\* The account that is warmed is one.
LEMMA WarmedAcct ==
  ASSUME NEW h, NEW s, Going(h), s.do \in Warmers, \A i \in Reads(s) : i \in 1 .. Len(h.stack),
         s.do = "access_delegate" =>
              /\ Addr(Arg(h, s.i)) \in DOMAIN Auth
              /\ WarmedBy(h, s) = Auth[Addr(Arg(h, s.i))]
  PROVE  WarmedBy(h, s) \in Acct
<1>1. CASE s.do = "access_delegate"
  BY <1>1, MachineAssumption
<1>2. CASE s.do = "cold_heir"
  <2>1. 1 \in Reads(s)
    BY <1>2 DEF Reads
  <2>2. Arg(h, 1) \in Nat
    BY <2>1, ArgWord DEF Going
  <2> QED BY <1>2, <2>2, AddrAcct DEF WarmedBy
<1>3. CASE s.do \in {"cold", "access"}
  <2>1. s.i \in Reads(s)
    BY <1>3 DEF Reads
  <2>2. Arg(h, s.i) \in Nat
    BY <2>1, ArgWord DEF Going
  <2> QED BY <1>3, <2>2, AddrAcct DEF WarmedBy
<1> QED BY <1>1, <1>2, <1>3 DEF Warmers

LEMMA WarmthStep ==
  ASSUME NEW g, NEW h, NEW f, NEW c, NEW op, NEW p, NEW k, StepTo(g, h, f, c, op, p, k)
  PROVE  Warmth(g, f, p, k)
<1> DEFINE s == p[k]
           a == WarmedBy(h, s)
           Old == Warmers \ {"access"}
<1>1. Stepping(h, f, c, op, p, k) /\ g = Do(h, c, op, s)
  BY DEF StepTo
<1>2. /\ Going(h) /\ IsFrame(h) /\ s.do \in Steps /\ k \in Nat \ {0} /\ h.out = "Ok"
      /\ \A i : Arg(h, i) = Arg(f, i)
  BY <1>1, NotLast DEF Going
<1>3. /\ Sound(g, h, s) /\ LegalStep(p, k, op)
      /\ Past(p, k, Warmers) <=> (Past(p, k - 1, Warmers) \/ s.do \in Warmers)
      /\ Past(p, k, Old) <=> (Past(p, k - 1, Old) \/ s.do \in Old)
      /\ \A i \in Reads(s) : i \in 1 .. Len(h.stack)
  BY StepSound DEF Ready
<1>4. Warmth(h, f, p, k - 1)
  BY <1>1 DEF Stepping, Mid
<1>5. h.warm = f.warm
  <2>1. Base(h, f)
    BY <1>1 DEF Stepping, Mid
  <2> QED BY <2>1 DEF Base, Only, Fields, Kept
<1>6. \A j \in 1 .. k : j # k => j \in 1 .. k - 1
  BY <1>2
<1> HIDE DEF a
<1>7. CASE g.accs = h.accs /\ g.cold = h.cold /\ s.do # "access"
  <2>1. \A j \in 1 .. k : p[j].do = "access" => j \in 1 .. k - 1
    BY <1>6, <1>7
  <2>2. g.out \in {"Ok", "Call"} =>
          \A i \in 1 .. Len(g.cold) : \E j \in 1 .. Len(g.accs) : g.accs[j] = g.cold[i]
    BY <1>2, <1>4, <1>7 DEF Warmth
  <2>3. ~Past(p, k, Old) =>
       /\ Len(g.accs) <= 1 /\ Len(g.cold) <= 1
       /\ \A j \in 1 .. k : p[j].do = "access" =>
            \A i \in 1 .. Len(g.cold) : g.cold[i] = Addr(Arg(f, p[j].i))
    BY <1>2, <1>3, <1>4, <1>7, <2>1 DEF Warmth
  <2> HIDE DEF s, Old
  <2> QED BY <1>3, <1>4, <1>7, <2>2, <2>3 DEF Warmth, Old
<1>8. ASSUME s.do \in Warmers,
             s.do = "access_delegate" =>
               Addr(Arg(h, s.i)) \in DOMAIN Auth /\ a = Auth[Addr(Arg(h, s.i))],
             Warmed(g, h, a)
      PROVE  Warmth(g, f, p, k)
  <2>1. a \in Acct
    BY <1>2, <1>3, <1>8, WarmedAcct DEF a
  <2>2. /\ Len(g.accs) <= Len(h.accs) + 1 /\ Len(g.cold) <= Len(h.cold) + 1
        /\ Len(h.accs) \in Nat /\ Len(h.cold) \in Nat /\ Len(g.accs) \in Nat /\ Len(g.cold) \in Nat
        /\ \A i \in 1 .. Len(g.cold) :
             (i \in 1 .. Len(h.cold) /\ g.cold[i] = h.cold[i])
               \/ (i = Len(h.cold) + 1 /\ g.cold[i] = a /\ a \notin h.warm)
        /\ g.out = "Ok" =>
             ((\A i \in 1 .. Len(h.cold) : \E j \in 1 .. Len(h.accs) : h.accs[j] = h.cold[i])
             => \A i \in 1 .. Len(g.cold) : \E j \in 1 .. Len(g.accs) : g.accs[j] = g.cold[i])
    BY ZenonT(30), <1>2, <1>8, <2>1, WarmedOne
  <2>91. \A i \in 1 .. Len(g.cold) :
              (i \in 1 .. Len(h.cold) /\ g.cold[i] = h.cold[i])
                \/ (i = Len(h.cold) + 1 /\ g.cold[i] = a /\ a \notin h.warm)
    BY <2>2
  <2>92. Len(h.accs) \in Nat /\ Len(h.cold) \in Nat /\ Len(g.accs) \in Nat /\ Len(g.cold) \in Nat
    BY <2>2
  <2>93. Len(g.accs) <= Len(h.accs) + 1 /\ Len(g.cold) <= Len(h.cold) + 1
    BY <2>2
  <2>3. g.out \in {"Ok", "Call"} =>
          \A i \in 1 .. Len(g.cold) : \E j \in 1 .. Len(g.accs) : g.accs[j] = g.cold[i]
    <3>1. g.out # "Call"
      BY <1>8 DEF Warmed, Moves
    <3>2. \A i \in 1 .. Len(h.cold) : \E j \in 1 .. Len(h.accs) : h.accs[j] = h.cold[i]
      BY <1>2, <1>4 DEF Warmth
    <3> HIDE DEF s, Old
    <3> QED BY <2>2, <3>1, <3>2
  <2>4. \A i \in 1 .. Len(g.cold) : g.cold[i] \notin f.warm
    <3>1. \A i \in 1 .. Len(h.cold) : h.cold[i] \notin f.warm
      BY <1>4 DEF Warmth
    <3> HIDE DEF s, Old
    <3> QED BY <1>5, <2>91, <3>1
  <2>5. Past(p, k, Warmers)
    BY <1>3, <1>8
  <2>6. LegalOrder(p, k)
    BY <1>3 DEF LegalStep
  <2>7. CASE s.do # "access_delegate"
    <3>1. ~Past(p, k - 1, Warmers)
      BY <1>8, <2>6, <2>7 DEF LegalOrder
    <3>2. Len(h.accs) = 0 /\ Len(h.cold) = 0
      BY <1>4, <3>1 DEF Warmth
    <3>3. Len(g.accs) <= 1 /\ Len(g.cold) <= 1 /\ \A i \in 1 .. Len(g.cold) : i = 1 /\ g.cold[i] = a
      <4>1. Len(g.accs) <= 1 /\ Len(g.cold) <= 1
        BY <2>92, <2>93, <3>2
      <4>2. \A i \in 1 .. Len(g.cold) : i = 1 /\ g.cold[i] = a
        <5> HIDE DEF s, Old
        <5> QED BY <2>91, <2>92, <3>2
      <4> QED BY <4>1, <4>2
    <3>4. ~Past(p, k, Old) => \A j \in 1 .. k : p[j].do = "access" =>
            \A i \in 1 .. Len(g.cold) : g.cold[i] = Addr(Arg(f, p[j].i))
      <4> SUFFICES ASSUME ~Past(p, k, Old), NEW j \in 1 .. k, p[j].do = "access"
                   PROVE  a = Addr(Arg(f, p[j].i))
        BY <3>3
      <4>1. j = k
        BY <1>6, <3>1 DEF Past, Warmers
      <4> QED BY <1>2, <4>1 DEF a, WarmedBy
    <3>5. \A i, j \in 1 .. Len(g.cold) : i = j
      BY <3>3
    <3>6. Len(g.accs) <= 2 /\ Len(g.cold) <= 2
      BY <2>2, <3>3
    <3> HIDE DEF s, Old
    <3> QED BY <2>3, <2>4, <2>5, <3>3, <3>4, <3>5, <3>6 DEF Warmth, Old
  <2>8. CASE s.do = "access_delegate"
    <3>1. /\ ~Past(p, k - 1, Old)
          /\ \A j \in 1 .. k - 1 : p[j].do = "access" => p[j].i = s.i
      BY <2>6, <2>8 DEF LegalOrder
    <3>2. Len(h.accs) <= 1 /\ Len(h.cold) <= 1
      BY <1>4, <3>1 DEF Warmth
    <3>3. Len(g.accs) <= 2 /\ Len(g.cold) <= 2
      BY <2>2, <3>2
    <3>4. Past(p, k, Old)
      BY <1>3, <2>8 DEF Warmers
    <3>5. \A i \in 1 .. Len(h.cold) : h.cold[i] = a => OwnDelegate(a)
      <4> SUFFICES ASSUME NEW i \in 1 .. Len(h.cold), h.cold[i] = a
                   PROVE  OwnDelegate(a)
        OBVIOUS
      <4>1. h.cold # <<>>
        BY <2>2
      <4>2. Past(p, k - 1, Warmers)
        BY <1>4, <4>1 DEF Warmth
      <4>3. PICK j \in 1 .. k - 1 : p[j].do = "access"
        BY <3>1, <4>2 DEF Past
      <4>4. h.cold[i] = Addr(Arg(f, p[j].i))
        BY <1>2, <1>4, <3>1, <4>3 DEF Warmth
      <4>5. h.cold[i] = Addr(Arg(h, s.i))
        BY <1>2, <3>1, <4>3, <4>4
      <4> QED BY <1>8, <2>8, <4>5 DEF OwnDelegate
    <3>6. \A i, j \in 1 .. Len(g.cold) : i # j /\ g.cold[i] = g.cold[j] => OwnDelegate(g.cold[i])
      <4> SUFFICES ASSUME NEW i \in 1 .. Len(g.cold), NEW j \in 1 .. Len(g.cold), i # j,
                          g.cold[i] = g.cold[j]
                   PROVE  OwnDelegate(g.cold[i])
        OBVIOUS
      <4>1. \A x, y \in 1 .. Len(h.cold) : x # y /\ h.cold[x] = h.cold[y] => OwnDelegate(h.cold[x])
        BY <1>4 DEF Warmth
      <4>2. /\ (i \in 1 .. Len(h.cold) /\ g.cold[i] = h.cold[i]) \/ (i = Len(h.cold) + 1 /\ g.cold[i] = a)
            /\ (j \in 1 .. Len(h.cold) /\ g.cold[j] = h.cold[j]) \/ (j = Len(h.cold) + 1 /\ g.cold[j] = a)
        BY <2>91
      <4>3. \A x \in 1 .. Len(h.cold) : h.cold[x] = a => OwnDelegate(a)
        BY <3>5
      <4> HIDE DEF s, Old
      <4> QED BY <4>1, <4>2, <4>3
    <3> HIDE DEF s, Old
    <3> QED BY <2>3, <2>4, <2>5, <3>3, <3>4, <3>6 DEF Warmth, Old
  <2> QED BY <2>7, <2>8
<1>9. CASE s.do \in Warmers
  <2>1. /\ Warmed(g, h, a)
        /\ s.do = "access_delegate" =>
              \/ g.accs = h.accs /\ g.cold = h.cold
              \/ Addr(Arg(h, s.i)) \in DOMAIN Auth /\ a = Auth[Addr(Arg(h, s.i))]
    BY <1>1, <1>2, <1>3, <1>9, WarmStep DEF a
  <2> QED BY <1>7, <1>8, <1>9, <2>1
<1>10. CASE s.do \notin Warmers
  <2>1. g.accs = h.accs /\ g.cold = h.cold
    BY <1>2, <1>3, <1>10, StepKeeps
  <2> QED BY <1>7, <1>10, <2>1 DEF Warmers
<1> QED BY <1>9, <1>10

LEMMA MidStep ==
  ASSUME NEW g, NEW h, NEW f, NEW c, NEW op, NEW p, NEW k, StepTo(g, h, f, c, op, p, k)
  PROVE  Mid(g, f, p, k, op)
BY BaseStep, FromStartStep, OperandsStep, CountedStep, PaidForStep, LentStep, WarmthStep, OneKeyStep,
   AskedStep, RoomStep DEF Mid

\* A step that did not go through is the last.
LEMMA MidStays ==
  ASSUME NEW h, NEW f, NEW op, NEW p, NEW k \in Nat \ {0}, Mid(h, f, p, k - 1, op), h.out # "Ok"
  PROVE  Mid(h, f, p, k, op)
<1>1. \A D : ~Past(p, k, D) => ~Past(p, k - 1, D)
  BY PastStep
<1>2. \A j \in 1 .. k : j # k => j \in 1 .. k - 1
  OBVIOUS
<1>3. /\ Base(h, f) /\ PaidFor(h, f) /\ OneKey(h) /\ FromStart(h, f, p, k - 1) /\ Counted(h, f, p, k - 1)
      /\ Lent(h, f, p, k - 1) /\ Warmth(h, f, p, k - 1) /\ Asked(h, f, p, k - 1) /\ Room(h, f, p, k - 1, op)
  BY DEF Mid
<1>4. FromStart(h, f, p, k)
  BY <1>1, <1>3 DEF FromStart
<1>5. Counted(h, f, p, k)
  BY <1>1, <1>3 DEF Counted
<1>6. Lent(h, f, p, k)
  BY <1>1, <1>3 DEF Lent
<1>7. Asked(h, f, p, k)
  BY <1>1, <1>3 DEF Asked
<1>8. Room(h, f, p, k, op) /\ Operands(h, f, p, k)
  BY <1>3 DEF Room, Operands
<1>9. Warmth(h, f, p, k)
  <2> DEFINE Old == Warmers \ {"access"}
  <2>2. ~Past(p, k, Old) => ~Past(p, k - 1, Old)
    BY <1>1
  <2>3. ~Past(p, k, Warmers) => ~Past(p, k - 1, Warmers)
    BY <1>1
  <2> QED BY <1>3, <2>2, <2>3 DEF Warmth
<1> QED BY <1>3, <1>4, <1>5, <1>6, <1>7, <1>8, <1>9 DEF Mid

LEMMA MidStart ==
  ASSUME NEW f, NEW c, NEW op, NEW p, Started(f, c, op)
  PROVE  Mid(f, f, p, 0, op)
<1>1. /\ IsFrame(f) /\ Clean(f) /\ f.out = "Ok" /\ f.lent = 0 /\ MemoryFits(f) /\ f.paid = Cost(f.mem)
      /\ f.spent <= f.limit /\ Len(f.stack) <= StackLimit
  BY DEF Started
<1>2. \A D : ~Past(p, 0, D)
  BY DEF Past
<1>3. /\ f.mem \in Nat /\ Cost(f.mem) \in Nat /\ f.limit \in Nat /\ f.spent \in Int /\ f.paid \in Int
      /\ Len(f.stack) \in Nat /\ StackLimit \in Nat
  BY <1>1, FieldTypes, CostType, LengthType, MachineAssumption
<1>4. Base(f, f)
  <2>1. Solvent(f)
    BY <1>1, <1>3 DEF Solvent, Clean
  <2> QED BY <1>1, <2>1 DEF Base, Only, IsFrame
<1>5. FromStart(f, f, p, 0) /\ Operands(f, f, p, 0)
  BY DEF FromStart, Operands
<1>6. Counted(f, f, p, 0)
  <2>1. f.pops = 0 /\ f.push = <<>> /\ Len(f.push) = 0
    BY <1>1 DEF Clean
  <2> QED BY <1>1, <1>3, <2>1 DEF Counted
<1>7. PaidFor(f, f)
  <2>1. f.owed = 0 /\ f.paid + 0 = f.paid
    BY <1>1, <1>3 DEF Clean
  <2> QED BY <1>1, <1>3, <2>1 DEF PaidFor
<1>8. Lent(f, f, p, 0)
  BY <1>1 DEF Lent, Clean
<1>9. Warmth(f, f, p, 0)
  <2>1. f.accs = <<>> /\ f.cold = <<>> /\ Len(f.accs) = 0 /\ Len(f.cold) = 0
    BY <1>1 DEF Clean
  <2> QED BY <2>1 DEF Warmth
<1>10. OneKey(f)
  BY <1>1 DEF OneKey, Clean
<1>11. Asked(f, f, p, 0)
  BY <1>1 DEF Asked, Only, IsFrame
<1>12. Room(f, f, p, 0, op)
  BY <1>1 DEF Room
<1> QED BY <1>4, <1>5, <1>6, <1>7, <1>8, <1>9, <1>10, <1>11, <1>12 DEF Mid

LEMMA MidCourse ==
  ASSUME NEW h, NEW f, NEW c, NEW op, NEW p, Course(h, f, c, op, p), Started(f, c, op), Legal(p, op),
         NEW n \in 0 .. Len(p)
  PROVE  Mid(h[n], f, p, n, op)
<1> DEFINE Bad == {k \in Nat : k <= Len(p) /\ ~Mid(h[k], f, p, k, op)}
<1>0. Len(p) \in Nat
  BY DEF Legal
<1>1. Bad = {}
  <2>1. SUFFICES ASSUME Bad # {} PROVE FALSE
    OBVIOUS
  <2>2. PICK k \in Bad : \A m \in Bad : k <= m
    <3>1. Bad \subseteq Nat
      OBVIOUS
    <3> HIDE DEF Bad
    <3> QED BY <2>1, <3>1, LeastExists
  <2>3. k \in Nat /\ k <= Len(p) /\ ~Mid(h[k], f, p, k, op)
    OBVIOUS
  <2>4. k # 0
    BY <2>3, MidStart DEF Course
  <2>5. k - 1 \in Nat /\ k - 1 <= Len(p) /\ ~ k <= k - 1 /\ k \in 1 .. Len(p) /\ k \in Nat \ {0}
    BY <1>0, <2>3, <2>4
  <2>6. k - 1 \notin Bad
    <3> HIDE DEF Bad
    <3> QED BY <2>2, <2>5
  <2>7. Mid(h[k - 1], f, p, k - 1, op)
    BY <2>5, <2>6
  <2>8. h[k] = Then(h[k - 1], c, op, p[k])
    BY <2>5 DEF Course
  <2>9. CASE h[k - 1].out = "Ok"
    <3>1. Stepping(h[k - 1], f, c, op, p, k)
      BY <1>0, <2>5, <2>7, <2>9 DEF Stepping
    <3>2. StepTo(h[k], h[k - 1], f, c, op, p, k)
      BY <2>8, <2>9, <3>1 DEF StepTo, Then
    <3> QED BY <2>3, <3>2, MidStep
  <2>10. CASE h[k - 1].out # "Ok"
    <3>1. h[k] = h[k - 1]
      BY <2>8, <2>10 DEF Then
    <3> QED BY <2>3, <2>5, <2>7, <2>10, <3>1, MidStays
  <2> QED BY <2>9, <2>10
<1>2. n \in Nat /\ n <= Len(p)
  BY <1>0
<1> QED BY <1>1, <1>2

\* What an instruction makes of a frame.
LEMMA HandleMid ==
  ASSUME NEW f, NEW c, NEW op, Started(f, c, op)
  PROVE  \E p : Len(p) \in Nat /\ Mid(Handle(f, c), f, p, Len(p), op)
<1> DEFINE n == c[f.pc + 1].n
           p == Dispatch(op, n)
<1>1. op = c[f.pc + 1].op /\ n \in Nat
  BY AtFacts DEF Started, At
<1>2. Legal(p, op)
  BY <1>1, DispatchLegal
<1>3. Len(p) \in Nat
  BY <1>2 DEF Legal
<1>4. PICK h : Course(h, f, c, op, p) /\ Handle(f, c) = h[Len(p)]
  BY <1>1, <1>3, HandleCourse
<1>5. Len(p) \in 0 .. Len(p)
  BY <1>3
<1>6. Mid(h[Len(p)], f, p, Len(p), op)
  <2> HIDE DEF p, n
  <2> QED BY <1>2, <1>4, <1>5, MidCourse
<1> QED BY <1>3, <1>4, <1>6

\* How often a is in s.
Times(s, a) == Cardinality({i \in DOMAIN s : s[i] = a})

Applied == Pending \cup {"stack", "spent", "refund", "warm", "warmKeys", "paid", "colds"}

LEMMA TimesType == ASSUME NEW s \in Seq(Acct), NEW a PROVE Times(s, a) \in Nat
<1> DEFINE r == {i \in DOMAIN s : s[i] = a}
<1>1. DOMAIN s = 1 .. Len(s) /\ Len(s) \in Nat
  OBVIOUS
<1>2. IsFiniteSet(1 .. Len(s))
  BY <1>1, RowFinite
<1>3. r \subseteq 1 .. Len(s)
  BY <1>1
<1>4. IsFiniteSet(r)
  BY <1>2, <1>3, FS_Subset
<1>5. Cardinality(r) \in Nat
  BY <1>4, FS_CardinalityType
<1> QED BY <1>5 DEF Times

\* An account that is in s once at most.
LEMMA TimesOnce ==
  ASSUME NEW s \in Seq(Acct), NEW a, \A i, j \in 1 .. Len(s) : s[i] = a /\ s[j] = a => i = j
  PROVE  /\ Times(s, a) <= 1
         /\ (\A i \in 1 .. Len(s) : s[i] # a) => Times(s, a) = 0
<1> DEFINE r == {i \in DOMAIN s : s[i] = a}
<1>1. DOMAIN s = 1 .. Len(s) /\ Len(s) \in Nat
  OBVIOUS
<1>2. CASE r = {}
  <2>1. Cardinality(r) = 0
    BY <1>2, FS_EmptySet
  <2> QED BY <2>1 DEF Times
<1>3. CASE r # {}
  <2>1. PICK x : x \in r
    BY <1>3
  <2>2. r = {x}
    BY <1>1, <2>1
  <2>3. Cardinality({x}) = 1
    BY FS_Singleton
  <2>4. Times(s, a) = 1
    BY <2>2, <2>3 DEF Times
  <2>5. ~ \A i \in 1 .. Len(s) : s[i] # a
    BY <1>1, <2>1
  <2> QED BY <2>4, <2>5
<1> QED BY <1>2, <1>3

\* Nothing is in a sequence of two more than twice.
LEMMA TimesTwo ==
  ASSUME NEW s \in Seq(Acct), NEW a, Len(s) <= 2
  PROVE  Times(s, a) <= 2
<1> DEFINE r == {i \in DOMAIN s : s[i] = a}
<1>1. DOMAIN s = 1 .. Len(s) /\ Len(s) \in Nat
  OBVIOUS
<1>2. r \subseteq 1 .. 2
  BY <1>1
<1>3. IsFiniteSet(1 .. 2) /\ Cardinality(1 .. 2) = IF 1 > 2 THEN 0 ELSE 2 - 1 + 1
  BY ONLY FS_Interval, 1 \in Int, 2 \in Int
<1>4. Cardinality(r) <= Cardinality(1 .. 2)
  BY <1>2, <1>3, FS_Subset
<1> QED BY <1>3, <1>4 DEF Times

LEMMA NeverTimes ==
  ASSUME NEW s \in Seq(Acct), NEW a, \A i \in 1 .. Len(s) : s[i] # a
  PROVE  Times(s, a) = 0
<1>1. {i \in DOMAIN s : s[i] = a} = {}
  OBVIOUS
<1> QED BY <1>1, FS_EmptySet DEF Times

LEMMA ApplyFacts ==
  ASSUME NEW f, IsFrame(f), f.pops <= Len(f.stack)
  PROVE  LET g == Apply(f) IN
         /\ IsFrame(g) /\ Only(g, f, Applied) /\ Clean(g)
         /\ Len(g.stack) = Len(f.stack) - f.pops + Len(f.push)
         /\ g.spent = f.spent + f.charge /\ g.paid = f.paid + f.owed
         /\ g.warm = f.warm \cup {f.accs[i] : i \in 1 .. Len(f.accs)}
         /\ \A a \in Acct : g.colds[a] = f.colds[a] + Times(f.cold, a)
<1> DEFINE g == Apply(f)
<1>0. /\ f.stack \in Seq(Word) /\ f.push \in Seq(Word) /\ f.accs \in Seq(Acct) /\ f.cold \in Seq(Acct)
      /\ f.pops \in Nat /\ f.spent \in Int /\ f.charge \in Int /\ f.paid \in Int /\ f.owed \in Int
      /\ f.refund \in Int /\ f.gain \in Int /\ f.warm \in SUBSET Acct /\ f.warmKeys \in SUBSET Word
      /\ f.keys \in SUBSET Word /\ f.colds \in [Acct -> Nat] /\ Len(f.stack) \in Nat /\ Len(f.push) \in Nat
  BY FieldTypes, LengthType
<1>1. Shape(f) /\ DOMAIN f = Fields
  BY DEF IsFrame, Shape
<1>2. DOMAIN g = Fields
  BY <1>1 DEF Apply
<1>3. Shape(g)
  BY ZenonT(30), <1>2 DEF Shape, Apply
<1>4. g.pops = 0 /\ g.push = <<>> /\ g.charge = 0 /\ g.gain = 0
  BY <1>1 DEF Fields, Apply
<1>5. g.accs = <<>> /\ g.keys = {} /\ g.owed = 0 /\ g.cold = <<>>
  BY <1>1 DEF Fields, Apply
<1>6. g.stack = SubSeq(f.stack, 1, Len(f.stack) - f.pops) \o f.push
  BY <1>1 DEF Fields, Apply
<1>7. g.spent = f.spent + f.charge /\ g.refund = f.refund + f.gain /\ g.paid = f.paid + f.owed
  BY <1>1 DEF Fields, Apply
<1>8. g.warm = f.warm \cup Fn!Range(f.accs) /\ g.warmKeys = f.warmKeys \cup f.keys
  BY <1>1 DEF Fields, Apply
<1>9. g.colds = [a \in Acct |-> f.colds[a] + Times(f.cold, a)]
  BY <1>1 DEF Fields, Apply, Times
<1>10. \A x \in Fields \ Applied : g[x] = f[x]
  BY <1>1 DEF Fields, Apply, Pending, Applied
<1> HIDE DEF g
<1>11. Clean(g)
  BY <1>4, <1>5 DEF Clean
<1>12. Only(g, f, Applied)
  BY <1>3, <1>10 DEF Only
<1>13. Fn!Range(f.accs) = {f.accs[i] : i \in 1 .. Len(f.accs)}
  <2>1. DOMAIN f.accs = 1 .. Len(f.accs)
    BY <1>0
  <2> QED BY <2>1 DEF Fn!Range
<1>14. Fn!Range(f.accs) \subseteq Acct
  BY SMTT(20), <1>0, <1>13
<1> DEFINE m == Len(f.stack) - f.pops
           front == SubSeq(f.stack, 1, m)
<1>15. front \in Seq(Word) /\ Len(front) = m
  <2>1. m \in Nat /\ m <= Len(f.stack)
    BY <1>0
  <2> HIDE DEF m
  <2>2. front \in Seq(Word)
    BY <1>0, <2>1
  <2>3. Len(front) = m
    BY <1>0, <2>1
  <2> QED BY <2>2, <2>3
<1>16. g.stack = front \o f.push
  BY <1>6
<1> HIDE DEF front
<1>17. g.stack \in Seq(Word) /\ Len(g.stack) = Len(front) + Len(f.push)
  <2>1. front \in Seq(Word) /\ f.push \in Seq(Word)
    BY <1>0, <1>15
  <2>2. \A x, y \in Seq(Word) : x \o y \in Seq(Word) /\ Len(x \o y) = Len(x) + Len(y)
    OBVIOUS
  <2> QED BY <1>16, <2>1, <2>2
<1>18. g.colds \in [Acct -> Nat] /\ \A a \in Acct : g.colds[a] = f.colds[a] + Times(f.cold, a)
  <2>1. \A a \in Acct : f.colds[a] + Times(f.cold, a) \in Nat
    BY <1>0, TimesType
  <2> QED BY <1>9, <2>1
<1>19. \A y \in Applied : g[y] \in TypeOf(y)
  <2>1. \A y \in Pending : g[y] \in TypeOf(y)
    BY <1>11, CleanTyped
  <2>2. g.stack \in TypeOf("stack") /\ g.colds \in TypeOf("colds")
    BY <1>17, <1>18, TypeIs
  <2>3. g.spent \in TypeOf("spent") /\ g.refund \in TypeOf("refund") /\ g.paid \in TypeOf("paid")
    <3>1. /\ f.spent \in Int /\ f.charge \in Int /\ f.paid \in Int /\ f.owed \in Int
          /\ f.refund \in Int /\ f.gain \in Int
      BY <1>0
    <3>2. g.spent \in Int /\ g.refund \in Int /\ g.paid \in Int
      BY <1>7, <3>1
    <3> QED BY <3>2, TypeIs
  <2>4. g.warm \in TypeOf("warm") /\ g.warmKeys \in TypeOf("warmKeys")
    BY <1>0, <1>8, <1>14, TypeIs
  <2> QED BY <2>1, <2>2, <2>3, <2>4 DEF Applied
<1>20. IsFrame(g)
  BY <1>12, <1>19, Retyped
<1>21. g.warm = f.warm \cup {f.accs[i] : i \in 1 .. Len(f.accs)}
  BY <1>8, <1>13
<1>22. Len(g.stack) = Len(f.stack) - f.pops + Len(f.push)
  BY <1>15, <1>17
<1> QED BY <1>7, <1>11, <1>12, <1>18, <1>20, <1>21, <1>22 DEF g

----------------------------------------------------------------------------
(* A frame between two instructions.                                       *)

Awake == {"running", "fetching", "Call"}

Safe(c, f, st) ==
  /\ CodeFits(c) /\ IsFrame(f) /\ Clean(f)
  /\ MemoryFits(f) /\ f.paid = Cost(f.mem) /\ Len(f.stack) <= StackLimit
  /\ st # "OutOfGas" => f.spent <= f.limit
  /\ st # "Call" => f.lent = 0
  /\ st \in {"running", "fetching"} => f.out = "Ok"
  /\ st = "Call" /\ f.target[2] > 0 => f.target[1] + f.target[2] <= f.mem
  /\ \A a \in Acct : f.colds[a] <= Reached(a) /\ (st \in Awake /\ a \notin f.warm => f.colds[a] = 0)

LEMMA SafeStarted ==
  ASSUME NEW c, NEW f, Safe(c, f, "running"), f.pc < Len(c)
  PROVE  Started(f, c, c[f.pc + 1].op)
BY DEF Safe, Started, At

\* What an instruction is worth, once it is done.
LEMMA AppliedFacts ==
  ASSUME NEW c, NEW f, Safe(c, f, "running"), f.pc < Len(c), NEW g, g = Handle(f, c)
  PROVE  LET h == Apply(g) IN
         /\ IsFrame(h) /\ Clean(h) /\ MemoryFits(h) /\ h.paid = Cost(h.mem)
         /\ Len(h.stack) <= StackLimit /\ h.out = g.out /\ h.limit = f.limit
         /\ g.out # "OutOfGas" => h.spent <= h.limit
         /\ h.lent # 0 => g.out = "Call"
         /\ f.spent + h.lent <= h.spent
<1> DEFINE op == c[f.pc + 1].op
           h == Apply(g)
<1>1. Started(f, c, op)
  BY SafeStarted
<1>2. PICK p : Len(p) \in Nat /\ Mid(g, f, p, Len(p), op)
  <2> HIDE DEF op
  <2> QED BY <1>1, HandleMid
<1>3. /\ Base(g, f) /\ FromStart(g, f, p, Len(p)) /\ Counted(g, f, p, Len(p)) /\ PaidFor(g, f)
      /\ Lent(g, f, p, Len(p))
  BY <1>2 DEF Mid
<1>4. IsFrame(g) /\ IsFrame(f) /\ Solvent(g) /\ g.spent = f.spent /\ g.limit = f.limit
  BY <1>1, <1>3 DEF Base, Only, Started, Fields, Kept
<1>5. /\ Len(g.stack) \in Nat /\ g.pops <= Len(g.stack)
      /\ Len(g.stack) - g.pops + Len(g.push) <= StackLimit
  <2>1. Len(g.stack) = Len(f.stack)
    BY <1>3 DEF FromStart
  <2>2. g.pops <= Len(f.stack) /\ Len(f.stack) - g.pops + Len(g.push) <= StackLimit
    BY <1>3 DEF Counted
  <2> QED BY <1>4, <2>1, <2>2, LengthType
<1>6. /\ IsFrame(h) /\ Only(h, g, Applied) /\ Clean(h)
      /\ Len(h.stack) = Len(g.stack) - g.pops + Len(g.push)
      /\ h.spent = g.spent + g.charge /\ h.paid = g.paid + g.owed
  BY <1>4, <1>5, ApplyFacts
<1> HIDE DEF h
<1>7. h.mem = g.mem /\ h.out = g.out /\ h.limit = g.limit /\ h.lent = g.lent
  BY <1>6 DEF Only, Fields, Applied, Pending
<1>8. MemoryFits(h) /\ h.paid = Cost(h.mem)
  BY <1>3, <1>6, <1>7 DEF PaidFor, MemoryFits
<1>9. g.out # "OutOfGas" => h.spent <= h.limit
  BY <1>4, <1>6, <1>7 DEF Solvent
<1>10. h.lent # 0 => g.out = "Call"
  <2>1. ~ Len(p) < Len(p)
    BY <1>2
  <2> QED BY <1>3, <1>7, <2>1 DEF Lent
<1>11. f.spent + h.lent <= h.spent
  <2>1. g.lent <= g.charge
    BY <1>3 DEF Lent
  <2>2. f.spent \in Int /\ g.charge \in Int /\ g.lent \in Nat
    BY <1>4, FieldTypes
  <2> QED BY <1>4, <1>6, <1>7, <2>1, <2>2
<1> QED BY <1>4, <1>5, <1>6, <1>7, <1>8, <1>9, <1>10, <1>11 DEF h

\* The colds of an instruction, once it is done.
LEMMA AppliedColds ==
  ASSUME NEW c, NEW f, Safe(c, f, "running"), f.pc < Len(c), NEW g, g = Handle(f, c),
         NEW a \in Acct
  PROVE  LET h == Apply(g) IN
         /\ h.colds[a] <= Reached(a)
         /\ g.out \in {"Ok", "Call"} /\ a \notin h.warm => h.colds[a] = 0
<1> DEFINE op == c[f.pc + 1].op
           h == Apply(g)
<1>1. Started(f, c, op)
  BY SafeStarted
<1>2. PICK p : Len(p) \in Nat /\ Mid(g, f, p, Len(p), op)
  <2> HIDE DEF op
  <2> QED BY <1>1, HandleMid
<1>3. Base(g, f) /\ FromStart(g, f, p, Len(p)) /\ Counted(g, f, p, Len(p)) /\ Warmth(g, f, p, Len(p))
  BY <1>2 DEF Mid
<1>4. IsFrame(g) /\ IsFrame(f) /\ g.warm = f.warm /\ g.colds = f.colds
  BY <1>1, <1>3 DEF Base, Only, Started, Fields, Kept
<1>5. g.pops <= Len(g.stack)
  BY <1>3 DEF Counted, FromStart
<1>6. /\ h.warm = g.warm \cup {g.accs[i] : i \in 1 .. Len(g.accs)}
      /\ h.colds[a] = g.colds[a] + Times(g.cold, a)
  BY SMTT(30), <1>4, <1>5, ApplyFacts
<1> HIDE DEF h
<1>7. g.cold \in Seq(Acct) /\ f.colds[a] \in Nat /\ Times(g.cold, a) \in Nat
  BY <1>4, FieldTypes, TimesType
<1>8. f.colds[a] <= Reached(a) /\ Reached(a) \in Nat /\ (a \notin f.warm => f.colds[a] = 0)
  BY DEF Safe, Awake, Reached
<1>9. /\ Times(g.cold, a) <= Reached(a)
      /\ (\A i \in 1 .. Len(g.cold) : g.cold[i] # a) => Times(g.cold, a) = 0
  <2>1. CASE OwnDelegate(a)
    <3>1. Times(g.cold, a) <= 2
      BY <1>3, <1>7, TimesTwo DEF Warmth
    <3> QED BY <1>7, <2>1, <3>1, NeverTimes DEF Reached
  <2>2. CASE ~OwnDelegate(a)
    <3>1. \A i, j \in 1 .. Len(g.cold) : g.cold[i] = a /\ g.cold[j] = a => i = j
      BY <1>3, <2>2 DEF Warmth
    <3>2. Times(g.cold, a) <= 1
      BY <1>7, <3>1, TimesOnce
    <3> QED BY <1>7, <2>2, <3>2, NeverTimes DEF Reached
  <2> QED BY <2>1, <2>2
<1>10. (\E i \in 1 .. Len(g.cold) : g.cold[i] = a) => a \notin f.warm
  BY <1>3 DEF Warmth
<1>11. h.colds[a] <= Reached(a)
  BY <1>4, <1>6, <1>7, <1>8, <1>9, <1>10
<1>12. ASSUME g.out \in {"Ok", "Call"}, a \notin h.warm
       PROVE  h.colds[a] = 0
  <2>1. a \notin f.warm
    BY <1>4, <1>6, <1>12
  <2>2. \A i \in 1 .. Len(g.cold) : \E j \in 1 .. Len(g.accs) : g.accs[j] = g.cold[i]
    BY <1>3, <1>12 DEF Warmth
  <2>3. \A i \in 1 .. Len(g.cold) : g.cold[i] # a
    BY <1>6, <1>12, <2>2
  <2> QED BY <1>4, <1>6, <1>7, <1>8, <1>9, <2>1, <2>3
<1> QED BY <1>11, <1>12 DEF h

\* A frame that asks for data forgets what is pending, and is as it was.
LEMMA AskingFacts ==
  ASSUME NEW c, NEW f, Safe(c, f, "running"), f.pc < Len(c), NEW g, g = Handle(f, c), g.out = "Fetch"
  PROVE  /\ IsFrame(Reset(g)) /\ Clean(Reset(g)) /\ Reset(g).out = "Ok"
         /\ Only(Reset(g), f, Pending \cup {"out", "want"}) /\ IsFrame(g)
<1> DEFINE op == c[f.pc + 1].op
<1>1. Started(f, c, op)
  BY SafeStarted
<1>2. PICK p : Len(p) \in Nat /\ Mid(g, f, p, Len(p), op)
  <2> HIDE DEF op
  <2> QED BY <1>1, HandleMid
<1>3. IsFrame(g) /\ Only(g, f, Pending \cup {"out", "want"})
  BY <1>2 DEF Mid, Base, Asked
<1>4. /\ IsFrame(Reset(g)) /\ Only(Reset(g), g, Pending \cup {"out", "want"})
      /\ Clean(Reset(g)) /\ Reset(g).out = "Ok"
  BY <1>3, ResetFacts
<1>5. Only(Reset(g), f, Pending \cup {"out", "want"})
  BY <1>3, <1>4, OnlyOn
<1> QED BY <1>3, <1>4, <1>5

\* The region a call names is in the memory it paid for.
LEMMA CallingFacts ==
  ASSUME NEW c, NEW f, Safe(c, f, "running"), f.pc < Len(c), NEW g, g = Handle(f, c), g.out = "Call"
  PROVE  LET r == ReturnRegion(f, c) IN r \in Nat \X Nat /\ (r[2] > 0 => r[1] + r[2] <= g.mem)
<1> DEFINE op == c[f.pc + 1].op
           i == RetIndex(op)
<1>1. Started(f, c, op)
  BY SafeStarted
<1>2. PICK p : Len(p) \in Nat /\ Mid(g, f, p, Len(p), op)
  <2> HIDE DEF op
  <2> QED BY <1>1, HandleMid
<1>3. i # 0 => i + 1 <= Len(f.stack) /\ Fits(f, i, i + 1, g.mem)
  BY <1>2 DEF Mid, Room
<1>4. i \in {0, 5, 6}
  BY DEF RetIndex
<1>5. ReturnRegion(f, c) = IF i = 0 THEN <<0, 0>> ELSE <<AsUsize(Arg(f, i)), AsUsize(Arg(f, i + 1))>>
  BY DEF ReturnRegion, RetIndex
<1>6. IsFrame(f) /\ Len(f.stack) \in Nat
  BY <1>1, LengthType DEF Started
<1>7. i # 0 => AsUsize(Arg(f, i)) \in Nat /\ AsUsize(Arg(f, i + 1)) \in Nat
  <2> HAVE i # 0
  <2>1. i \in 1 .. Len(f.stack) /\ i + 1 \in 1 .. Len(f.stack)
    <3> HIDE DEF i
    <3> QED BY <1>3, <1>4, <1>6
  <2> QED BY <1>6, <2>1, ArgWord
<1> HIDE DEF i
<1> QED BY <1>3, <1>5, <1>7 DEF Fits

LEMMA SmallWord == 0 \in Word /\ 1 \in Word
<1>1. Bool(TRUE) \in Word /\ Bool(FALSE) \in Word
  BY BoolWord
<1> QED BY <1>1 DEF Bool

\* One field is written.
LEMMA Put ==
  ASSUME NEW f, IsFrame(f), NEW y \in Fields, NEW x \in TypeOf(y)
  PROVE  LET g == [f EXCEPT ![y] = x] IN IsFrame(g) /\ Only(g, f, {y}) /\ g[y] = x
<1> DEFINE g == [f EXCEPT ![y] = x]
<1>1. Shape(f) /\ DOMAIN f = Fields
  BY DEF IsFrame, Shape
<1>2. DOMAIN g = Fields
  BY <1>1
<1>3. Shape(g)
  BY <1>2 DEF Shape
<1>4. g[y] = x
  BY <1>1
<1>5. \A z \in Fields \ {y} : g[z] = f[z]
  BY <1>1
<1> HIDE DEF g
<1>6. Only(g, f, {y})
  BY <1>3, <1>5 DEF Only
<1>7. \A z \in {y} : g[z] \in TypeOf(z)
  BY <1>4
<1>8. IsFrame(g)
  <2> HIDE DEF Only
  <2> QED BY <1>6, <1>7, Retyped
<1> QED BY <1>4, <1>6, <1>8 DEF g

LEMMA PcPut ==
  ASSUME NEW f, IsFrame(f), NEW x \in Nat
  PROVE  LET g == [f EXCEPT !.pc = x] IN IsFrame(g) /\ Only(g, f, {"pc"}) /\ g.pc = x
<1>1. "pc" \in Fields /\ x \in TypeOf("pc")
  BY TypeIs DEF Fields
<1>2. LET g == [f EXCEPT !["pc"] = x] IN IsFrame(g) /\ Only(g, f, {"pc"}) /\ g["pc"] = x
  BY <1>1, Put
<1> QED BY <1>2

LEMMA WantPut ==
  ASSUME NEW f, IsFrame(f), NEW x \in SUBSET Everything
  PROVE  LET g == [f EXCEPT !.want = x] IN IsFrame(g) /\ Only(g, f, {"want"}) /\ g.want = x
<1>1. "want" \in Fields /\ x \in TypeOf("want")
  BY TypeIs DEF Fields
<1>2. LET g == [f EXCEPT !["want"] = x] IN IsFrame(g) /\ Only(g, f, {"want"}) /\ g["want"] = x
  BY <1>1, Put
<1> QED BY <1>2

LEMMA KnownPut ==
  ASSUME NEW f, IsFrame(f), NEW x \in SUBSET Everything
  PROVE  LET g == [f EXCEPT !.known = x] IN IsFrame(g) /\ Only(g, f, {"known"}) /\ g.known = x
<1>1. "known" \in Fields /\ x \in TypeOf("known")
  BY TypeIs DEF Fields
<1>2. LET g == [f EXCEPT !["known"] = x] IN IsFrame(g) /\ Only(g, f, {"known"}) /\ g["known"] = x
  BY <1>1, Put
<1> QED BY <1>2

LEMMA TargetPut ==
  ASSUME NEW f, IsFrame(f), NEW x \in Nat \X Nat
  PROVE  LET g == [f EXCEPT !.target = x] IN IsFrame(g) /\ Only(g, f, {"target"}) /\ g.target = x
<1>1. "target" \in Fields /\ x \in TypeOf("target")
  BY TypeIs DEF Fields
<1>2. LET g == [f EXCEPT !["target"] = x] IN IsFrame(g) /\ Only(g, f, {"target"}) /\ g["target"] = x
  BY <1>1, Put
<1> QED BY <1>2

\* What a frame needs not to have lost when its program counter, its answer, its
\* target or its end is written.
Marks == {"pc", "want", "known", "target", "out"}

LEMMA Marked ==
  ASSUME NEW f, NEW g, Only(g, f, Marks)
  PROVE  /\ g.mem = f.mem /\ g.paid = f.paid /\ g.stack = f.stack /\ g.spent = f.spent
         /\ g.limit = f.limit /\ g.lent = f.lent /\ g.colds = f.colds /\ g.warm = f.warm
         /\ Clean(f) => Clean(g)
<1>1. /\ g.mem = f.mem /\ g.paid = f.paid /\ g.stack = f.stack /\ g.spent = f.spent
      /\ g.limit = f.limit /\ g.lent = f.lent /\ g.colds = f.colds /\ g.warm = f.warm
  BY DEF Only, Fields, Marks
<1>2. g.pops = f.pops /\ g.push = f.push /\ g.charge = f.charge /\ g.gain = f.gain
  BY DEF Only, Fields, Marks
<1>3. g.accs = f.accs /\ g.keys = f.keys /\ g.owed = f.owed /\ g.cold = f.cold
  BY DEF Only, Fields, Marks
<1> QED BY <1>1, <1>2, <1>3 DEF Clean

LEMMA OnlyLess == ASSUME NEW f, NEW g, NEW D, NEW E, Only(g, f, D), D \subseteq E PROVE Only(g, f, E)
BY DEF Only

\* From f to h, neither the gas of a frame and what it lent grow together, nor its limit.
Spends(h, f) == h.limit = f.limit /\ f.spent + h.lent <= h.spent + f.lent

LEMMA SpendsLess ==
  ASSUME NEW f, NEW h, IsFrame(f), IsFrame(h), Spends(h, f)
  PROVE  h.limit - h.spent + h.lent <= f.limit - f.spent + f.lent
<1>1. /\ f.limit \in Nat /\ f.spent \in Int /\ f.lent \in Nat
      /\ h.limit \in Nat /\ h.spent \in Int /\ h.lent \in Nat
  BY FieldTypes
<1> QED BY <1>1 DEF Spends

LEMMA SafeDone ==
  ASSUME NEW c, NEW f, Safe(c, f, "running"), f.pc < Len(c), NEW g, g = Handle(f, c), g.out = "Ok",
         NEW x \in Nat
  PROVE  LET h == [Apply(g) EXCEPT !.pc = x] IN Safe(c, h, "running") /\ Spends(h, f)
<1> DEFINE e == Apply(g)
           h == [e EXCEPT !.pc = x]
<1>1. /\ IsFrame(e) /\ Clean(e) /\ MemoryFits(e) /\ e.paid = Cost(e.mem)
      /\ Len(e.stack) <= StackLimit /\ e.out = "Ok" /\ e.limit = f.limit
      /\ e.spent <= e.limit /\ e.lent = 0 /\ f.spent + e.lent <= e.spent
  <2>1. LET y == Apply(g) IN
         /\ IsFrame(y) /\ Clean(y) /\ MemoryFits(y) /\ y.paid = Cost(y.mem)
         /\ Len(y.stack) <= StackLimit /\ y.out = g.out /\ y.limit = f.limit
         /\ g.out # "OutOfGas" => y.spent <= y.limit
         /\ y.lent # 0 => g.out = "Call"
         /\ f.spent + y.lent <= y.spent
    BY AppliedFacts
  <2> HIDE DEF Safe
  <2> QED BY <2>1
<1>2. \A a \in Acct : e.colds[a] <= Reached(a) /\ (a \notin e.warm => e.colds[a] = 0)
  BY AppliedColds
<1> HIDE DEF e
<1>3. IsFrame(h) /\ Only(h, e, {"pc"})
  BY <1>1, PcPut
<1> HIDE DEF h
<1>4. Only(h, e, Marks) /\ h.out = e.out
  BY <1>3, OnlyLess DEF Marks, Only, Fields
<1>5. /\ h.mem = e.mem /\ h.paid = e.paid /\ h.stack = e.stack /\ h.spent = e.spent
      /\ h.limit = e.limit /\ h.lent = e.lent /\ h.colds = e.colds /\ h.warm = e.warm /\ Clean(h)
  BY <1>1, <1>4, Marked
<1>6. CodeFits(c) /\ f.lent = 0
  BY DEF Safe
<1>7. Spends(h, f)
  <2>1. h.spent \in Int
    BY <1>3, FieldTypes
  <2> QED BY <1>1, <1>5, <1>6, <2>1 DEF Spends
<1>8. Safe(c, h, "running")
  BY <1>1, <1>2, <1>3, <1>4, <1>5, <1>6 DEF Safe, MemoryFits
<1> QED BY <1>7, <1>8 DEF h, e

LEMMA SafeLeaves ==
  ASSUME NEW c, NEW f, Safe(c, f, "running"), f.pc < Len(c), NEW g, g = Handle(f, c),
         g.out \notin {"Ok", "Fetch", "Call"}
  PROVE  Safe(c, Apply(g), g.out) /\ Spends(Apply(g), f)
<1> DEFINE h == Apply(g)
<1>1. /\ IsFrame(h) /\ Clean(h) /\ MemoryFits(h) /\ h.paid = Cost(h.mem)
      /\ Len(h.stack) <= StackLimit /\ h.out = g.out /\ h.limit = f.limit
      /\ g.out # "OutOfGas" => h.spent <= h.limit
      /\ h.lent # 0 => g.out = "Call"
      /\ f.spent + h.lent <= h.spent
  BY AppliedFacts
<1>2. \A a \in Acct : h.colds[a] <= Reached(a)
  BY AppliedColds
<1> HIDE DEF h
<1>3. h.lent = 0
  BY <1>1
<1>4. g.out \in Outs
  BY <1>1, FieldTypes
<1>5. g.out \notin Awake
  BY <1>4 DEF Outs, Awake
<1>6. CodeFits(c) /\ f.lent = 0
  BY DEF Safe
<1>7. Spends(h, f)
  <2>1. h.spent \in Int
    BY <1>1, FieldTypes
  <2> QED BY <1>1, <1>6, <2>1 DEF Spends
<1>8. Safe(c, h, g.out)
  BY <1>1, <1>2, <1>3, <1>5, <1>6 DEF Safe, Awake
<1> QED BY <1>7, <1>8 DEF h

LEMMA SafeCalls ==
  ASSUME NEW c, NEW f, Safe(c, f, "running"), f.pc < Len(c), NEW g, g = Handle(f, c), g.out = "Call"
  PROVE  LET h == [Apply(g) EXCEPT !.target = ReturnRegion(f, c)]
         IN  Safe(c, h, "Call") /\ Spends(h, f)
<1> DEFINE e == Apply(g)
           r == ReturnRegion(f, c)
           h == [e EXCEPT !.target = r]
<1>1. /\ IsFrame(e) /\ Clean(e) /\ MemoryFits(e) /\ e.paid = Cost(e.mem)
      /\ Len(e.stack) <= StackLimit /\ e.limit = f.limit
      /\ g.out # "OutOfGas" => e.spent <= e.limit
      /\ f.spent + e.lent <= e.spent
  BY AppliedFacts
<1>2. \A a \in Acct : e.colds[a] <= Reached(a) /\ (a \notin e.warm => e.colds[a] = 0)
  BY AppliedColds
<1>3. r \in Nat \X Nat /\ (r[2] > 0 => r[1] + r[2] <= g.mem)
  BY CallingFacts
<1>4. e.mem = g.mem
  <2>1. DOMAIN g = Fields \/ DOMAIN g # Fields
    OBVIOUS
  <2> QED BY DEF Apply
<1> HIDE DEF e, r
<1>5. IsFrame(h) /\ Only(h, e, {"target"}) /\ h.target = r
  BY <1>1, <1>3, TargetPut
<1> HIDE DEF h
<1>6. Only(h, e, Marks)
  BY <1>5, OnlyLess DEF Marks
<1>7. /\ h.mem = e.mem /\ h.paid = e.paid /\ h.stack = e.stack /\ h.spent = e.spent
      /\ h.limit = e.limit /\ h.lent = e.lent /\ h.colds = e.colds /\ h.warm = e.warm /\ Clean(h)
  BY <1>1, <1>6, Marked
<1>8. CodeFits(c) /\ f.lent = 0
  BY DEF Safe
<1>9. Spends(h, f)
  <2>1. h.spent \in Int
    BY <1>5, FieldTypes
  <2> QED BY <1>1, <1>7, <1>8, <2>1 DEF Spends
<1>10. Safe(c, h, "Call")
  BY <1>1, <1>2, <1>3, <1>4, <1>5, <1>7, <1>8 DEF Safe, MemoryFits
<1> QED BY <1>9, <1>10 DEF h, e, r

\* The frame is as it was but for its marks.
LEMMA SafeMarked ==
  ASSUME NEW c, NEW f, NEW h, NEW st, NEW st2, Safe(c, f, st), st \in {"running", "fetching"},
         IsFrame(h), Only(h, f, Marks), h.out = "Ok", st2 \notin {"Call", "OutOfGas"}
  PROVE  Safe(c, h, st2) /\ Spends(h, f)
<1>1. /\ h.mem = f.mem /\ h.paid = f.paid /\ h.stack = f.stack /\ h.spent = f.spent
      /\ h.limit = f.limit /\ h.lent = f.lent /\ h.colds = f.colds /\ h.warm = f.warm
      /\ Clean(f) => Clean(h)
  BY Marked
<1>2. Safe(c, h, st2)
  BY <1>1 DEF Safe, MemoryFits, Awake
<1>3. h.spent \in Int /\ h.lent \in Nat
  BY FieldTypes
<1> QED BY <1>1, <1>2, <1>3 DEF Spends

LEMMA SafeAsks ==
  ASSUME NEW c, NEW f, Safe(c, f, "running"), f.pc < Len(c), NEW g, g = Handle(f, c), g.out = "Fetch"
  PROVE  LET h == [Reset(g) EXCEPT !.want = g.want] IN Safe(c, h, "fetching") /\ Spends(h, f)
<1> DEFINE e == Reset(g)
           h == [e EXCEPT !.want = g.want]
<1>1. IsFrame(e) /\ Clean(e) /\ e.out = "Ok" /\ Only(e, f, Pending \cup {"out", "want"}) /\ IsFrame(g)
  BY AskingFacts
<1>2. g.want \in SUBSET Everything
  BY <1>1, FieldTypes
<1> HIDE DEF e
<1>3. IsFrame(h) /\ Only(h, e, {"want"})
  BY <1>1, <1>2, WantPut
<1> HIDE DEF h
<1>4. h.out = "Ok" /\ Clean(h)
  <2>1. Only(h, e, Marks)
    BY <1>3, OnlyLess DEF Marks
  <2>2. Clean(h)
    BY <1>1, <2>1, Marked
  <2>3. h.out = e.out
    BY <1>3 DEF Only, Fields
  <2> QED BY <1>1, <2>2, <2>3
<1>5. Only(h, f, Pending \cup {"out", "want"})
  BY <1>1, <1>3, OnlyOn
<1>6. Clean(f)
  BY DEF Safe
<1>7. Only(h, f, Marks)
  <2>1. \A y \in Pending : h[y] = f[y]
    BY <1>4, <1>6 DEF Clean, Pending
  <2>2. \A y \in Fields \ Marks : y \in Pending \/ y \in Fields \ (Pending \cup {"out", "want"})
    BY DEF Marks
  <2> QED BY <1>5, <2>1, <2>2 DEF Only
<1>8. Safe(c, h, "fetching") /\ Spends(h, f)
  BY <1>3, <1>4, <1>7, SafeMarked
<1> QED BY <1>8 DEF h, e

LEMMA SafeReset ==
  ASSUME NEW c, NEW f, Safe(c, f, "fetching")
  PROVE  /\ IsFrame(Reset(f)) /\ Only(Reset(f), f, Marks) /\ Reset(f).out = "Ok"
         /\ Safe(c, Reset(f), "failed") /\ Spends(Reset(f), f)
<1> DEFINE e == Reset(f)
<1>1. IsFrame(f) /\ Clean(f)
  BY DEF Safe
<1>2. IsFrame(e) /\ Only(e, f, Pending \cup {"out", "want"}) /\ Clean(e) /\ e.out = "Ok"
  BY <1>1, ResetFacts
<1> HIDE DEF e
<1>3. Only(e, f, Marks)
  <2>1. \A y \in Pending : e[y] = f[y]
    BY <1>1, <1>2 DEF Clean, Pending
  <2>2. \A y \in Fields \ Marks : y \in Pending \/ y \in Fields \ (Pending \cup {"out", "want"})
    BY DEF Marks
  <2> QED BY <1>2, <2>1, <2>2 DEF Only
<1>4. Safe(c, e, "failed") /\ Spends(e, f)
  BY <1>2, <1>3, SafeMarked
<1> QED BY <1>2, <1>3, <1>4 DEF e

LEMMA SafeAnswer ==
  ASSUME NEW c, NEW f, Safe(c, f, "fetching"), NEW x \in SUBSET Everything
  PROVE  LET h == [Reset(f) EXCEPT !.known = @ \cup x] IN Safe(c, h, "running") /\ Spends(h, f)
<1> DEFINE e == Reset(f)
           k == e.known \cup x
           h == [e EXCEPT !.known = k]
<1>1. IsFrame(e) /\ Only(e, f, Marks) /\ e.out = "Ok"
  BY SafeReset
<1> HIDE DEF e
<1>2. k \in SUBSET Everything
  BY <1>1, FieldTypes
<1> HIDE DEF k
<1>3. IsFrame(h) /\ Only(h, e, {"known"})
  BY <1>1, <1>2, KnownPut
<1> HIDE DEF h
<1>4. h.out = "Ok"
  BY <1>1, <1>3 DEF Only, Fields
<1>5. Only(h, f, Marks)
  BY <1>1, <1>3, OnlyOn DEF Marks
<1>6. Safe(c, h, "running") /\ Spends(h, f)
  BY <1>3, <1>4, <1>5, SafeMarked
<1> QED BY <1>6 DEF h, k, e

\* The frame that a callee has left, with the word ok and the gas left.
Refunded(g, left, size) == [g EXCEPT !.ret = size, !.spent = @ - left]

LEMMA RefundedFacts ==
  ASSUME NEW g, IsFrame(g), NEW left \in Nat, NEW size \in Nat
  PROVE  LET h == Refunded(g, left, size) IN
         IsFrame(h) /\ Only(h, g, {"ret", "spent"}) /\ h.spent = g.spent - left
<1> DEFINE h == Refunded(g, left, size)
<1>1. Shape(g) /\ DOMAIN g = Fields
  BY DEF IsFrame, Shape
<1>2. DOMAIN h = Fields
  BY <1>1 DEF Refunded
<1>3. Shape(h)
  BY <1>2 DEF Shape, Refunded
<1>4. h.ret = size /\ h.spent = g.spent - left
  BY <1>1 DEF Fields, Refunded
<1>5. \A y \in Fields \ {"ret", "spent"} : h[y] = g[y]
  BY <1>1 DEF Refunded
<1> HIDE DEF h
<1>6. Only(h, g, {"ret", "spent"})
  BY <1>3, <1>5 DEF Only
<1>7. \A y \in {"ret", "spent"} : h[y] \in TypeOf(y)
  <2>1. g.spent - left \in Int
    BY FieldTypes
  <2> QED BY <1>4, <2>1, TypeIs
<1>8. IsFrame(h)
  BY <1>6, <1>7, Retyped
<1> QED BY <1>4, <1>6, <1>8 DEF h

Resumed(e) == [e EXCEPT !.pc = @ + 1, !.out = "Ok", !.target = <<0, 0>>, !.lent = 0]

LEMMA ResumedFacts ==
  ASSUME NEW e, IsFrame(e)
  PROVE  LET h == Resumed(e) IN
         /\ IsFrame(h) /\ Only(h, e, Marks \cup {"lent"}) /\ h.lent = 0 /\ h.out = "Ok"
         /\ h.pc = e.pc + 1
<1> DEFINE h == Resumed(e)
<1>1. Shape(e) /\ DOMAIN e = Fields
  BY DEF IsFrame, Shape
<1>2. DOMAIN h = Fields
  BY <1>1 DEF Resumed
<1>3. Shape(h)
  BY <1>2 DEF Shape, Resumed
<1>4. h.pc = e.pc + 1 /\ h.out = "Ok" /\ h.target = <<0, 0>> /\ h.lent = 0
  BY <1>1 DEF Fields, Resumed
<1>5. \A y \in Fields \ {"pc", "out", "target", "lent"} : h[y] = e[y]
  BY <1>1 DEF Resumed
<1> HIDE DEF h
<1>6. Only(h, e, {"pc", "out", "target", "lent"})
  BY <1>3, <1>5 DEF Only
<1>7. \A y \in {"pc", "out", "target", "lent"} : h[y] \in TypeOf(y)
  <2>1. e.pc + 1 \in Nat /\ 0 \in Nat /\ "Ok" \in Outs /\ <<0, 0>> \in Nat \X Nat
    BY FieldTypes DEF Outs
  <2> QED BY <1>4, <2>1, TypeIs
<1>8. IsFrame(h)
  BY <1>6, <1>7, Retyped
<1>9. Only(h, e, Marks \cup {"lent"})
  BY <1>6, OnlyLess DEF Marks
<1> QED BY <1>4, <1>8, <1>9 DEF h

\* What a callee leaves of the frame that called it.
Returned(h, f) ==
  h.pc = f.pc + 1 /\ h.mem = f.mem /\ h.spent <= f.spent /\ h.slot = f.slot /\ h.warm = f.warm

LEMMA SafeCallEnds ==
  ASSUME NEW c, NEW f, Safe(c, f, "Call"), NEW ok \in {0, 1}, NEW left \in {0, f.lent}, NEW size \in Nat
  PROVE  LET g == Grow(PushWord([f EXCEPT !.out = "Ok"], ok), {f.target})
             h == [Apply([g EXCEPT !.ret = size, !.spent = @ - left]) EXCEPT
                       !.pc = @ + 1, !.out = "Ok", !.target = <<0, 0>>, !.lent = 0]
         IN  Safe(c, h, "running") /\ Spends(h, f) /\ Returned(h, f)
<1> DEFINE f0 == Halt(f, "Ok")
           f1 == PushWord(f0, ok)
           f2 == Grow(f1, {f.target})
           f3 == Refunded(f2, left, size)
           f4 == Apply(f3)
           h  == Resumed(f4)
           r  == f.target
<1>1. /\ CodeFits(c) /\ IsFrame(f) /\ Clean(f) /\ MemoryFits(f) /\ f.paid = Cost(f.mem)
      /\ Len(f.stack) <= StackLimit /\ f.spent <= f.limit
      /\ r[2] > 0 => r[1] + r[2] <= f.mem
      /\ \A a \in Acct : f.colds[a] <= Reached(a) /\ (a \notin f.warm => f.colds[a] = 0)
  BY DEF Safe, Awake
<1>2. /\ r \in Nat \X Nat /\ f.lent \in Nat /\ f.spent \in Int /\ f.limit \in Nat /\ f.mem \in Nat
      /\ f.colds \in [Acct -> Nat] /\ f.paid \in Int /\ Len(f.stack) \in Nat
  BY <1>1, FieldTypes, LengthType
<1>3. left \in Nat /\ left <= f.lent /\ ok \in Word
  BY <1>2, SmallWord
<1> HIDE DEF r
<1>4. IsFrame(f0) /\ Only(f0, f, {"out"}) /\ f0.out = "Ok"
  <2>1. "Ok" \in Outs
    BY DEF Outs
  <2> HIDE DEF f0
  <2> QED BY <1>1, <2>1, HaltFacts DEF f0
<1> HIDE DEF f0
<1>5. /\ IsFrame(f1) /\ Only(f1, f0, {"push", "out"})
      /\ \/ f1.out = "StackOverflow" /\ f1.push = f0.push
         \/ /\ f1.out = f0.out /\ f1.push = Append(f0.push, ok)
            /\ Len(f0.stack) - f0.pops + Len(f0.push) < StackLimit
  BY <1>3, <1>4, PushWordFacts
<1> HIDE DEF f1
<1>6. /\ f0.stack = f.stack /\ f0.pops = 0 /\ f0.push = <<>> /\ f1.mem = f.mem /\ f1.stack = f.stack
      /\ f1.pops = 0 /\ f1.charge = 0 /\ f1.owed = 0 /\ f1.spent = f.spent /\ f1.limit = f.limit
  BY <1>1, <1>4, <1>5 DEF Only, Fields, Clean
<1>7. Len(f.stack) + Len(f1.push) <= StackLimit /\ Len(f1.push) \in Nat /\ f1.out \in {"Ok", "StackOverflow"}
  <2>1. Len(<<>>) = 0 /\ Len(Append(<<>>, ok)) = 1
    OBVIOUS
  <2>2. StackLimit \in Nat
    BY MachineAssumption
  <2>3. CASE f1.out = "StackOverflow" /\ f1.push = f0.push
    BY <1>1, <1>2, <1>6, <2>1, <2>2, <2>3
  <2>4. CASE /\ f1.out = f0.out /\ f1.push = Append(f0.push, ok)
             /\ Len(f0.stack) - f0.pops + Len(f0.push) < StackLimit
    <3>1. f1.push = Append(<<>>, ok) /\ f1.out = "Ok" /\ Len(f1.push) = 1
      BY <1>4, <1>6, <2>1, <2>4
    <3>2. Len(f.stack) - 0 + 0 < StackLimit
      BY <1>6, <2>1, <2>4
    <3> QED BY <1>2, <2>2, <3>1, <3>2
  <2> QED BY <1>5, <2>3, <2>4
<1>8. /\ IsFrame(f2) /\ Only(f2, f1, {"charge", "out", "mem", "owed"})
      /\ f2.mem = f.mem /\ f2.charge = 0 /\ f2.owed = 0
  <2>1. MemoryFits(f1) /\ Solvent(f1) /\ f1.out # "OutOfGas"
    BY <1>1, <1>2, <1>6, <1>7 DEF MemoryFits, Solvent
  <2>2. IsFiniteSet({r}) /\ \A x \in {r} : x[1] \in Nat /\ x[2] \in Nat
    BY <1>2, FS_Singleton
  <2>3. \A x \in {r} : x[2] > 0 => x[1] + x[2] <= f1.mem
    BY <1>1, <1>6
  <2> DEFINE R == {r}
  <2>4. f2 = Grow(f1, R)
    BY DEF r
  <2> HIDE DEF f2, R
  <2>5. LET g == Grow(f1, R) IN
         /\ IsFrame(g) /\ Only(g, f1, {"charge", "out", "mem", "owed"})
         /\ g.owed - f1.owed = Cost(g.mem) - Cost(f1.mem)
         /\ g.mem = f1.mem /\ g.out # "OutOfGas" /\ g.charge = f1.charge
    BY <1>5, <2>1, <2>2, <2>3, GrowFacts DEF R
  <2>6. /\ IsFrame(f2) /\ Only(f2, f1, {"charge", "out", "mem", "owed"})
        /\ f2.owed - f1.owed = Cost(f2.mem) - Cost(f1.mem) /\ f2.mem = f1.mem /\ f2.charge = f1.charge
    BY <2>4, <2>5
  <2>7. f2.owed \in Int /\ Cost(f1.mem) \in Nat
    BY <1>2, <1>6, <2>6, FieldTypes, CostType
  <2> QED BY <1>6, <2>6, <2>7
<1> HIDE DEF f2
<1>9. IsFrame(f3) /\ Only(f3, f2, {"ret", "spent"}) /\ f3.spent = f2.spent - left
  BY <1>3, <1>8, RefundedFacts
<1> HIDE DEF f3
<1>10. /\ f3.stack = f.stack /\ f3.pops = 0 /\ f3.push = f1.push /\ f3.charge = 0 /\ f3.owed = 0
       /\ f3.spent = f.spent - left /\ f3.limit = f.limit /\ f3.mem = f.mem
  BY <1>6, <1>8, <1>9 DEF Only, Fields
<1>11. f3.paid = f.paid /\ f3.colds = f.colds /\ f3.warm = f.warm /\ f3.cold = <<>> /\ f3.accs = <<>>
  BY <1>1, <1>4, <1>5, <1>8, <1>9 DEF Only, Fields, Clean
<1>12. /\ IsFrame(f4) /\ Only(f4, f3, Applied) /\ Clean(f4)
       /\ Len(f4.stack) = Len(f3.stack) - f3.pops + Len(f3.push)
       /\ f4.spent = f3.spent + f3.charge /\ f4.paid = f3.paid + f3.owed
       /\ f4.warm = f3.warm \cup {f3.accs[i] : i \in 1 .. Len(f3.accs)}
       /\ \A a \in Acct : f4.colds[a] = f3.colds[a] + Times(f3.cold, a)
  <2>1. f3.pops <= Len(f3.stack)
    BY <1>2, <1>10
  <2> QED BY <1>9, <2>1, ApplyFacts
<1> HIDE DEF f4
<1>13. f4.mem = f.mem /\ f4.limit = f.limit
  BY <1>10, <1>12 DEF Only, Fields, Applied, Pending
<1>14. f4.spent = f.spent - left /\ f4.paid = f.paid /\ Len(f4.stack) <= StackLimit
  <2>1. f4.spent = f.spent - left
    BY <1>2, <1>3, <1>10, <1>12
  <2>2. f4.paid = f.paid
    BY <1>2, <1>10, <1>11, <1>12
  <2>3. Len(f4.stack) = Len(f.stack) + Len(f1.push)
    BY <1>2, <1>10, <1>12
  <2> QED BY <1>7, <2>1, <2>2, <2>3
<1>15. f4.warm = f.warm /\ \A a \in Acct : f4.colds[a] = f.colds[a]
  <2>1. Len(<<>>) = 0 /\ <<>> \in Seq(Acct)
    OBVIOUS
  <2>2. \A a \in Acct : Times(<<>>, a) = 0
    <3> DEFINE s == <<>>
    <3>1. s \in Seq(Acct) /\ \A i \in 1 .. Len(s) : FALSE
      BY <2>1
    <3> HIDE DEF s
    <3>2. \A a \in Acct : Times(s, a) = 0
      BY <3>1, NeverTimes
    <3> QED BY <3>2 DEF s
  <2>3. f4.warm = f.warm
    BY <1>11, <1>12, <2>1
  <2> QED BY <1>2, <1>11, <1>12, <2>2, <2>3
<1>16. /\ IsFrame(h) /\ Only(h, f4, Marks \cup {"lent"}) /\ h.lent = 0 /\ h.out = "Ok"
       /\ h.pc = f4.pc + 1
  BY <1>12, ResumedFacts
<1> HIDE DEF h
<1>17. /\ h.mem = f4.mem /\ h.paid = f4.paid /\ h.stack = f4.stack /\ h.spent = f4.spent
       /\ h.limit = f4.limit /\ h.colds = f4.colds /\ h.warm = f4.warm
  BY <1>16 DEF Only, Fields, Marks
<1>18. Clean(h)
  <2>1. h.pops = f4.pops /\ h.push = f4.push /\ h.charge = f4.charge /\ h.gain = f4.gain
    BY <1>16 DEF Only, Fields, Marks
  <2>2. h.accs = f4.accs /\ h.keys = f4.keys /\ h.owed = f4.owed /\ h.cold = f4.cold
    BY <1>16 DEF Only, Fields, Marks
  <2> QED BY <1>12, <2>1, <2>2 DEF Clean
<1>19. Spends(h, f)
  BY <1>2, <1>3, <1>13, <1>14, <1>16, <1>17 DEF Spends
<1>20. Safe(c, h, "running")
  <2>1. MemoryFits(h) /\ h.paid = Cost(h.mem) /\ Len(h.stack) <= StackLimit
    BY <1>1, <1>13, <1>14, <1>17 DEF MemoryFits
  <2>2. h.spent <= h.limit
    BY <1>1, <1>2, <1>3, <1>13, <1>14, <1>17
  <2>3. \A a \in Acct : h.colds[a] <= Reached(a) /\ (a \notin h.warm => h.colds[a] = 0)
    BY <1>1, <1>15, <1>17
  <2> QED BY <1>1, <1>16, <1>18, <2>1, <2>2, <2>3 DEF Safe
<1>21. h = [Apply([Grow(PushWord([f EXCEPT !.out = "Ok"], ok), {f.target}) EXCEPT !.ret = size, !.spent = @ - left]) EXCEPT
                       !.pc = @ + 1, !.out = "Ok", !.target = <<0, 0>>, !.lent = 0]
  BY DEF h, f4, f3, f2, f1, f0, Refunded, Resumed, Halt
<1>22. h.pc = f.pc + 1
  <2>1. f1.pc = f.pc /\ f3.pc = f1.pc
    BY <1>4, <1>5, <1>8, <1>9 DEF Only, Fields
  <2>2. f4.pc = f3.pc
    BY <1>12 DEF Only, Fields, Applied, Pending
  <2> QED BY <1>16, <2>1, <2>2
<1>23. h.slot = f.slot
  <2>1. f1.slot = f.slot /\ f3.slot = f1.slot
    BY <1>4, <1>5, <1>8, <1>9 DEF Only, Fields
  <2>2. f4.slot = f3.slot
    BY <1>12 DEF Only, Fields, Applied, Pending
  <2>3. h.slot = f4.slot
    BY <1>16 DEF Only, Fields, Marks
  <2> QED BY <2>1, <2>2, <2>3
<1>24. Returned(h, f)
  BY <1>2, <1>3, <1>13, <1>14, <1>15, <1>17, <1>22, <1>23 DEF Returned
<1> QED BY <1>19, <1>20, <1>21, <1>24

----------------------------------------------------------------------------
(* The interpreter.                                                        *)

Inv == Safe(code, frame, status)

LEMMA StartFrame ==
  ASSUME NEW limit \in Nat, NEW static \in BOOLEAN, NEW born \in BOOLEAN
  PROVE  LET f == Start(limit, static, born) IN
         /\ IsFrame(f) /\ Clean(f) /\ f.mem = 0 /\ f.paid = 0 /\ f.stack = <<>> /\ f.spent = 0
         /\ f.limit = limit /\ f.lent = 0 /\ f.out = "Ok" /\ f.colds = [a \in Acct |-> 0]
<1> DEFINE f == Start(limit, static, born)
<1>1. DOMAIN f = Fields
  BY DEF Start, Fields
<1>2. Shape(f)
  BY <1>1 DEF Shape, Start
<1>3. /\ f.pc = 0 /\ f.limit = limit /\ f.mem = 0 /\ f.ret = 0 /\ f.lent = 0 /\ f.logs = 0
      /\ f.spent = 0 /\ f.refund = 0 /\ f.paid = 0 /\ f.static = static /\ f.born = born /\ f.gone = FALSE
      /\ f.stack = <<>> /\ f.out = "Ok" /\ f.want = {} /\ f.known = {<<"acc", This>>}
      /\ f.target = <<0, 0>> /\ f.warm = Pre /\ f.warmKeys = {} /\ f.slot = Org
      /\ f.temp = [k \in Word |-> 0] /\ f.bal = Bal /\ f.colds = [a \in Acct |-> 0]
  BY DEF Start
<1>4. Clean(f)
  BY DEF Clean, Start
<1> HIDE DEF f
<1>5. \A y \in Pending : f[y] \in TypeOf(y)
  BY <1>4, CleanTyped
<1>6. f.pc \in TypeOf("pc") /\ f.limit \in TypeOf("limit") /\ f.mem \in TypeOf("mem") /\ f.ret \in TypeOf("ret")
  BY <1>3, TypeIs
<1>7. f.lent \in TypeOf("lent") /\ f.logs \in TypeOf("logs")
  BY <1>3, TypeIs
<1>8. f.spent \in TypeOf("spent") /\ f.refund \in TypeOf("refund") /\ f.paid \in TypeOf("paid")
  BY <1>3, TypeIs
<1>9. f.static \in TypeOf("static") /\ f.born \in TypeOf("born") /\ f.gone \in TypeOf("gone")
  BY <1>3, TypeIs
<1>10. f.stack \in TypeOf("stack")
  <2>1. <<>> \in Seq(Word)
    OBVIOUS
  <2> QED BY <1>3, <2>1, TypeIs
<1>11. f.out \in TypeOf("out")
  <2>1. "Ok" \in Outs
    BY DEF Outs
  <2> QED BY <1>3, <2>1, TypeIs
<1>12. f.want \in TypeOf("want") /\ f.known \in TypeOf("known")
  <2>1. {<<"acc", This>>} \in SUBSET Everything /\ {} \in SUBSET Everything
    BY MachineAssumption DEF Everything
  <2> QED BY <1>3, <2>1, TypeIs
<1>13. f.target \in TypeOf("target")
  <2>1. <<0, 0>> \in Nat \X Nat
    OBVIOUS
  <2> QED BY <1>3, <2>1, TypeIs
<1>14. f.warm \in TypeOf("warm") /\ f.warmKeys \in TypeOf("warmKeys")
  BY <1>3, TypeIs, MachineAssumption
<1>15. f.slot \in TypeOf("slot") /\ f.bal \in TypeOf("bal")
  BY <1>3, TypeIs, MachineAssumption
<1>16. f.temp \in TypeOf("temp")
  <2>1. [k \in Word |-> 0] \in [Word -> Word]
    BY SmallWord
  <2> QED BY <1>3, <2>1, TypeIs
<1>17. f.colds \in TypeOf("colds")
  <2>1. [a \in Acct |-> 0] \in [Acct -> Nat]
    OBVIOUS
  <2> QED BY <1>3, <2>1, TypeIs
<1>18. \A y \in Fields : f[y] \in TypeOf(y)
  BY <1>5, <1>6, <1>7, <1>8, <1>9, <1>10, <1>11, <1>12, <1>13, <1>14, <1>15, <1>16, <1>17 DEF Fields, Pending
<1>19. IsFrame(f)
  BY <1>2, <1>18 DEF IsFrame
<1> QED BY <1>3, <1>4, <1>19 DEF f

LEMMA CostOfNothing == Cost(0) = 0
<1>1. 0 \div Bytes = 0
  BY WordFacts
<1>2. 0 \div Quad = 0
  BY MachineAssumption
<1> QED BY <1>1, <1>2 DEF Cost

LEMMA InitInv == ASSUME Init PROVE Inv
<1>1. PICK j \in Jobs : code = j.code /\ frame = Start(j.limit, j.static, j.born) /\ status = "running"
  BY DEF Init
<1>2. CodeFits(code) /\ j.limit \in Nat /\ j.static \in BOOLEAN /\ j.born \in BOOLEAN
  BY <1>1, InterpreterAssumption DEF CodeFits
<1>3. LET f == Start(j.limit, j.static, j.born) IN
         /\ IsFrame(f) /\ Clean(f) /\ f.mem = 0 /\ f.paid = 0 /\ f.stack = <<>> /\ f.spent = 0
         /\ f.limit = j.limit /\ f.lent = 0 /\ f.out = "Ok" /\ f.colds = [a \in Acct |-> 0]
  BY <1>2, StartFrame
<1> DEFINE f == Start(j.limit, j.static, j.born)
<1>4. /\ IsFrame(f) /\ Clean(f) /\ f.mem = 0 /\ f.paid = 0 /\ f.stack = <<>> /\ f.spent = 0
      /\ f.limit = j.limit /\ f.lent = 0 /\ f.out = "Ok" /\ f.colds = [a \in Acct |-> 0]
  BY <1>3
<1>5. frame = f
  BY <1>1
<1> HIDE DEF f
<1>6. MemoryFits(f) /\ f.paid = Cost(f.mem)
  <2>1. 0 <= MemLimit /\ 0 % Bytes = 0
    BY MachineAssumption, WordFacts
  <2> QED BY <1>4, <2>1, CostOfNothing DEF MemoryFits
<1>7. Len(f.stack) <= StackLimit /\ f.spent <= f.limit
  <2>1. Len(<<>>) = 0
    OBVIOUS
  <2> QED BY <1>2, <1>4, <2>1, MachineAssumption
<1>8. \A a \in Acct : f.colds[a] = 0 /\ f.colds[a] <= Reached(a)
  BY <1>4 DEF Reached
<1> QED BY <1>1, <1>2, <1>4, <1>5, <1>6, <1>7, <1>8 DEF Inv, Safe

\* What every step keeps, and what it does to the gas.
LEMMA StepInv ==
  ASSUME Inv, [Next]_vars
  PROVE  Inv' /\ (UNCHANGED frame \/ Spends(frame', frame))
<1> USE DEF Inv
<1>1. CASE End
  <2>1. Safe(code, frame, "running") /\ code' = code /\ frame' = frame /\ status' = "End"
    BY <1>1 DEF End
  <2>2. Safe(code, frame, "End")
    BY <2>1 DEF Safe, Awake
  <2> QED BY <2>1, <2>2
<1>2. CASE Instruction
  <2> DEFINE g == Handle(frame, code)
  <2>1. /\ Safe(code, frame, "running") /\ frame.pc < Len(code) /\ code' = code /\ status = "running"
        /\ Done(g) \/ AsksForData(g) \/ Leaves(g) \/ Calls(g)
    BY <1>2 DEF Instruction, Running, Stepped
  <2> HIDE DEF Inv
  <2>2. CASE Done(g)
    <3> DEFINE e == Apply(g)
               x == IF IsJump THEN e.pc ELSE e.pc + 1
    <3>1. g.out = "Ok" /\ status' = "running" /\ frame' = [e EXCEPT !.pc = x]
      BY <2>1, <2>2 DEF Done
    <3>2. IsFrame(e)
      BY <2>1, AppliedFacts
    <3>3. x \in Nat
      <4> HIDE DEF e
      <4> QED BY <3>2, FieldTypes
    <3> HIDE DEF x
    <3>4. LET h == [Apply(g) EXCEPT !.pc = x] IN Safe(code, h, "running") /\ Spends(h, frame)
      BY <2>1, <3>1, <3>3, SafeDone
    <3> QED BY <2>1, <3>1, <3>4 DEF Inv
  <2>3. CASE AsksForData(g)
    <3>1. g.out = "Fetch" /\ status' = "fetching" /\ frame' = [Reset(g) EXCEPT !.want = g.want]
      BY <2>3 DEF AsksForData
    <3>2. LET h == [Reset(g) EXCEPT !.want = g.want] IN Safe(code, h, "fetching") /\ Spends(h, frame)
      BY <2>1, <3>1, SafeAsks
    <3> QED BY <2>1, <3>1, <3>2 DEF Inv
  <2>4. CASE Leaves(g)
    <3>1. g.out \notin {"Ok", "Fetch", "Call"} /\ status' = g.out /\ frame' = Apply(g)
      BY <2>4 DEF Leaves
    <3>2. Safe(code, Apply(g), g.out) /\ Spends(Apply(g), frame)
      BY <2>1, <3>1, SafeLeaves
    <3> QED BY <2>1, <3>1, <3>2 DEF Inv
  <2>5. CASE Calls(g)
    <3>1. g.out = "Call" /\ status' = "Call" /\ frame' = [Apply(g) EXCEPT !.target = ReturnRegion(frame, code)]
      BY <2>5 DEF Calls
    <3>2. LET h == [Apply(g) EXCEPT !.target = ReturnRegion(frame, code)]
          IN  Safe(code, h, "Call") /\ Spends(h, frame)
      BY <2>1, <3>1, SafeCalls
    <3> QED BY <2>1, <3>1, <3>2 DEF Inv
  <2> QED BY <2>1, <2>2, <2>3, <2>4, <2>5
<1>3. CASE Answer
  <2>1. /\ Safe(code, frame, "fetching") /\ code' = code /\ status' = "running"
        /\ frame' = [Reset(frame) EXCEPT !.known = @ \cup frame.want]
    BY <1>3 DEF Answer
  <2>2. frame.want \in SUBSET Everything
    BY <2>1, FieldTypes DEF Safe
  <2> DEFINE x == frame.want
  <2>3. LET h == [Reset(frame) EXCEPT !.known = @ \cup x] IN Safe(code, h, "running") /\ Spends(h, frame)
    BY <2>1, <2>2, SafeAnswer
  <2> QED BY <2>1, <2>3
<1>4. CASE FetchFails
  <2>1. /\ Safe(code, frame, "fetching") /\ code' = code /\ status' = "failed" /\ frame' = Reset(frame)
    BY <1>4 DEF FetchFails
  <2> QED BY <2>1, SafeReset
<1>5. CASE CallEnds
  <2>1. Safe(code, frame, "Call") /\ code' = code /\ status' = "running"
    BY <1>5 DEF CallEnds
  <2>2. PICK ok \in {0, 1}, left \in {0, frame.lent}, size \in RetSizes :
          frame' = [Apply([Grow(PushWord([frame EXCEPT !.out = "Ok"], ok), {frame.target})
                             EXCEPT !.ret = size, !.spent = @ - left]) EXCEPT
                       !.pc = @ + 1, !.out = "Ok", !.target = <<0, 0>>, !.lent = 0]
    BY ZenonT(30), <1>5 DEF CallEnds
  <2>3. size \in Nat
    BY InterpreterAssumption
  <2>4. LET g == Grow(PushWord([frame EXCEPT !.out = "Ok"], ok), {frame.target})
            h == [Apply([g EXCEPT !.ret = size, !.spent = @ - left]) EXCEPT
                       !.pc = @ + 1, !.out = "Ok", !.target = <<0, 0>>, !.lent = 0]
        IN  Safe(code, h, "running") /\ Spends(h, frame)
    BY ZenonT(30), <2>1, <2>3, SafeCallEnds
  <2> QED BY <2>1, <2>2, <2>4
<1>6. CASE Stop \/ UNCHANGED vars
  BY <1>6 DEF Stop, vars
<1> QED BY <1>1, <1>2, <1>3, <1>4, <1>5, <1>6 DEF Next, Step

LEMMA InvHolds == Spec => []Inv
<1>1. Init => Inv
  BY InitInv
<1>2. Inv /\ [Next]_vars => Inv'
  BY StepInv
<1> QED BY <1>1, <1>2, PTL DEF Spec

\* What an instruction has to be warmed, and the one key it changes.
LEMMA PendingFits ==
  ASSUME Inv, Running
  PROVE  Len(Stepped.accs) <= 2 /\ Cardinality(Stepped.keys) <= 1
<1> DEFINE op == Op
           g == Stepped
<1>1. Started(frame, code, op)
  BY SafeStarted DEF Inv, Running, Op
<1>2. PICK p : Len(p) \in Nat /\ Mid(g, frame, p, Len(p), op)
  <2> HIDE DEF op
  <2> QED BY <1>1, HandleMid DEF Stepped
<1> HIDE DEF g
<1>3. Len(g.accs) <= 2
  BY <1>2 DEF Mid, Warmth
<1>4. PICK key : g.keys \subseteq {key}
  BY <1>2 DEF Mid, OneKey
<1>5. Cardinality(g.keys) <= 1
  <2>1. g.keys = {} \/ g.keys = {key}
    BY <1>4
  <2>2. Cardinality({key}) = 1
    BY FS_Singleton
  <2>3. Cardinality({}) = 0
    BY FS_EmptySet
  <2> QED BY <2>1, <2>2, <2>3
<1> QED BY <1>3, <1>5 DEF g

\* The stack, the memory and what is pending of a frame stay within their bounds.
THEOREM TypeCorrect == Spec => []TypeOK
<1>1. Inv => TypeOK
  <2> SUFFICES ASSUME Inv PROVE TypeOK
    OBVIOUS
  <2>1. IsFrame(frame) /\ Clean(frame) /\ MemoryFits(frame) /\ Len(frame.stack) <= StackLimit
    BY DEF Inv, Safe
  <2>2. /\ frame.stack \in Seq(Word) /\ frame.mem \in Nat /\ frame.spent \in Int /\ frame.refund \in Int
        /\ frame.known \subseteq Everything /\ frame.want \subseteq Everything
    BY <2>1, FieldTypes
  <2>3. frame.mem \in 0 .. MemLimit /\ frame.mem % Bytes = 0
    BY <2>1, <2>2, MachineAssumption DEF MemoryFits
  <2>4. Running => Len(Stepped.accs) <= 2 /\ Cardinality(Stepped.keys) <= 1
    BY PendingFits
  <2> QED BY <2>1, <2>2, <2>3, <2>4 DEF TypeOK, Clean
<1> QED BY <1>1, InvHolds, PTL

\* A frame has paid for exactly the memory it has.
THEOREM MemoryCorrect == Spec => []MemoryIsPaid
<1>1. Inv => MemoryIsPaid
  BY DEF Inv, Safe, MemoryIsPaid
<1> QED BY <1>1, InvHolds, PTL

\* Whatever yields and is repeated, no account is paid for as cold more often
\* than one instruction reaches it, whichever accounts delegate and to which
\* (calls.rs:78): the second time is the delegate's, of an account that is its own.
THEOREM ColdCorrect == Spec => []ColdIsPaidAsReached
<1>1. Inv => ColdIsPaidAsReached
  BY DEF Inv, Safe, ColdIsPaidAsReached
<1> QED BY <1>1, InvHolds, PTL

\* The gas of a frame and what it has lent never grow together.
THEOREM GasCorrect == Spec => GasIsNotMade
<1>1. Inv /\ [Next]_vars => [Gas' <= Gas /\ (status' # "OutOfGas" => Gas' >= 0)]_vars
  <2> SUFFICES ASSUME Inv, [Next]_vars, ~ UNCHANGED vars
               PROVE  Gas' <= Gas /\ (status' # "OutOfGas" => Gas' >= 0)
    OBVIOUS
  <2>1. Inv' /\ (UNCHANGED frame \/ Spends(frame', frame))
    BY StepInv
  <2>2. IsFrame(frame) /\ IsFrame(frame') /\ (status' # "OutOfGas" => frame'.spent <= frame'.limit)
    BY <2>1 DEF Inv, Safe
  <2>3. /\ frame.limit \in Nat /\ frame.spent \in Int /\ frame.lent \in Nat
        /\ frame'.limit \in Nat /\ frame'.spent \in Int /\ frame'.lent \in Nat
    BY <2>2, FieldTypes
  <2>4. Gas' <= Gas
    BY <2>1, <2>3 DEF Spends, Gas
  <2>5. status' # "OutOfGas" => Gas' >= 0
    BY <2>2, <2>3 DEF Gas
  <2> QED BY <2>4, <2>5
<1> QED BY <1>1, InvHolds, PTL DEF Spec, GasIsNotMade

----------------------------------------------------------------------------
(* The frame that holds all data runs alike.                               *)

\* The fields in which the two frames may differ.
Data == {"known", "want"}

\* h is f with everything at hand.
Alike(h, f) ==
  /\ Shape(f) /\ Shape(h) /\ h.known = Everything /\ h.want = {}
  /\ \A x \in Fields \ Data : h[x] = f[x]

LEMMA AlikeFields ==
  ASSUME NEW h, NEW f, Alike(h, f)
  PROVE  /\ h.pc = f.pc /\ h.limit = f.limit /\ h.spent = f.spent /\ h.refund = f.refund
         /\ h.stack = f.stack /\ h.mem = f.mem /\ h.ret = f.ret /\ h.static = f.static
         /\ h.born = f.born /\ h.pops = f.pops /\ h.push = f.push /\ h.charge = f.charge
         /\ h.gain = f.gain /\ h.accs = f.accs /\ h.keys = f.keys /\ h.out = f.out
         /\ h.lent = f.lent /\ h.target = f.target /\ h.warm = f.warm /\ h.warmKeys = f.warmKeys
         /\ h.slot = f.slot /\ h.temp = f.temp /\ h.bal = f.bal /\ h.logs = f.logs
         /\ h.gone = f.gone /\ h.paid = f.paid /\ h.owed = f.owed /\ h.colds = f.colds
         /\ h.cold = f.cold
BY DEF Alike, Fields, Data

LEMMA AlikeArgs ==
  ASSUME NEW h, NEW f, Alike(h, f)
  PROVE  /\ \A i : Arg(h, i) = Arg(f, i)
         /\ Args(h) = Args(f) /\ Remaining(h) = Remaining(f) /\ HashNumber(h) = HashNumber(f)
         /\ \A a : IsCold(h, a) = IsCold(f, a)
         /\ \A a : IsEmpty(h, a) = IsEmpty(f, a)
<1>1. h.stack = f.stack /\ h.pops = f.pops
  BY AlikeFields
<1>2. h.limit = f.limit /\ h.spent = f.spent /\ h.charge = f.charge
  BY AlikeFields
<1>3. h.warm = f.warm /\ h.bal = f.bal
  BY AlikeFields
<1>4. \A i : Arg(h, i) = Arg(f, i)
  BY <1>1 DEF Arg
<1>5. Args(h) = Args(f)
  BY <1>1, <1>4 DEF Args
<1>6. Remaining(h) = Remaining(f)
  BY <1>2 DEF Remaining
<1>7. HashNumber(h) = HashNumber(f)
  BY <1>4 DEF HashNumber
<1>8. \A a : IsCold(h, a) = IsCold(f, a)
  BY <1>3 DEF IsCold
<1>9. \A a : IsEmpty(h, a) = IsEmpty(f, a)
  BY <1>3 DEF IsEmpty
<1> QED BY <1>4, <1>5, <1>6, <1>7, <1>8, <1>9

\* Two frames that are alike are the same, but for the data.
LEMMA AlikeIs ==
  ASSUME NEW h, NEW g, NEW f, Alike(h, f), Alike(g, f)
  PROVE  h = g
<1>1. \A x \in Fields : h[x] = g[x]
  BY DEF Alike, Data
<1>2. h = [x \in Fields |-> h[x]] /\ g = [x \in Fields |-> g[x]]
  BY DEF Alike, Shape
<1>3. [x \in Fields |-> h[x]] = [x \in Fields |-> g[x]]
  BY <1>1
<1> QED BY <1>2, <1>3

\* The same is written into a field of both.
LEMMA PutAlike ==
  ASSUME NEW h, NEW f, Alike(h, f), NEW y \in Fields \ Data, NEW v
  PROVE  Alike([h EXCEPT ![y] = v], [f EXCEPT ![y] = v])
<1> DEFINE h2 == [h EXCEPT ![y] = v]
           f2 == [f EXCEPT ![y] = v]
<1>1. DOMAIN h = Fields /\ DOMAIN f = Fields
  BY DEF Alike, Shape
<1>2. DOMAIN h2 = Fields /\ DOMAIN f2 = Fields
  BY <1>1
<1>3. Shape(h2) /\ Shape(f2)
  BY <1>2 DEF Shape
<1>4. h2[y] = v /\ f2[y] = v
  BY <1>1
<1>5. \A x \in Fields : x # y => h2[x] = h[x] /\ f2[x] = f[x]
  BY <1>1
<1>6. "known" \in Fields /\ "want" \in Fields /\ y # "known" /\ y # "want"
  BY DEF Fields, Data
<1>7. h2.known = Everything /\ h2.want = {}
  <2> HIDE DEF h2
  <2> QED BY <1>5, <1>6 DEF Alike
<1> HIDE DEF h2, f2
<1>8. \A x \in Fields \ Data : h2[x] = f2[x]
  BY <1>4, <1>5 DEF Alike
<1>9. Alike(h2, f2)
  BY <1>3, <1>7, <1>8 DEF Alike
<1> QED BY <1>9 DEF h2, f2

LEMMA HaltAlike ==
  ASSUME NEW h, NEW f, Alike(h, f), NEW why
  PROVE  Alike(Halt(h, why), Halt(f, why))
<1>1. "out" \in Fields \ Data
  BY DEF Fields, Data
<1>2. Alike([h EXCEPT !["out"] = why], [f EXCEPT !["out"] = why])
  BY <1>1, PutAlike
<1> QED BY <1>2 DEF Halt

LEMMA PayAlike ==
  ASSUME NEW h, NEW f, Alike(h, f), NEW x
  PROVE  Alike(Pay(h, x), Pay(f, x))
<1> DEFINE v == f.charge + (f.limit - f.spent)
           w == f.charge + x
           h1 == [h EXCEPT !["charge"] = v]
           f1 == [f EXCEPT !["charge"] = v]
<1>1. "charge" \in Fields \ Data
  BY DEF Fields, Data
<1>2. h.charge + (h.limit - h.spent) = v /\ h.charge + x = w /\ Remaining(h) = Remaining(f)
  BY AlikeFields, AlikeArgs
<1>3. Alike([h EXCEPT !["charge"] = w], [f EXCEPT !["charge"] = w])
  BY <1>1, PutAlike
<1>4. Alike(h1, f1)
  BY <1>1, PutAlike
<1>5. Alike(Halt(h1, "OutOfGas"), Halt(f1, "OutOfGas"))
  <2> HIDE DEF h1, f1
  <2> QED BY <1>4, HaltAlike
<1>6. CASE x > Remaining(f)
  <2>1. Pay(f, x) = Halt(f1, "OutOfGas")
    BY Zenon, <1>6 DEF Pay, Halt
  <2>2. Pay(h, x) = Halt(h1, "OutOfGas")
    BY Zenon, <1>2, <1>6 DEF Pay, Halt
  <2> QED BY <1>5, <2>1, <2>2
<1>7. CASE ~(x > Remaining(f))
  <2>1. Pay(f, x) = [f EXCEPT !["charge"] = w]
    BY <1>7 DEF Pay
  <2>2. Pay(h, x) = [h EXCEPT !["charge"] = w]
    BY <1>2, <1>7 DEF Pay
  <2> QED BY <1>3, <2>1, <2>2
<1> QED BY <1>6, <1>7

\* The same is written into two fields of both.
LEMMA PutTwoAlike ==
  ASSUME NEW h, NEW f, Alike(h, f), NEW y \in Fields \ Data, NEW v, NEW z \in Fields \ Data, NEW w
  PROVE  Alike([h EXCEPT ![y] = v, ![z] = w], [f EXCEPT ![y] = v, ![z] = w])
<1> DEFINE h1 == [h EXCEPT ![y] = v]
           f1 == [f EXCEPT ![y] = v]
<1>1. Alike(h1, f1)
  BY PutAlike
<1>2. Alike([h1 EXCEPT ![z] = w], [f1 EXCEPT ![z] = w])
  <2> HIDE DEF h1, f1
  <2> QED BY <1>1, PutAlike
<1> QED BY Zenon, <1>2

LEMMA FieldsPut ==
  \A y \in {"pc", "spent", "stack", "mem", "ret", "pops", "push", "charge", "gain", "accs", "keys", "out",
            "lent", "target", "warmKeys", "slot", "temp", "bal", "logs", "gone", "owed", "cold"} :
    y \in Fields \ Data
BY DEF Fields, Data

LEMMA WarmAlike ==
  ASSUME NEW h, NEW f, Alike(h, f), NEW a
  PROVE  Alike(Warm(h, a), Warm(f, a)) /\ Alike(Surcharge(h, a), Surcharge(f, a))
<1> DEFINE v == Append(f.accs, a)
           w == Append(f.cold, a)
<1>1. Append(h.accs, a) = v /\ Append(h.cold, a) = w
  BY AlikeFields
<1>2. Alike([h EXCEPT !["accs"] = v], [f EXCEPT !["accs"] = v])
  BY FieldsPut, PutAlike
<1>3. Alike([h EXCEPT !["cold"] = w], [f EXCEPT !["cold"] = w])
  BY FieldsPut, PutAlike
<1>4. Warm(f, a) = [f EXCEPT !["accs"] = v] /\ Warm(h, a) = [h EXCEPT !["accs"] = v]
  BY <1>1 DEF Warm
<1>5. Surcharge(f, a) = [f EXCEPT !["cold"] = w] /\ Surcharge(h, a) = [h EXCEPT !["cold"] = w]
  BY <1>1 DEF Surcharge
<1> QED BY <1>2, <1>3, <1>4, <1>5

LEMMA PushWordAlike ==
  ASSUME NEW h, NEW f, Alike(h, f), NEW x
  PROVE  Alike(PushWord(h, x), PushWord(f, x))
<1> DEFINE v == Append(f.push, x)
           full(g) == Len(g.stack) - g.pops + Len(g.push) >= StackLimit
<1>1. Append(h.push, x) = v /\ full(h) = full(f)
  BY AlikeFields
<1>2. Alike([h EXCEPT !["push"] = v], [f EXCEPT !["push"] = v])
  BY FieldsPut, PutAlike
<1>3. \A g : PushWord(g, x) = IF full(g) THEN Halt(g, "StackOverflow")
                              ELSE [g EXCEPT !["push"] = Append(g.push, x)]
  BY DEF PushWord
<1> HIDE DEF full
<1>4. Alike(Halt(h, "StackOverflow"), Halt(f, "StackOverflow"))
  BY HaltAlike
<1> QED BY <1>1, <1>2, <1>3, <1>4

LEMMA GrowAlike ==
  ASSUME NEW h, NEW f, Alike(h, f), NEW R
  PROVE  Alike(Grow(h, R), Grow(f, R))
<1> DEFINE real == {r \in R : r[2] > 0}
           far  == \E r \in real : ~RegionFits(r[1], r[2])
           end  == Max({f.mem} \cup {RoundUp(r[1] + r[2]) : r \in real})
           more == Cost(end) - Cost(f.mem)
           hp   == Pay(h, more)
           fp   == Pay(f, more)
           owes == fp.owed + more
           h1   == [hp EXCEPT !["mem"] = end, !["owed"] = owes]
           f1   == [fp EXCEPT !["mem"] = end, !["owed"] = owes]
<1>1. h.mem = f.mem
  BY AlikeFields
<1>2. Alike(hp, fp)
  BY PayAlike
<1> HIDE DEF hp, fp
<1>3. hp.owed = fp.owed /\ hp.out = fp.out
  BY <1>2, AlikeFields
<1>4. Alike(h1, f1)
  BY <1>2, FieldsPut, PutTwoAlike
<1>5. Alike(Halt(h, "OutOfMemory"), Halt(f, "OutOfMemory"))
  BY HaltAlike
<1>6. Grow(f, R) = IF far THEN Halt(f, "OutOfMemory")
                   ELSE IF end = f.mem \/ fp.out # "Ok" THEN fp ELSE f1
  BY DEF Grow, fp
<1>7. Grow(h, R) = IF far THEN Halt(h, "OutOfMemory")
                   ELSE IF end = f.mem \/ hp.out # "Ok" THEN hp ELSE h1
  BY <1>1, <1>3 DEF Grow, hp
<1> HIDE DEF far, h1, f1
<1> QED BY <1>2, <1>3, <1>4, <1>5, <1>6, <1>7

LEMMA PayAccessAlike ==
  ASSUME NEW h, NEW f, Alike(h, f), NEW a
  PROVE  Alike(PayAccess(h, a), PayAccess(f, a))
<1> DEFINE x == IF IsCold(f, a) THEN 2600 ELSE 100
           hp == Pay(Warm(h, a), x)
           fp == Pay(Warm(f, a), x)
<1>1. IsCold(h, a) = IsCold(f, a)
  BY AlikeArgs
<1>2. Alike(hp, fp)
  BY WarmAlike, PayAlike
<1>3. PayAccess(f, a) = IF IsCold(f, a) THEN Surcharge(fp, a) ELSE fp
  BY DEF PayAccess
<1>4. PayAccess(h, a) = IF IsCold(f, a) THEN Surcharge(hp, a) ELSE hp
  BY <1>1 DEF PayAccess
<1> HIDE DEF hp, fp
<1>5. Alike(Surcharge(hp, a), Surcharge(fp, a))
  BY <1>2, WarmAlike
<1> QED BY <1>2, <1>3, <1>4, <1>5

LEMMA PriceAlike ==
  ASSUME NEW h, NEW f, Alike(h, f), NEW v, NEW to
  PROVE  Alike(Price(h, v, to), Price(f, v, to))
<1> DEFINE hp == Pay(h, 9000)
           fp == Pay(f, 9000)
<1>1. h.static = f.static /\ IsEmpty(h, to) = IsEmpty(f, to)
  BY AlikeFields, AlikeArgs
<1>2. Alike(hp, fp)
  BY PayAlike
<1>3. Price(f, v, to) = IF v = 0 THEN f ELSE IF f.static THEN Halt(f, "NonStatic")
                        ELSE IF fp.out = "Ok" /\ IsEmpty(f, to) THEN Pay(fp, 25000) ELSE fp
  BY DEF Price
<1>4. Price(h, v, to) = IF v = 0 THEN h ELSE IF f.static THEN Halt(h, "NonStatic")
                        ELSE IF hp.out = "Ok" /\ IsEmpty(f, to) THEN Pay(hp, 25000) ELSE hp
  BY <1>1 DEF Price
<1> HIDE DEF hp, fp
<1>5. Alike(Pay(hp, 25000), Pay(fp, 25000)) /\ hp.out = fp.out
  BY <1>2, PayAlike, AlikeFields
<1>6. Alike(Halt(h, "NonStatic"), Halt(f, "NonStatic"))
  BY HaltAlike
<1> QED BY <1>2, <1>3, <1>4, <1>5, <1>6

LEMMA LendAlike ==
  ASSUME NEW h, NEW f, Alike(h, f), NEW ask, NEW value
  PROVE  Alike(LendGas(h, ask, value), LendGas(f, ask, value))
<1> DEFINE most == Remaining(f) - Remaining(f) \div 64
           gas  == IF ask < most THEN ask ELSE most
           v    == gas + (IF value THEN 2300 ELSE 0)
           hp   == Pay(h, gas)
           fp   == Pay(f, gas)
<1>1. Remaining(h) = Remaining(f)
  BY AlikeArgs
<1>2. Alike(hp, fp)
  BY PayAlike
<1>3. LendGas(f, ask, value) = [fp EXCEPT !["lent"] = v]
  BY DEF LendGas
<1>4. LendGas(h, ask, value) = [hp EXCEPT !["lent"] = v]
  BY <1>1 DEF LendGas
<1> HIDE DEF hp, fp, v
<1>5. Alike([hp EXCEPT !["lent"] = v], [fp EXCEPT !["lent"] = v])
  BY <1>2, FieldsPut, PutAlike
<1> QED BY <1>3, <1>4, <1>5

\* A slot is written, and what it is worth refunded.
Stored(g, key, val, refund) == [g EXCEPT !.gain = @ + refund, !.slot[key] = val]

LEMMA StoredAlike ==
  ASSUME NEW h, NEW f, Alike(h, f), NEW key, NEW val, NEW refund
  PROVE  Alike(Stored(h, key, val, refund), Stored(f, key, val, refund))
<1> DEFINE gain == f.gain + refund
           slot == [f.slot EXCEPT ![key] = val]
<1>1. h.gain + refund = gain /\ [h.slot EXCEPT ![key] = val] = slot
  BY AlikeFields
<1>2. \A g : Stored(g, key, val, refund) =
               [g EXCEPT !["gain"] = g.gain + refund, !["slot"] = [g.slot EXCEPT ![key] = val]]
  BY Zenon DEF Stored
<1>3. Stored(f, key, val, refund) = [f EXCEPT !["gain"] = gain, !["slot"] = slot]
  BY Zenon, <1>2
<1>4. Stored(h, key, val, refund) = [h EXCEPT !["gain"] = gain, !["slot"] = slot]
  BY Zenon, <1>1, <1>2
<1> HIDE DEF gain, slot
<1>5. Alike([h EXCEPT !["gain"] = gain, !["slot"] = slot], [f EXCEPT !["gain"] = gain, !["slot"] = slot])
  BY FieldsPut, PutTwoAlike
<1> QED BY <1>3, <1>4, <1>5

LEMMA SstoreAlike ==
  ASSUME NEW h, NEW f, Alike(h, f), NEW key, NEW val
  PROVE  Alike(Sstore(h, key, val), Sstore(f, key, val))
<1> DEFINE cur  == f.slot[key]
           new  == key \notin f.warmKeys
           ks   == IF new THEN {key} ELSE f.keys
           x    == SstoreGas(val, cur, Org[key]) + (IF new THEN 2100 ELSE 0)
           back == SstoreRefund(val, cur, Org[key])
           hp   == Pay([h EXCEPT !["keys"] = ks], x)
           fp   == Pay([f EXCEPT !["keys"] = ks], x)
<1>1. h.slot = f.slot /\ h.warmKeys = f.warmKeys /\ h.keys = f.keys
  BY AlikeFields
<1>2. Alike([h EXCEPT !["keys"] = ks], [f EXCEPT !["keys"] = ks])
  BY FieldsPut, PutAlike
<1>3. Sstore(f, key, val) = IF fp.out # "Ok" THEN fp ELSE Stored(fp, key, val, back)
  BY Zenon DEF Sstore, Stored
<1>4. Sstore(h, key, val) = IF hp.out # "Ok" THEN hp ELSE Stored(hp, key, val, back)
  <2> DEFINE ks2   == IF key \notin h.warmKeys THEN {key} ELSE h.keys
             x2    == SstoreGas(val, h.slot[key], Org[key]) + (IF key \notin h.warmKeys THEN 2100 ELSE 0)
             back2 == SstoreRefund(val, h.slot[key], Org[key])
             hp2   == Pay([h EXCEPT !["keys"] = ks2], x2)
  <2>1. Sstore(h, key, val) = IF hp2.out # "Ok" THEN hp2 ELSE Stored(hp2, key, val, back2)
    BY Zenon DEF Sstore, Stored
  <2>2. ks2 = ks /\ x2 = x /\ back2 = back
    BY <1>1
  <2> HIDE DEF ks2, x2, back2, ks, x, back
  <2> QED BY <2>1, <2>2
<1> HIDE DEF x, ks, back
<1>5. Alike(hp, fp)
  BY <1>2, PayAlike
<1> HIDE DEF hp, fp
<1>6. hp.out = fp.out /\ Alike(Stored(hp, key, val, back), Stored(fp, key, val, back))
  BY <1>5, AlikeFields, StoredAlike
<1> QED BY <1>3, <1>4, <1>5, <1>6

LEMMA ColdHeirAlike ==
  ASSUME NEW h, NEW f, Alike(h, f), NEW a
  PROVE  Alike(ColdHeir(h, a), ColdHeir(f, a))
<1> DEFINE hp == IF IsCold(f, a) THEN Surcharge(Pay(h, 2600), a) ELSE h
           fp == IF IsCold(f, a) THEN Surcharge(Pay(f, 2600), a) ELSE f
<1>1. IsCold(h, a) = IsCold(f, a)
  BY AlikeArgs
<1>2. Alike(hp, fp)
  BY PayAlike, WarmAlike
<1>3. ColdHeir(f, a) = IF fp.out = "Ok" THEN Warm(fp, a) ELSE fp
  BY DEF ColdHeir
<1>4. ColdHeir(h, a) = IF hp.out = "Ok" THEN Warm(hp, a) ELSE hp
  BY <1>1 DEF ColdHeir
<1> HIDE DEF hp, fp
<1>5. hp.out = fp.out /\ Alike(Warm(hp, a), Warm(fp, a))
  BY <1>2, AlikeFields, WarmAlike
<1> QED BY <1>2, <1>3, <1>4, <1>5

LEMMA TargetAlike ==
  ASSUME NEW h, NEW f, Alike(h, f), NEW c, NEW i
  PROVE  Alike(Target(h, c, i), Target(f, c, i))
<1> DEFINE d == AsUsize(Arg(f, i))
           good == d < Len(c) /\ c[d + 1].op = "JUMPDEST"
<1>1. AsUsize(Arg(h, i)) = d
  BY AlikeArgs
<1>2. Target(f, c, i) = IF good THEN [f EXCEPT !["pc"] = d] ELSE Halt(f, "BadJump")
  BY DEF Target
<1>3. Target(h, c, i) = IF good THEN [h EXCEPT !["pc"] = d] ELSE Halt(h, "BadJump")
  BY <1>1 DEF Target
<1> HIDE DEF good, d
<1>4. Alike([h EXCEPT !["pc"] = d], [f EXCEPT !["pc"] = d])
  BY FieldsPut, PutAlike
<1>5. Alike(Halt(h, "BadJump"), Halt(f, "BadJump"))
  BY HaltAlike
<1> QED BY <1>2, <1>3, <1>4, <1>5

LEMMA PayLogAlike ==
  ASSUME NEW h, NEW f, Alike(h, f), NEW base, NEW size
  PROVE  Alike(PayLog(h, base, size), PayLog(f, base, size))
<1> DEFINE short == Remaining(f) < base \/ size > (Remaining(f) - base) \div 8
           v == f.charge + Remaining(f)
<1>1. Remaining(h) = Remaining(f) /\ h.charge = f.charge
  BY AlikeArgs, AlikeFields
<1>2. PayLog(f, base, size) = IF short THEN [f EXCEPT !["charge"] = v, !["out"] = "OutOfGas"]
                              ELSE Pay(f, base + 8 * size)
  BY DEF PayLog
<1>3. PayLog(h, base, size) = IF short THEN [h EXCEPT !["charge"] = v, !["out"] = "OutOfGas"]
                              ELSE Pay(h, base + 8 * size)
  BY <1>1 DEF PayLog
<1> HIDE DEF short, v
<1>4. Alike([h EXCEPT !["charge"] = v, !["out"] = "OutOfGas"], [f EXCEPT !["charge"] = v, !["out"] = "OutOfGas"])
  BY FieldsPut, PutTwoAlike
<1>5. Alike(Pay(h, base + 8 * size), Pay(f, base + 8 * size))
  BY PayAlike
<1> QED BY <1>2, <1>3, <1>4, <1>5

\* The balance of the frame's account goes to its heir.
Moved(g, heir) == [g EXCEPT !.bal[heir] = @ + g.bal[This], !.bal[This] = 0]

LEMMA MovedAlike ==
  ASSUME NEW h, NEW f, Alike(h, f), NEW heir
  PROVE  Alike(Moved(h, heir), Moved(f, heir))
<1> DEFINE b == [f.bal EXCEPT ![heir] = f.bal[heir] + f.bal[This]]
           h1 == [h EXCEPT !["bal"] = b]
           f1 == [f EXCEPT !["bal"] = b]
           h2 == [h1 EXCEPT !["bal"] = [h1.bal EXCEPT ![This] = 0]]
           f2 == [f1 EXCEPT !["bal"] = [f1.bal EXCEPT ![This] = 0]]
<1>1. [h.bal EXCEPT ![heir] = h.bal[heir] + h.bal[This]] = b
  BY AlikeFields
<1>2. Alike(h1, f1)
  BY FieldsPut, PutAlike
<1>3. Moved(f, heir) = f2
  BY Zenon DEF Moved
<1>4. Moved(h, heir) = h2
  BY Zenon, <1>1 DEF Moved
<1> HIDE DEF h1, f1
<1>5. h1.bal = f1.bal
  BY <1>2, AlikeFields
<1> DEFINE b2 == [f1.bal EXCEPT ![This] = 0]
<1>6. f2 = [f1 EXCEPT !["bal"] = b2] /\ h2 = [h1 EXCEPT !["bal"] = b2]
  BY <1>5
<1> HIDE DEF h2, f2, b2
<1>7. Alike([h1 EXCEPT !["bal"] = b2], [f1 EXCEPT !["bal"] = b2])
  BY <1>2, FieldsPut, PutAlike
<1> QED BY <1>3, <1>4, <1>6, <1>7

LEMMA BequeathAlike ==
  ASSUME NEW h, NEW f, Alike(h, f), NEW heir
  PROVE  Alike(Bequeath(h, heir), Bequeath(f, heir))
<1> DEFINE moves == f.bal[This] # 0 /\ heir # This
           paid(g) == IF moves /\ IsEmpty(f, heir) THEN Pay(g, 25000) ELSE g
           then(g) == IF moves THEN Moved(g, heir) ELSE g
<1>1. h.bal = f.bal /\ IsEmpty(h, heir) = IsEmpty(f, heir) /\ h.born = f.born
  BY AlikeFields, AlikeArgs
<1>2. Alike(paid(h), paid(f))
  BY PayAlike
<1>3. Bequeath(f, heir) = IF paid(f).out = "Ok" THEN [then(paid(f)) EXCEPT !["gone"] = f.born] ELSE paid(f)
  BY DEF Bequeath, Moved
<1>4. Bequeath(h, heir) = IF paid(h).out = "Ok" THEN [then(paid(h)) EXCEPT !["gone"] = f.born] ELSE paid(h)
  BY <1>1 DEF Bequeath, Moved
<1> DEFINE hp == paid(h)
           fp == paid(f)
<1>5. Alike(hp, fp) /\ Bequeath(f, heir) = (IF fp.out = "Ok" THEN [then(fp) EXCEPT !["gone"] = f.born] ELSE fp)
      /\ Bequeath(h, heir) = (IF hp.out = "Ok" THEN [then(hp) EXCEPT !["gone"] = f.born] ELSE hp)
  BY <1>2, <1>3, <1>4
<1> HIDE DEF hp, fp
<1>6. Alike(then(hp), then(fp))
  BY <1>5, MovedAlike
<1> HIDE DEF then
<1>7. Alike([then(hp) EXCEPT !["gone"] = f.born], [then(fp) EXCEPT !["gone"] = f.born])
  BY <1>6, FieldsPut, PutAlike
<1>8. hp.out = fp.out
  BY <1>5, AlikeFields
<1> QED BY <1>5, <1>7, <1>8

LEMMA PushedDataAlike ==
  ASSUME NEW h, NEW f, Alike(h, f), NEW c, NEW n
  PROVE  PushedData(h, c, n) = PushedData(f, c, n)
<1> DEFINE row(pc) == [i \in 1 .. n |->
                         IF pc + 1 + i <= Len(c)
                         THEN (c[pc + 1 + i].n % Two[ByteBits]) * Two[ByteBits * (n - i)] ELSE 0]
<1>1. PushedData(f, c, n) = Total(row(f.pc), 1 .. n)
  BY DEF PushedData, Total
<1>2. PushedData(h, c, n) = Total(row(h.pc), 1 .. n)
  BY DEF PushedData, Total
<1> HIDE DEF row
<1> QED BY <1>1, <1>2, AlikeFields

LEMMA PushedAlike ==
  ASSUME NEW h, NEW f, Alike(h, f), NEW c, NEW op, NEW s, s.do = "push", Parameters(s)
  PROVE  Pushed(h, c, op, s.what) = Pushed(f, c, op, s.what)
<1>1. h.pc = f.pc /\ h.mem = f.mem /\ h.slot = f.slot /\ h.temp = f.temp
  BY AlikeFields
<1>2. /\ Arg(h, 1) = Arg(f, 1) /\ Args(h) = Args(f) /\ Remaining(h) = Remaining(f)
      /\ HashNumber(h) = HashNumber(f)
  BY AlikeArgs
<1>3. PushedData(h, c, c[f.pc + 1].n) = PushedData(f, c, c[f.pc + 1].n)
  BY PushedDataAlike
<1>4. CASE s.what = "alu"    BY <1>2, <1>4 DEF Pushed
<1>5. CASE s.what = "data"   BY <1>1, <1>3, <1>5 DEF Pushed
<1>6. CASE s.what = "slot"   BY <1>1, <1>2, <1>6 DEF Pushed
<1>7. CASE s.what = "temp"   BY <1>1, <1>2, <1>7 DEF Pushed
<1>8. CASE s.what = "hash"   BY <1>2, <1>8 DEF Pushed
<1>9. CASE s.what = "pc"     BY <1>1, <1>9 DEF Pushed
<1>10. CASE s.what = "msize" BY <1>1, <1>10 DEF Pushed
<1>11. CASE s.what = "gas"   BY <1>2, <1>11 DEF Pushed
<1>12. CASE s.what = "given" BY <1>12 DEF Pushed
<1> QED BY <1>4, <1>5, <1>6, <1>7, <1>8, <1>9, <1>10, <1>11, <1>12 DEF Parameters

LEMMA DoPayAlike ==
  ASSUME NEW h, NEW f, Alike(h, f), NEW c, NEW op, NEW s, s.do \in Payers
  PROVE  Alike(Do(h, c, op, s), Do(f, c, op, s))
<1>1. \A i : Arg(h, i) = Arg(f, i)
  BY AlikeArgs
<1>2. \A x : Alike(Pay(h, x), Pay(f, x))
  BY PayAlike
<1>3. CASE s.do = "charge"
  <2>1. Do(h, c, op, s) = Pay(h, s.gas) /\ Do(f, c, op, s) = Pay(f, s.gas)
    BY <1>3 DEF Do
  <2> QED BY <1>2, <2>1
<1>4. CASE s.do = "charge_exp"
  <2>1. Do(h, c, op, s) = Pay(h, ExpCost(Arg(f, 2))) /\ Do(f, c, op, s) = Pay(f, ExpCost(Arg(f, 2)))
    BY <1>1, <1>4 DEF Do
  <2> QED BY <1>2, <2>1
<1>5. CASE s.do = "per_word"
  <2> DEFINE x == s.gas * (RoundUp(AsUsize(Arg(f, s.s))) \div Bytes)
  <2>1. Do(f, c, op, s) = Pay(f, x)
    BY <1>5 DEF Do
  <2>2. Do(h, c, op, s) = Pay(h, x)
    BY <1>1, <1>5 DEF Do
  <2> QED BY <1>2, <2>1, <2>2
<1>6. CASE s.do = "value_cost"
  <2> DEFINE v == Arg(f, s.i)
             to == Addr(Arg(f, s.to))
  <2>1. Do(h, c, op, s) = Price(h, v, to) /\ Do(f, c, op, s) = Price(f, v, to)
    BY <1>1, <1>6 DEF Do
  <2> QED BY <2>1, PriceAlike
<1>7. CASE s.do = "paid_value"
  <2>1. Do(f, c, op, s) = IF Arg(f, s.i) = 0 THEN f ELSE Pay(f, 9000)
    BY <1>7 DEF Do
  <2>2. Do(h, c, op, s) = IF Arg(f, s.i) = 0 THEN h ELSE Pay(h, 9000)
    BY <1>1, <1>7 DEF Do
  <2> QED BY <1>2, <2>1, <2>2
<1>8. CASE s.do = "log_cost"
  <2> DEFINE base == 375 + 375 * s.n
             size == AsUsize(Arg(f, 2))
  <2>1. Do(h, c, op, s) = PayLog(h, base, size) /\ Do(f, c, op, s) = PayLog(f, base, size)
    BY <1>1, <1>8 DEF Do
  <2> QED BY <2>1, PayLogAlike
<1> QED BY <1>3, <1>4, <1>5, <1>6, <1>7, <1>8 DEF Payers

LEMMA DoCheckAlike ==
  ASSUME NEW h, NEW f, Alike(h, f), NEW c, NEW op, NEW s, s.do \in Checks
  PROVE  Alike(Do(h, c, op, s), Do(f, c, op, s))
<1>1. /\ \A i : Arg(h, i) = Arg(f, i)
      /\ Remaining(h) = Remaining(f)
  BY AlikeArgs
<1>2. h.static = f.static /\ h.stack = f.stack /\ h.ret = f.ret
  BY AlikeFields
<1>3. \A why : Alike(Halt(h, why), Halt(f, why))
  BY HaltAlike
<1>5. CASE s.do = "static"
  <2> DEFINE p == ~f.static
  <2>1. Do(f, c, op, s) = IF p THEN f ELSE Halt(f, "NonStatic")
    BY <1>5 DEF Do
  <2>2. Do(h, c, op, s) = IF p THEN h ELSE Halt(h, "NonStatic")
    BY <1>2, <1>5 DEF Do
  <2> HIDE DEF p
  <2> QED BY <1>3, <2>1, <2>2
<1>6. CASE s.do = "operands"
  <2> DEFINE p == ~ Len(f.stack) < s.n
  <2>1. Do(f, c, op, s) = IF p THEN f ELSE Halt(f, "StackUnderflow")
    BY <1>6 DEF Do
  <2>2. Do(h, c, op, s) = IF p THEN h ELSE Halt(h, "StackUnderflow")
    BY <1>2, <1>6 DEF Do
  <2> HIDE DEF p
  <2> QED BY <1>3, <2>1, <2>2
<1>7. CASE s.do = "range"
  <2> DEFINE p == RangeFits(Arg(f, s.o), Arg(f, s.s))
  <2>1. Do(f, c, op, s) = IF p THEN f ELSE Halt(f, "OutOfMemory")
    BY <1>7 DEF Do
  <2>2. Do(h, c, op, s) = IF p THEN h ELSE Halt(h, "OutOfMemory")
    BY <1>1, <1>7 DEF Do
  <2> HIDE DEF p
  <2> QED BY <1>3, <2>1, <2>2
<1>8. CASE s.do = "fixed"
  <2> DEFINE p == RangeFits(Arg(f, s.o), s.n)
  <2>1. Do(f, c, op, s) = IF p THEN f ELSE Halt(f, "OutOfMemory")
    BY <1>8 DEF Do
  <2>2. Do(h, c, op, s) = IF p THEN h ELSE Halt(h, "OutOfMemory")
    BY <1>1, <1>8 DEF Do
  <2> HIDE DEF p
  <2> QED BY <1>3, <2>1, <2>2
<1>9. CASE s.do = "ret_range"
  <2> DEFINE p == \/ AsUsize(Arg(f, s.o)) + AsUsize(Arg(f, s.s)) <= f.ret
                  \/ (Arg(f, s.o) + Arg(f, s.s)) % W <= f.ret
  <2>1. Do(f, c, op, s) = IF p THEN f ELSE Halt(f, "BadCopyRange")
    BY <1>9 DEF Do
  <2>2. Do(h, c, op, s) = IF p THEN h ELSE Halt(h, "BadCopyRange")
    BY <1>1, <1>2, <1>9 DEF Do
  <2> HIDE DEF p
  <2> QED BY <1>3, <2>1, <2>2
<1>10. CASE s.do = "sentinel"
  <2> DEFINE p == ~ Remaining(f) <= 2300
  <2>1. Do(f, c, op, s) = IF p THEN f ELSE Halt(f, "GasBelowStipend")
    BY <1>10 DEF Do
  <2>2. Do(h, c, op, s) = IF p THEN h ELSE Halt(h, "GasBelowStipend")
    BY <1>1, <1>10 DEF Do
  <2> HIDE DEF p
  <2> QED BY <1>3, <2>1, <2>2
<1>11. CASE s.do = "yield"
  <2>1. Do(h, c, op, s) = Halt(h, s.how) /\ Do(f, c, op, s) = Halt(f, s.how)
    BY <1>11 DEF Do, Halt
  <2> QED BY <1>3, <2>1
<1>12. CASE s.do = "invalid"
  <2>1. Do(h, c, op, s) = Halt(h, "BadOpcode") /\ Do(f, c, op, s) = Halt(f, "BadOpcode")
    BY <1>12 DEF Do
  <2> QED BY <1>3, <2>1
<1> QED BY <1>5, <1>6, <1>7, <1>8, <1>9, <1>10, <1>11, <1>12 DEF Checks

LEMMA DoPushAlike ==
  ASSUME NEW h, NEW f, Alike(h, f), NEW c, NEW op, NEW s, s.do \in Pushers, Parameters(s)
  PROVE  Alike(Do(h, c, op, s), Do(f, c, op, s))
<1>1. CASE s.do = "push"
  <2> DEFINE x == Pushed(f, c, op, s.what)
  <2>1. Pushed(h, c, op, s.what) = x
    BY <1>1, PushedAlike
  <2>2. Do(f, c, op, s) = PushWord(f, x)
    BY <1>1 DEF Do
  <2>3. Do(h, c, op, s) = PushWord(h, Pushed(h, c, op, s.what))
    BY <1>1 DEF Do
  <2> HIDE DEF x
  <2> QED BY <2>1, <2>2, <2>3, PushWordAlike
<1>2. CASE s.do = "dup"
  <2> DEFINE n == c[f.pc + 1].n
             p == Len(f.stack) < n
             x == Arg(f, n)
  <2>1. h.pc = f.pc /\ h.stack = f.stack /\ Arg(h, n) = x
    BY AlikeFields, AlikeArgs
  <2>2. Do(f, c, op, s) = IF p THEN Halt(f, "StackUnderflow") ELSE PushWord(f, x)
    BY <1>2 DEF Do
  <2>3. Do(h, c, op, s) = IF p THEN Halt(h, "StackUnderflow") ELSE PushWord(h, x)
    BY <1>2, <2>1 DEF Do
  <2> HIDE DEF p, x
  <2> QED BY <2>2, <2>3, HaltAlike, PushWordAlike
<1> QED BY <1>1, <1>2 DEF Pushers

LEMMA DoGrowAlike ==
  ASSUME NEW h, NEW f, Alike(h, f), NEW c, NEW op, NEW s, s.do \in Growers
  PROVE  Alike(Do(h, c, op, s), Do(f, c, op, s))
<1>0. \A i : Arg(h, i) = Arg(f, i)
  BY AlikeArgs
<1>1. CASE s.do = "expand"
  <2> DEFINE R == {<<AsUsize(Arg(f, r[1])), AsUsize(Arg(f, r[2]))>> : r \in Fn!Range(s.regions)}
  <2>1. Do(f, c, op, s) = Grow(f, R)
    BY <1>1 DEF Do
  <2>2. Do(h, c, op, s) = Grow(h, R)
    BY Zenon, <1>0, <1>1 DEF Do
  <2> HIDE DEF R
  <2> QED BY <2>1, <2>2, GrowAlike
<1>2. CASE s.do = "expand_fixed"
  <2> DEFINE R == {<<AsUsize(Arg(f, s.o)), s.n>>}
  <2>1. Do(f, c, op, s) = Grow(f, R)
    BY <1>2 DEF Do
  <2>2. Do(h, c, op, s) = Grow(h, R)
    BY <1>0, <1>2 DEF Do
  <2> HIDE DEF R
  <2> QED BY <2>1, <2>2, GrowAlike
<1> QED BY <1>1, <1>2 DEF Growers

LEMMA DoWarmAlike ==
  ASSUME NEW h, NEW f, Alike(h, f), NEW c, NEW op, NEW s, s.do \in Warmers,
         s.do = "access_delegate" => Delegate(h, Addr(Arg(f, s.i))) = Delegate(f, Addr(Arg(f, s.i)))
  PROVE  Alike(Do(h, c, op, s), Do(f, c, op, s))
<1>0. (\A i : Arg(h, i) = Arg(f, i)) /\ \A a : IsCold(h, a) = IsCold(f, a)
  BY AlikeArgs
<1>1. CASE s.do = "cold"
  <2> DEFINE a == Addr(Arg(f, s.i))
             hp == Surcharge(Warm(h, a), a)
             fp == Surcharge(Warm(f, a), a)
  <2>1. Do(f, c, op, s) = IF IsCold(f, a) THEN Pay(fp, 2500) ELSE f
    BY <1>1 DEF Do
  <2>2. Do(h, c, op, s) = IF IsCold(f, a) THEN Pay(hp, 2500) ELSE h
    BY <1>0, <1>1 DEF Do
  <2>3. Alike(hp, fp)
    BY WarmAlike
  <2> HIDE DEF hp, fp
  <2>4. Alike(Pay(hp, 2500), Pay(fp, 2500))
    BY <2>3, PayAlike
  <2> QED BY <2>1, <2>2, <2>4
<1>2. CASE s.do = "access"
  <2> DEFINE a == Addr(Arg(f, s.i))
  <2>1. Do(f, c, op, s) = PayAccess(f, a) /\ Do(h, c, op, s) = PayAccess(h, a)
    BY <1>0, <1>2 DEF Do
  <2> QED BY <2>1, PayAccessAlike
<1>3. CASE s.do = "access_delegate"
  <2> DEFINE d == Delegate(f, Addr(Arg(f, s.i)))
  <2>1. Do(f, c, op, s) = IF d = {} THEN f ELSE PayAccess(f, Max(d))
    BY <1>3 DEF Do
  <2>2. Delegate(h, Addr(Arg(h, s.i))) = d
    BY <1>0, <1>3
  <2>3. Do(h, c, op, s) = IF d = {} THEN h ELSE PayAccess(h, Max(d))
    <3> HIDE DEF d
    <3> QED BY <1>3, <2>2 DEF Do
  <2> HIDE DEF d
  <2> QED BY <2>1, <2>3, PayAccessAlike
<1>4. CASE s.do = "cold_heir"
  <2> DEFINE a == Addr(Arg(f, 1))
  <2>1. Do(f, c, op, s) = ColdHeir(f, a) /\ Do(h, c, op, s) = ColdHeir(h, a)
    BY <1>0, <1>4 DEF Do
  <2> QED BY <2>1, ColdHeirAlike
<1> QED BY <1>1, <1>2, <1>3, <1>4 DEF Warmers

LEMMA DoPeekAlike ==
  ASSUME NEW h, NEW f, Alike(h, f), NEW c, NEW op, NEW s, s.do = "peek"
  PROVE  Alike(Do(h, c, op, s), Do(f, c, op, s))
<1> DEFINE p == Len(f.stack) < s.n
<1>1. h.stack = f.stack
  BY AlikeFields
<1>2. Do(f, c, op, s) = IF p THEN Halt(f, "StackUnderflow") ELSE [f EXCEPT !["pops"] = s.n]
  BY DEF Do
<1>3. Do(h, c, op, s) = IF p THEN Halt(h, "StackUnderflow") ELSE [h EXCEPT !["pops"] = s.n]
  BY <1>1 DEF Do
<1> HIDE DEF p
<1>4. Alike([h EXCEPT !["pops"] = s.n], [f EXCEPT !["pops"] = s.n])
  BY FieldsPut, PutAlike
<1>5. Alike(Halt(h, "StackUnderflow"), Halt(f, "StackUnderflow"))
  BY HaltAlike
<1> QED BY <1>2, <1>3, <1>4, <1>5

LEMMA DoLastAlike ==
  ASSUME NEW h, NEW f, Alike(h, f), NEW c, NEW op, NEW s, s.do \in Lasts
  PROVE  Alike(Do(h, c, op, s), Do(f, c, op, s))
<1>0. /\ \A i : Arg(h, i) = Arg(f, i)
      /\ h.pc = f.pc /\ h.stack = f.stack /\ h.logs = f.logs
  BY AlikeArgs, AlikeFields
<1>1. CASE s.do = "log"
  <2> DEFINE n == s.n + 2
             l == f.logs + 1
  <2>1. Do(f, c, op, s) = [f EXCEPT !["pops"] = n, !["logs"] = l]
    BY Zenon, <1>1 DEF Do
  <2>2. Do(h, c, op, s) = [h EXCEPT !["pops"] = n, !["logs"] = l]
    BY Zenon, <1>0, <1>1 DEF Do
  <2> HIDE DEF n, l
  <2>3. Alike([h EXCEPT !["pops"] = n, !["logs"] = l], [f EXCEPT !["pops"] = n, !["logs"] = l])
    BY FieldsPut, PutTwoAlike
  <2> QED BY <2>1, <2>2, <2>3
<1>2. CASE s.do = "jump"
  <2>1. Do(f, c, op, s) = Target(f, c, 1) /\ Do(h, c, op, s) = Target(h, c, 1)
    BY <1>2 DEF Do
  <2> QED BY <2>1, TargetAlike
<1>3. CASE s.do = "jumpi"
  <2> DEFINE p == Arg(f, 2) = 0
             x == f.pc + 1
  <2>1. Do(f, c, op, s) = IF p THEN [f EXCEPT !["pc"] = x] ELSE Target(f, c, 1)
    BY <1>3 DEF Do
  <2>2. Do(h, c, op, s) = IF p THEN [h EXCEPT !["pc"] = x] ELSE Target(h, c, 1)
    BY <1>0, <1>3 DEF Do
  <2> HIDE DEF p, x
  <2>3. Alike([h EXCEPT !["pc"] = x], [f EXCEPT !["pc"] = x])
    BY FieldsPut, PutAlike
  <2>4. Alike(Target(h, c, 1), Target(f, c, 1))
    BY TargetAlike
  <2> QED BY <2>1, <2>2, <2>3, <2>4
<1>4. CASE s.do = "skip"
  <2> DEFINE x == f.pc + c[f.pc + 1].n
  <2>1. Do(f, c, op, s) = [f EXCEPT !["pc"] = x]
    BY <1>4 DEF Do
  <2>2. Do(h, c, op, s) = [h EXCEPT !["pc"] = x]
    BY <1>0, <1>4 DEF Do
  <2> HIDE DEF x
  <2>3. Alike([h EXCEPT !["pc"] = x], [f EXCEPT !["pc"] = x])
    BY FieldsPut, PutAlike
  <2> QED BY <2>1, <2>2, <2>3
<1>5. CASE s.do = "swap"
  <2> DEFINE n == c[f.pc + 1].n
             l == Len(f.stack)
             x == [f.stack EXCEPT ![l] = f.stack[l - n], ![l - n] = f.stack[l]]
             p == l <= n
  <2>1. Do(f, c, op, s) = IF p THEN Halt(f, "StackUnderflow") ELSE [f EXCEPT !["stack"] = x]
    BY <1>5 DEF Do
  <2>2. Do(h, c, op, s) = IF p THEN Halt(h, "StackUnderflow") ELSE [h EXCEPT !["stack"] = x]
    BY <1>0, <1>5 DEF Do
  <2> HIDE DEF p, x
  <2>3. Alike([h EXCEPT !["stack"] = x], [f EXCEPT !["stack"] = x])
    BY FieldsPut, PutAlike
  <2>4. Alike(Halt(h, "StackUnderflow"), Halt(f, "StackUnderflow"))
    BY HaltAlike
  <2> QED BY <2>1, <2>2, <2>3, <2>4
<1> QED BY <1>1, <1>2, <1>3, <1>4, <1>5 DEF Lasts

LEMMA DoChangeAlike ==
  ASSUME NEW h, NEW f, Alike(h, f), NEW c, NEW op, NEW s,
         s.do \in {"warm_slot", "sstore", "tstore", "bequeath", "lend"}
  PROVE  Alike(Do(h, c, op, s), Do(f, c, op, s))
<1>0. (\A i : Arg(h, i) = Arg(f, i)) /\ Remaining(h) = Remaining(f)
  BY AlikeArgs
<1>1. CASE s.do = "warm_slot"
  <2> DEFINE k == Arg(f, 1)
             p == k \in f.warmKeys
             ks == f.warmKeys \cup {k}
             hp == [h EXCEPT !["warmKeys"] = ks]
             fp == [f EXCEPT !["warmKeys"] = ks]
  <2>1. Do(f, c, op, s) = IF p THEN f ELSE Pay(fp, 2000)
    BY <1>1 DEF Do
  <2>2. h.warmKeys = f.warmKeys
    BY AlikeFields
  <2>3. Do(h, c, op, s) = IF p THEN h ELSE Pay(hp, 2000)
    BY <1>0, <1>1, <2>2 DEF Do
  <2>4. Alike(hp, fp)
    <3> HIDE DEF ks
    <3> QED BY FieldsPut, PutAlike
  <2> HIDE DEF p, hp, fp
  <2>5. Alike(Pay(hp, 2000), Pay(fp, 2000))
    BY <2>4, PayAlike
  <2> QED BY <2>1, <2>3, <2>5
<1>2. CASE s.do = "sstore"
  <2> DEFINE k == Arg(f, 1)
             v == Arg(f, 2)
  <2>1. Do(f, c, op, s) = Sstore(f, k, v) /\ Do(h, c, op, s) = Sstore(h, k, v)
    BY <1>0, <1>2 DEF Do
  <2> QED BY <2>1, SstoreAlike
<1>3. CASE s.do = "tstore"
  <2> DEFINE t == [f.temp EXCEPT ![Arg(f, 1)] = Arg(f, 2)]
  <2>1. Do(f, c, op, s) = [f EXCEPT !["temp"] = t]
    BY <1>3 DEF Do
  <2>2. h.temp = f.temp
    BY AlikeFields
  <2>3. Do(h, c, op, s) = [h EXCEPT !["temp"] = [h.temp EXCEPT ![Arg(h, 1)] = Arg(h, 2)]]
    BY <1>3 DEF Do
  <2>6. Arg(h, 1) = Arg(f, 1) /\ Arg(h, 2) = Arg(f, 2)
    BY <1>0
  <2>4. Do(h, c, op, s) = [h EXCEPT !["temp"] = t]
    BY Zenon, <2>2, <2>3, <2>6
  <2> HIDE DEF t
  <2>5. Alike([h EXCEPT !["temp"] = t], [f EXCEPT !["temp"] = t])
    BY FieldsPut, PutAlike
  <2> QED BY <2>1, <2>4, <2>5
<1>4. CASE s.do = "bequeath"
  <2> DEFINE a == Addr(Arg(f, 1))
  <2>1. Do(f, c, op, s) = Bequeath(f, a) /\ Do(h, c, op, s) = Bequeath(h, a)
    BY <1>0, <1>4 DEF Do
  <2> QED BY <2>1, BequeathAlike
<1>5. CASE s.do = "lend"
  <2> DEFINE ask == IF s.i = 0 THEN Remaining(f) ELSE AsUsize(Arg(f, s.i))
             value == s.v # 0 /\ Arg(f, s.v) # 0
  <2>1. Do(f, c, op, s) = LendGas(f, ask, value)
    BY <1>5 DEF Do
  <2> DEFINE ask2 == IF s.i = 0 THEN Remaining(h) ELSE AsUsize(Arg(h, s.i))
             value2 == s.v # 0 /\ Arg(h, s.v) # 0
  <2>2. Do(h, c, op, s) = LendGas(h, ask2, value2)
    BY <1>5 DEF Do
  <2>3. ask2 = ask /\ value2 = value
    BY <1>0
  <2> HIDE DEF ask, value, ask2, value2
  <2> QED BY <2>1, <2>2, <2>3, LendAlike
<1> QED BY <1>1, <1>2, <1>3, <1>4, <1>5

\* A step that asks for no data does the same to both.
LEMMA DoAlike ==
  ASSUME NEW h, NEW f, Alike(h, f), NEW c, NEW op, NEW s, Parameters(s), s.do \notin Fetchers,
         s.do = "access_delegate" => Delegate(h, Addr(Arg(f, s.i))) = Delegate(f, Addr(Arg(f, s.i)))
  PROVE  Alike(Do(h, c, op, s), Do(f, c, op, s))
<1>1. \/ s.do \in Payers \/ s.do \in Checks \/ s.do \in Pushers \/ s.do \in Warmers
      \/ s.do \in Lasts \/ s.do \in Growers \/ s.do = "peek"
      \/ s.do \in {"warm_slot", "sstore", "tstore", "bequeath", "lend"}
  BY DEF Parameters, Steps, Changers
<1>2. CASE s.do \in Payers BY <1>2, DoPayAlike
<1>3. CASE s.do \in Checks BY <1>3, DoCheckAlike
<1>4. CASE s.do \in Pushers BY <1>4, DoPushAlike
<1>5. CASE s.do \in Warmers BY <1>5, DoWarmAlike
<1>6. CASE s.do \in Lasts BY <1>6, DoLastAlike
<1>7. CASE s.do \in Growers BY <1>7, DoGrowAlike
<1>8. CASE s.do = "peek" BY <1>8, DoPeekAlike
<1>9. CASE s.do \in {"warm_slot", "sstore", "tstore", "bequeath", "lend"} BY <1>9, DoChangeAlike
<1> QED BY <1>1, <1>2, <1>3, <1>4, <1>5, <1>6, <1>7, <1>8, <1>9

LEMMA FetchIs ==
  ASSUME NEW h, h.known = Everything
  PROVE  /\ \A a \in Acct : Fetch(h, <<"acc", a>>) = h
         /\ \A x \in Word : Fetch(h, <<"slot", x>>) = h /\ Fetch(h, <<"hash", x>>) = h
BY AccItem, WordItem DEF Fetch

\* A step that asks for data finds it at hand.
LEMMA FetchAlike ==
  ASSUME NEW h, NEW f, Alike(h, f), Going(f), NEW c, NEW op, NEW s, s.do \in Fetchers,
         \A i \in Reads(s) : i \in 1 .. Len(f.stack)
  PROVE  Do(h, c, op, s) = h
<1>0. IsFrame(f) /\ h.known = Everything /\ (\A i : Arg(h, i) = Arg(f, i)) /\ HashNumber(h) = HashNumber(f)
  BY AlikeArgs DEF Going, Alike
<1>1. CASE s.do = "need_this"
  <2>1. Do(h, c, op, s) = Fetch(h, <<"acc", This>>)
    BY <1>1 DEF Do
  <2> QED BY <1>0, <2>1, FetchIs, MachineAssumption
<1>2. CASE s.do = "need"
  <2> DEFINE a == Addr(Arg(f, s.i))
  <2>1. s.i \in Reads(s)
    BY <1>2 DEF Reads
  <2>2. a \in Acct
    BY <1>0, <2>1, ArgWord, AddrAcct
  <2>3. Do(h, c, op, s) = IF a \in s.but THEN h ELSE Fetch(h, <<"acc", a>>)
    BY <1>0, <1>2 DEF Do
  <2> HIDE DEF a
  <2> QED BY <1>0, <2>2, <2>3, FetchIs
<1>3. CASE s.do = "need_delegate"
  <2> DEFINE d == Delegate(h, Addr(Arg(h, s.i)))
  <2>1. Do(h, c, op, s) = IF d = {} THEN h ELSE Fetch(h, <<"acc", Max(d)>>)
    BY <1>3 DEF Do
  <2>2. d = {} \/ Max(d) \in Acct
    BY DelegateIs
  <2> HIDE DEF d
  <2> QED BY <1>0, <2>1, <2>2, FetchIs
<1>4. CASE s.do = "need_slot"
  <2>1. Do(h, c, op, s) = Fetch(h, <<"slot", Arg(f, 1)>>) /\ 1 \in Reads(s)
    BY <1>0, <1>4 DEF Do, Reads
  <2>2. Arg(f, 1) \in Word
    BY <1>0, <2>1, ArgWord
  <2> QED BY <1>0, <2>1, <2>2, FetchIs
<1>5. CASE s.do = "need_hash"
  <2> DEFINE x == HashNumber(h)
  <2>1. Do(h, c, op, s) = IF InWindow(x) THEN Fetch(h, <<"hash", x>>) ELSE h
    BY <1>5 DEF Do
  <2>2. x \in Word
    <3>1. 1 \in Reads(s)
      BY <1>5 DEF Reads
    <3>2. HashNumber(f) \in Word
      BY <1>0, <3>1, ArgWord DEF HashNumber
    <3> QED BY <1>0, <3>2
  <2> HIDE DEF x
  <2> QED BY <1>0, <2>1, <2>2, FetchIs
<1> QED BY <1>1, <1>2, <1>3, <1>4, <1>5 DEF Fetchers

\* What is needed and not asked for is known.
LEMMA NeedKnown ==
  ASSUME NEW f, Going(f), NEW c, NEW op, NEW s, s.do = "need",
         \A i \in Reads(s) : i \in 1 .. Len(f.stack), Do(f, c, op, s).out = "Ok"
  PROVE  Addr(Arg(f, s.i)) \in s.but \/ <<"acc", Addr(Arg(f, s.i))>> \in f.known
<1> DEFINE a == Addr(Arg(f, s.i))
           item == <<"acc", a>>
<1>1. IsFrame(f) /\ s.i \in Reads(s)
  BY DEF Going, Reads
<1>2. a \in Acct
  BY <1>1, ArgWord, AddrAcct
<1>3. Do(f, c, op, s) = IF a \in s.but THEN f ELSE Fetch(f, item)
  BY DEF Do
<1>4. item \in Everything
  BY <1>2, AccItem
<1> HIDE DEF item
<1>5. Fetch(f, item).out = "Fetch" \/ item \in f.known
  BY <1>1, <1>4, FetchFacts
<1> QED BY <1>3, <1>5 DEF item

\* Address zero is no authority: an authority is the signer of its authorization.
ZeroIsPlain == 0 \notin DOMAIN Auth

\* What was needed is not of the kind that is never asked for, or is known.
HasData(g, f, p, k) ==
  g.out = "Ok" => \A j \in 1 .. k : p[j].do = "need" =>
    Addr(Arg(f, p[j].i)) \in p[j].but \/ <<"acc", Addr(Arg(f, p[j].i))>> \in f.known

\* After k steps: g of the frame f, and h of the frame that holds all data.
Abreast(h, g, f, p, k) == (g.out = "Fetch" \/ Alike(h, g)) /\ HasData(g, f, p, k)

\* Both find the same delegate.
LEMMA DelegateAlike ==
  ASSUME NEW h, NEW g, NEW f, NEW c, NEW op, NEW p, NEW k, Stepping(g, f, c, op, p, k),
         Alike(h, g), HasData(g, f, p, k - 1), ZeroIsPlain, p[k].do = "access_delegate"
  PROVE  Delegate(h, Addr(Arg(g, p[k].i))) = Delegate(g, Addr(Arg(g, p[k].i)))
<1> DEFINE a == Addr(Arg(f, p[k].i))
<1>1. Ready(g, c, op, p[k]) /\ \A i : Arg(g, i) = Arg(f, i)
  BY StepReady, NotLast
<1>2. a \in Acct
  <2>1. p[k].i \in Reads(p[k])
    BY DEF Reads
  <2>2. p[k].i \in 1 .. Len(g.stack) /\ IsFrame(g)
    BY <1>1, <2>1 DEF Ready, Going
  <2>3. Arg(g, p[k].i) \in Nat
    BY <2>2, ArgWord
  <2> QED BY <1>1, <2>3, AddrAcct
<1>3. LegalCall(p, k, op) /\ g.out = "Ok"
  BY DEF Stepping, Legal, LegalStep
<1>4. PICK j \in 1 .. k - 1 : p[j].do = "need" /\ p[j].i = p[k].i /\ p[j].but \subseteq Pre \cup {0}
  BY <1>3 DEF LegalCall
<1>5. a \in p[j].but \/ <<"acc", a>> \in f.known
  BY <1>3, <1>4 DEF HasData
<1>6. g.known = f.known
  BY DEF Stepping, Mid, Base, Only, Fields, Kept
<1>7. h.known = Everything /\ <<"acc", a>> \in Everything
  BY <1>2, AccItem DEF Alike
<1>8. a \notin DOMAIN Auth \/ <<"acc", a>> \in g.known
  BY <1>4, <1>5, <1>6, MachineAssumption DEF ZeroIsPlain
<1>9. Delegate(h, a) = Delegate(g, a)
  <2> HIDE DEF a
  <2> QED BY <1>7, <1>8 DEF Delegate
<1> QED BY <1>1, <1>9

LEMMA AbreastStep ==
  ASSUME NEW h, NEW g, NEW f, NEW c, NEW op, NEW p, NEW k, Stepping(g, f, c, op, p, k),
         Alike(h, g), HasData(g, f, p, k - 1), ZeroIsPlain
  PROVE  Abreast(Do(h, c, op, p[k]), Do(g, c, op, p[k]), f, p, k)
<1> DEFINE s == p[k]
           g2 == Do(g, c, op, s)
           h2 == Do(h, c, op, s)
<1>1. /\ Ready(g, c, op, s) /\ Going(g) /\ Parameters(s) /\ k \in Nat \ {0}
      /\ \A i : Arg(g, i) = Arg(f, i)
      /\ \A i \in Reads(s) : i \in 1 .. Len(g.stack)
  BY StepReady, NotLast DEF Ready
<1>2. g.out = "Ok" /\ g.known = f.known
  BY DEF Stepping, Mid, Base, Only, Fields, Kept
<1>3. g2.out = "Fetch" \/ Alike(h2, g2)
  <2>1. CASE s.do \in Fetchers
    <3>1. h2 = h
      BY <1>1, <2>1, FetchAlike
    <3>2. g2.out = "Fetch" \/ g2 = g
      BY <1>1, <2>1, FetchStep
    <3> HIDE DEF h2, g2
    <3> QED BY <3>1, <3>2
  <2>2. CASE s.do \notin Fetchers
    <3>1. s.do = "access_delegate" => Delegate(h, Addr(Arg(g, s.i))) = Delegate(g, Addr(Arg(g, s.i)))
      BY DelegateAlike
    <3> HIDE DEF s
    <3> QED BY <1>1, <2>2, <3>1, DoAlike
  <2> QED BY <2>1, <2>2
<1>4. ASSUME g2.out = "Ok", NEW j \in 1 .. k, p[j].do = "need"
      PROVE  Addr(Arg(f, p[j].i)) \in p[j].but \/ <<"acc", Addr(Arg(f, p[j].i))>> \in f.known
  <2>1. CASE j = k
    <3>1. Addr(Arg(g, s.i)) \in s.but \/ <<"acc", Addr(Arg(g, s.i))>> \in g.known
      BY <1>1, <1>4, <2>1, NeedKnown
    <3> QED BY <1>1, <1>2, <2>1, <3>1
  <2>2. CASE j # k
    <3>1. j \in 1 .. k - 1
      BY <1>1, <2>2
    <3> QED BY <1>2, <1>4, <3>1 DEF HasData
  <2> QED BY <2>1, <2>2
<1>5. HasData(g2, f, p, k)
  <2> HIDE DEF g2
  <2> QED BY <1>4 DEF HasData
<1> HIDE DEF g2, h2
<1>6. Abreast(h2, g2, f, p, k)
  BY <1>3, <1>5 DEF Abreast
<1> QED BY <1>6 DEF g2, h2

\* Once a frame has asked for data, or left, it stays as it is.
LEMMA AbreastStays ==
  ASSUME NEW h, NEW g, NEW f, NEW p, NEW k, Abreast(h, g, f, p, k - 1), g.out # "Ok"
  PROVE  Abreast(h, g, f, p, k)
BY DEF Abreast, HasData

LEMMA AbreastCourse ==
  ASSUME NEW f, NEW e, NEW c, NEW op, NEW p, NEW g, NEW h,
         Course(g, f, c, op, p), Course(h, e, c, op, p), Alike(e, f),
         Started(f, c, op), Legal(p, op), ZeroIsPlain, NEW n \in 0 .. Len(p)
  PROVE  Abreast(h[n], g[n], f, p, n)
<1> DEFINE Bad == {k \in Nat : k <= Len(p) /\ ~Abreast(h[k], g[k], f, p, k)}
<1>0. Len(p) \in Nat
  BY DEF Legal
<1>1. Bad = {}
  <2>1. SUFFICES ASSUME Bad # {} PROVE FALSE
    OBVIOUS
  <2>2. PICK k \in Bad : \A m \in Bad : k <= m
    <3>1. Bad \subseteq Nat
      OBVIOUS
    <3> HIDE DEF Bad
    <3> QED BY <2>1, <3>1, LeastExists
  <2>3. k \in Nat /\ k <= Len(p) /\ ~Abreast(h[k], g[k], f, p, k)
    OBVIOUS
  <2>4. k # 0
    <3>1. Abreast(h[0], g[0], f, p, 0)
      BY DEF Course, Abreast, HasData
    <3> QED BY <2>3, <3>1
  <2>5. k - 1 \in Nat /\ k - 1 <= Len(p) /\ ~ k <= k - 1 /\ k \in 1 .. Len(p) /\ k - 1 \in 0 .. Len(p)
    BY <1>0, <2>3, <2>4
  <2>6. k - 1 \notin Bad
    <3> HIDE DEF Bad
    <3> QED BY <2>2, <2>5
  <2>7. Abreast(h[k - 1], g[k - 1], f, p, k - 1)
    BY <2>5, <2>6
  <2>8. g[k] = Then(g[k - 1], c, op, p[k]) /\ h[k] = Then(h[k - 1], c, op, p[k])
    BY <2>5 DEF Course
  <2>9. CASE g[k - 1].out = "Ok"
    <3>1. Mid(g[k - 1], f, p, k - 1, op)
      BY <2>5, MidCourse
    <3>2. Stepping(g[k - 1], f, c, op, p, k)
      BY <1>0, <2>5, <2>9, <3>1 DEF Stepping
    <3>3. Alike(h[k - 1], g[k - 1]) /\ HasData(g[k - 1], f, p, k - 1)
      BY <2>7, <2>9 DEF Abreast
    <3>4. h[k - 1].out = "Ok"
      BY <2>9, <3>3, AlikeFields
    <3>5. g[k] = Do(g[k - 1], c, op, p[k]) /\ h[k] = Do(h[k - 1], c, op, p[k])
      BY <2>8, <2>9, <3>4 DEF Then
    <3> QED BY <2>3, <3>2, <3>3, <3>5, AbreastStep
  <2>10. CASE g[k - 1].out = "Fetch"
    <3>1. g[k] = g[k - 1]
      BY <2>8, <2>10 DEF Then
    <3>2. Abreast(h[k], g[k], f, p, k)
      BY <2>10, <3>1 DEF Abreast, HasData
    <3> QED BY <2>3, <3>2
  <2>11. CASE g[k - 1].out \notin {"Ok", "Fetch"}
    <3>1. Alike(h[k - 1], g[k - 1])
      BY <2>7, <2>11 DEF Abreast
    <3>2. h[k - 1].out = g[k - 1].out
      BY <3>1, AlikeFields
    <3>3. g[k] = g[k - 1] /\ h[k] = h[k - 1]
      BY <2>8, <2>11, <3>2 DEF Then
    <3> QED BY <2>3, <2>7, <2>11, <3>3, AbreastStays
  <2> QED BY <2>9, <2>10, <2>11
<1>2. n \in Nat /\ n <= Len(p)
  BY <1>0
<1> QED BY <1>1, <1>2

\* What an instruction makes of both.
LEMMA HandleAlike ==
  ASSUME NEW f, NEW e, NEW c, NEW op, Started(f, c, op), Alike(e, f), ZeroIsPlain,
         Handle(f, c).out # "Fetch"
  PROVE  Alike(Handle(e, c), Handle(f, c))
<1> DEFINE n == c[f.pc + 1].n
           p == Dispatch(op, n)
<1>1. op = c[f.pc + 1].op /\ n \in Nat
  BY AtFacts DEF Started, At
<1>2. Legal(p, op)
  BY <1>1, DispatchLegal
<1>3. Len(p) \in Nat
  BY <1>2 DEF Legal
<1>4. PICK g : Course(g, f, c, op, p) /\ Handle(f, c) = g[Len(p)]
  BY <1>1, <1>3, HandleCourse
<1>5. e.pc = f.pc
  BY AlikeFields
<1>6. op = c[e.pc + 1].op /\ p = Dispatch(op, c[e.pc + 1].n)
  BY <1>1, <1>5
<1>7. PICK h : Course(h, e, c, op, p) /\ Handle(e, c) = h[Len(p)]
  <2> HIDE DEF p
  <2> QED BY <1>3, <1>6, HandleCourse
<1>8. Len(p) \in 0 .. Len(p)
  BY <1>3
<1>9. Abreast(h[Len(p)], g[Len(p)], f, p, Len(p))
  <2> HIDE DEF p, n
  <2> QED BY <1>2, <1>4, <1>7, <1>8, AbreastCourse
<1> HIDE DEF p, n
<1> QED BY <1>4, <1>7, <1>9 DEF Abreast

\* What is pending is done to both.
LEMMA ApplyAlike ==
  ASSUME NEW h, NEW f, Alike(h, f)
  PROVE  Alike(Apply(h), Apply(f))
<1> DEFINE g == Apply(f)
           e == Apply(h)
<1>1. Shape(f) /\ DOMAIN f = Fields /\ Shape(h) /\ DOMAIN h = Fields
  BY DEF Alike, Shape
<1>2. DOMAIN g = Fields /\ DOMAIN e = Fields
  BY <1>1 DEF Apply
<1>3. Shape(g)
  BY ZenonT(30), <1>2 DEF Shape, Apply
<1>4. Shape(e)
  BY ZenonT(30), <1>2 DEF Shape, Apply
<1>5. \A y \in Fields \ Applied : g[y] = f[y] /\ e[y] = h[y]
  BY <1>1 DEF Fields, Apply, Pending, Applied
<1>6. /\ g.pops = 0 /\ g.push = <<>> /\ g.charge = 0 /\ g.gain = 0
      /\ g.accs = <<>> /\ g.keys = {} /\ g.owed = 0 /\ g.cold = <<>>
  BY <1>1 DEF Fields, Apply
<1>7. /\ e.pops = 0 /\ e.push = <<>> /\ e.charge = 0 /\ e.gain = 0
      /\ e.accs = <<>> /\ e.keys = {} /\ e.owed = 0 /\ e.cold = <<>>
  BY <1>1 DEF Fields, Apply
<1>8. /\ g.stack = SubSeq(f.stack, 1, Len(f.stack) - f.pops) \o f.push
      /\ e.stack = SubSeq(h.stack, 1, Len(h.stack) - h.pops) \o h.push
  BY <1>1 DEF Fields, Apply
<1>9. /\ g.spent = f.spent + f.charge /\ g.refund = f.refund + f.gain /\ g.paid = f.paid + f.owed
      /\ e.spent = h.spent + h.charge /\ e.refund = h.refund + h.gain /\ e.paid = h.paid + h.owed
  BY <1>1 DEF Fields, Apply
<1>10. /\ g.warm = f.warm \cup Fn!Range(f.accs) /\ g.warmKeys = f.warmKeys \cup f.keys
       /\ e.warm = h.warm \cup Fn!Range(h.accs) /\ e.warmKeys = h.warmKeys \cup h.keys
  BY <1>1 DEF Fields, Apply
<1>11. /\ g.colds = [a \in Acct |-> f.colds[a] + Times(f.cold, a)]
       /\ e.colds = [a \in Acct |-> h.colds[a] + Times(h.cold, a)]
  BY <1>1 DEF Fields, Apply, Times
<1> HIDE DEF g, e
<1>12. /\ h.spent = f.spent /\ h.refund = f.refund /\ h.stack = f.stack
       /\ h.pops = f.pops /\ h.push = f.push /\ h.charge = f.charge
       /\ h.gain = f.gain /\ h.accs = f.accs /\ h.keys = f.keys
       /\ h.warm = f.warm /\ h.warmKeys = f.warmKeys
       /\ h.paid = f.paid /\ h.owed = f.owed /\ h.colds = f.colds /\ h.cold = f.cold
  BY AlikeFields
<1>13. e.stack = g.stack
  BY <1>8, <1>12
<1>14. e.spent = g.spent /\ e.refund = g.refund /\ e.paid = g.paid
  BY <1>9, <1>12
<1>15. e.warm = g.warm /\ e.warmKeys = g.warmKeys
  BY <1>10, <1>12
<1>16. e.colds = g.colds
  BY <1>11, <1>12
<1>17. \A y \in Pending : e[y] = g[y]
  BY <1>6, <1>7 DEF Pending
<1>18. \A y \in Applied : e[y] = g[y]
  BY <1>13, <1>14, <1>15, <1>16, <1>17 DEF Applied
<1>19. \A y \in Fields \ Data : e[y] = g[y]
  BY <1>5, <1>18 DEF Alike
<1>20. e.known = Everything /\ e.want = {}
  <2>1. "known" \in Fields \ Applied /\ "want" \in Fields \ Applied
    BY DEF Fields, Applied, Pending
  <2> QED BY <1>5, <2>1 DEF Alike
<1>21. Alike(e, g)
  BY <1>3, <1>4, <1>19, <1>20 DEF Alike
<1> QED BY <1>21 DEF e, g

LEMMA ReturnRegionAlike ==
  ASSUME NEW h, NEW f, Alike(h, f), NEW c
  PROVE  ReturnRegion(h, c) = ReturnRegion(f, c)
<1> DEFINE i == CASE c[f.pc + 1].op \in {"CALL", "CALLCODE"} -> 6
                  [] c[f.pc + 1].op \in {"DELEGATECALL", "STATICCALL"} -> 5
                  [] OTHER -> 0
<1>1. h.pc = f.pc /\ \A j : Arg(h, j) = Arg(f, j)
  BY AlikeFields, AlikeArgs
<1>2. ReturnRegion(f, c) = IF i = 0 THEN <<0, 0>> ELSE <<AsUsize(Arg(f, i)), AsUsize(Arg(f, i + 1))>>
  BY DEF ReturnRegion
<1>3. ReturnRegion(h, c) = IF i = 0 THEN <<0, 0>> ELSE <<AsUsize(Arg(h, i)), AsUsize(Arg(h, i + 1))>>
  BY <1>1 DEF ReturnRegion
<1> HIDE DEF i
<1> QED BY <1>1, <1>2, <1>3

\* The frame f, were all data at hand.
Held(f) == [f EXCEPT !.known = Everything, !.want = {}]

LEMMA HeldAlike ==
  ASSUME NEW f, Shape(f)
  PROVE  Alike(Held(f), f)
<1> DEFINE h == Held(f)
<1>1. DOMAIN f = Fields
  BY DEF Shape
<1>2. DOMAIN h = Fields
  BY <1>1 DEF Held
<1>3. Shape(h)
  BY Zenon, <1>2 DEF Shape, Held
<1>4. h.known = Everything /\ h.want = {}
  BY <1>1 DEF Held, Fields
<1>5. \A x \in Fields \ Data : h[x] = f[x]
  BY <1>1 DEF Held, Data
<1> HIDE DEF h
<1>6. Alike(h, f)
  BY <1>3, <1>4, <1>5 DEF Alike
<1> QED BY <1>6 DEF h

\* What changes only the data is not seen.
LEMMA HeldSame ==
  ASSUME NEW f, NEW g, Shape(f), Only(g, f, Data)
  PROVE  Held(g) = Held(f)
<1>1. Shape(g) /\ \A x \in Fields \ Data : g[x] = f[x]
  BY DEF Only
<1>2. Alike(Held(g), g) /\ Alike(Held(f), f)
  BY <1>1, HeldAlike
<1> DEFINE h == Held(g)
           e == Held(f)
<1>3. Alike(h, g) /\ Alike(e, f)
  BY <1>2
<1> HIDE DEF h, e
<1>4. Alike(h, f)
  BY <1>1, <1>3 DEF Alike
<1>5. h = e
  BY <1>3, <1>4, AlikeIs
<1> QED BY <1>5 DEF h, e

\* An instruction that asks for no data is one step of the frame that holds it all.
LEMMA HeldStep ==
  ASSUME NEW c, NEW f, Safe(c, f, "running"), f.pc < Len(c), NEW g, g = Handle(f, c), g.out # "Fetch",
         ZeroIsPlain
  PROVE  LET e == Handle(Held(f), c) IN
         /\ e.out = g.out /\ Held(Apply(g)) = Apply(e) /\ Apply(e).pc = Apply(g).pc
         /\ \A v : \A y \in Fields \ Data :
              Held([Apply(g) EXCEPT ![y] = v]) = [Apply(e) EXCEPT ![y] = v]
<1> DEFINE op == c[f.pc + 1].op
           e  == Handle(Held(f), c)
           ag == Apply(g)
           ae == Apply(e)
<1>1. Started(f, c, op)
  BY SafeStarted
<1>2. Alike(Held(f), f)
  BY HeldAlike DEF Safe, IsFrame
<1>3. Alike(e, g)
  <2> DEFINE h == Held(f)
  <2>1. Alike(h, f)
    BY <1>2
  <2> HIDE DEF op, h
  <2>2. Alike(Handle(h, c), Handle(f, c))
    BY <1>1, <2>1, HandleAlike
  <2> QED BY <2>2 DEF h
<1> HIDE DEF e
<1>4. Alike(ae, ag) /\ e.out = g.out
  BY <1>3, ApplyAlike, AlikeFields
<1> HIDE DEF ag, ae
<1>5. Shape(ag) /\ ae.pc = ag.pc
  BY <1>4, AlikeFields DEF Alike
<1>6. Held(ag) = ae
  <2>1. Alike(Held(ag), ag)
    BY <1>5, HeldAlike
  <2> DEFINE h == Held(ag)
  <2>2. Alike(h, ag)
    BY <2>1
  <2> HIDE DEF h
  <2>3. h = ae
    BY <1>4, <2>2, AlikeIs
  <2> QED BY <2>3 DEF h
<1>7. ASSUME NEW y \in Fields \ Data, NEW v
      PROVE  Held([ag EXCEPT ![y] = v]) = [ae EXCEPT ![y] = v]
  <2> DEFINE g2 == [ag EXCEPT ![y] = v]
             e2 == [ae EXCEPT ![y] = v]
             h2 == Held(g2)
  <2>1. Alike(e2, g2)
    BY <1>4, PutAlike
  <2> HIDE DEF g2, e2
  <2>2. Shape(g2)
    BY <2>1 DEF Alike
  <2>3. Alike(h2, g2)
    BY <2>2, HeldAlike
  <2> HIDE DEF h2
  <2>4. h2 = e2
    BY <2>1, <2>3, AlikeIs
  <2> QED BY <2>4 DEF h2, g2, e2
<1>8. \A v : \A y \in Fields \ Data : Held([ag EXCEPT ![y] = v]) = [ae EXCEPT ![y] = v]
  BY <1>7
<1> QED BY <1>4, <1>5, <1>6, <1>8 DEF ag, ae, e

\* A frame that asks for data is the one it was.
LEMMA HeldAsks ==
  ASSUME NEW c, NEW f, Safe(c, f, "running"), f.pc < Len(c), NEW g, g = Handle(f, c), g.out = "Fetch"
  PROVE  Held([Reset(g) EXCEPT !.want = g.want]) = Held(f)
<1> DEFINE e == Reset(g)
           h == [e EXCEPT !["want"] = g.want]
<1>1. IsFrame(e) /\ Clean(e) /\ e.out = "Ok" /\ Only(e, f, Pending \cup {"out", "want"}) /\ IsFrame(g)
  BY AskingFacts
<1>2. Clean(f) /\ f.out = "Ok" /\ Shape(f)
  BY DEF Safe, IsFrame
<1> HIDE DEF e
<1>3. DOMAIN e = Fields
  BY <1>1 DEF IsFrame, Shape
<1>4. DOMAIN h = Fields
  BY <1>3
<1>5. Shape(h)
  BY <1>4 DEF Shape
<1>6. \A y \in Fields \ {"want"} : h[y] = e[y]
  BY <1>3
<1> HIDE DEF h
<1>7. \A y \in Fields \ Data : e[y] = f[y]
  <2>1. \A y \in Pending : e[y] = f[y]
    BY <1>1, <1>2 DEF Clean, Pending
  <2>2. \A y \in Fields \ Data : y \in Pending \/ y = "out" \/ y \in Fields \ (Pending \cup {"out", "want"})
    BY DEF Data
  <2> QED BY <1>1, <1>2, <2>1, <2>2 DEF Only
<1>8. Only(h, f, Data)
  BY <1>5, <1>6, <1>7 DEF Only, Data
<1>9. Held(h) = Held(f)
  BY <1>2, <1>8, HeldSame
<1> QED BY <1>9 DEF h, e

\* Nor does an answer change it, or that there is none.
LEMMA HeldReset ==
  ASSUME NEW c, NEW f, Safe(c, f, "fetching"), NEW k
  PROVE  Held(Reset(f)) = Held(f) /\ Held([Reset(f) EXCEPT !.known = k]) = Held(f)
<1> DEFINE e == Reset(f)
           h == [e EXCEPT !["known"] = k]
<1>1. IsFrame(f) /\ Clean(f) /\ f.out = "Ok" /\ Shape(f)
  BY DEF Safe, IsFrame
<1>2. IsFrame(e) /\ Only(e, f, Pending \cup {"out", "want"}) /\ Clean(e) /\ e.out = "Ok"
  BY <1>1, ResetFacts
<1> HIDE DEF e
<1>3. DOMAIN e = Fields /\ Shape(e)
  BY <1>2 DEF IsFrame, Shape
<1>4. DOMAIN h = Fields
  BY <1>3
<1>5. Shape(h)
  BY <1>4 DEF Shape
<1>6. \A y \in Fields \ {"known"} : h[y] = e[y]
  BY <1>3
<1> HIDE DEF h
<1>7. \A y \in Fields \ Data : e[y] = f[y]
  <2>1. \A y \in Pending : e[y] = f[y]
    BY <1>1, <1>2 DEF Clean, Pending
  <2>2. \A y \in Fields \ Data : y \in Pending \/ y = "out" \/ y \in Fields \ (Pending \cup {"out", "want"})
    BY DEF Data
  <2> QED BY <1>1, <1>2, <2>1, <2>2 DEF Only
<1>8. Only(h, f, Data) /\ Only(e, f, Data)
  BY <1>3, <1>5, <1>6, <1>7 DEF Only, Data
<1>9. Held(h) = Held(f) /\ Held(e) = Held(f)
  BY <1>1, <1>8, HeldSame
<1> QED BY <1>9 DEF h, e

----------------------------------------------------------------------------
(* The refinement.                                                         *)

LEMMA StartWhole == ASSUME Init PROVE Whole!Init
<1>1. PICK j \in Jobs : code = j.code /\ frame = Start(j.limit, j.static, j.born) /\ status = "running"
  BY DEF Init
<1>2. DOMAIN frame = Fields
  BY <1>1 DEF Start, Fields
<1>3. frame.pc = 0 /\ frame.spent = 0 /\ frame.stack = <<>> /\ frame.mem = 0
  BY <1>1 DEF Start
<1> DEFINE h == Held(frame)
<1>4. h.known = Everything
  BY <1>2 DEF Held, Fields
<1>5. h.pc = 0 /\ h.spent = 0 /\ h.stack = <<>> /\ h.mem = 0
  BY <1>2, <1>3 DEF Held, Fields
<1> QED BY <1>1, <1>4, <1>5 DEF Whole!Init, Held

\* An instruction that is done, leaves or calls is one of the frame that holds all data.
LEMMA InstructionWhole ==
  ASSUME Inv, ZeroIsPlain, Instruction, Stepped.out # "Fetch"
  PROVE  Whole!Instruction
<1> DEFINE g == Handle(frame, code)
           h == Held(frame)
           e == Handle(h, code)
           ag == Apply(g)
           ae == Apply(e)
<1>1. /\ Safe(code, frame, "running") /\ frame.pc < Len(code) /\ status = "running" /\ code' = code
      /\ Done(g) \/ Leaves(g) \/ Calls(g)
  BY DEF Instruction, Running, Stepped, Inv, AsksForData
<1>2. /\ e.out = g.out /\ Held(ag) = ae /\ ae.pc = ag.pc
      /\ \A v : \A y \in Fields \ Data : Held([ag EXCEPT ![y] = v]) = [ae EXCEPT ![y] = v]
  BY <1>1, HeldStep DEF Stepped
<1>3. Alike(h, frame) /\ IsFrame(ag)
  BY <1>1, HeldAlike, AppliedFacts DEF Safe, IsFrame
<1> HIDE DEF h
<1>4. h.pc = frame.pc /\ ReturnRegion(h, code) = ReturnRegion(frame, code)
  BY <1>3, AlikeFields, ReturnRegionAlike
<1> DEFINE jump == code[h.pc + 1].op \in {"JUMP", "JUMPI"}
<1>5. jump <=> IsJump
  BY <1>4 DEF IsJump, Op
<1>6. g.out \in Outs
  <2>1. ag.out = g.out
    BY <1>1, AppliedFacts
  <2> HIDE DEF ag
  <2> QED BY <1>3, <2>1, FieldTypes
<1> DEFINE after == IF e.out = "Ok"
                    THEN [ae EXCEPT !.pc = IF jump THEN @ ELSE @ + 1]
                    ELSE IF e.out = "Call"
                    THEN [ae EXCEPT !.target = ReturnRegion(h, code)]
                    ELSE ae
           st == IF e.out = "Ok" THEN "running" ELSE e.out
<1>7. Held(frame') = after /\ (IF status' = "fetching" THEN "running" ELSE status') = st
  <2> HIDE DEF g, e, ag, ae
  <2>1. CASE Done(g)
    <3> DEFINE x == IF jump THEN ag.pc ELSE ag.pc + 1
    <3>1. g.out = "Ok" /\ status' = "running" /\ frame' = [ag EXCEPT !["pc"] = x]
      BY <1>1, <1>5, <2>1 DEF Done, ag
    <3>2. after = [ae EXCEPT !["pc"] = x]
      BY <1>2, <3>1
    <3> HIDE DEF x, after
    <3>3. Held(frame') = [ae EXCEPT !["pc"] = x]
      BY <1>2, <3>1, FieldsPut
    <3> QED BY <1>2, <3>1, <3>2, <3>3
  <2>2. CASE Leaves(g)
    <3>1. g.out \notin {"Ok", "Fetch", "Call"} /\ status' = g.out /\ frame' = ag
      BY <2>2 DEF Leaves, ag
    <3>2. after = ae
      BY <1>2, <3>1
    <3>3. g.out # "fetching"
      BY <1>6 DEF Outs
    <3> HIDE DEF after
    <3> QED BY <1>2, <3>1, <3>2, <3>3
  <2>3. CASE Calls(g)
    <3> DEFINE x == ReturnRegion(frame, code)
    <3>1. g.out = "Call" /\ status' = "Call" /\ frame' = [ag EXCEPT !["target"] = x]
      BY <2>3 DEF Calls, ag
    <3>2. after = [ae EXCEPT !["target"] = x]
      BY <1>2, <1>4, <3>1
    <3> HIDE DEF x, after
    <3>3. Held(frame') = [ae EXCEPT !["target"] = x]
      BY <1>2, <3>1, FieldsPut
    <3> QED BY <1>2, <3>1, <3>2, <3>3
  <2> QED BY <1>1, <2>1, <2>2, <2>3
<1>8. (IF status = "fetching" THEN "running" ELSE status) = "running" /\ h.pc < Len(code)
  BY <1>1, <1>4
<1> QED BY <1>1, <1>7, <1>8 DEF Whole!Instruction, h, Held

\* A callee that is done is one step of the frame that holds all data.
LEMMA CallEndsWhole ==
  ASSUME Inv, CallEnds
  PROVE  Whole!Elsewhere
<1>1. Safe(code, frame, "Call") /\ code' = code /\ status = "Call" /\ status' = "running"
  BY DEF CallEnds, Inv
<1>2. PICK ok \in {0, 1}, left \in {0, frame.lent}, size \in RetSizes :
        frame' = [Apply([Grow(PushWord([frame EXCEPT !.out = "Ok"], ok), {frame.target})
                           EXCEPT !.ret = size, !.spent = @ - left]) EXCEPT
                     !.pc = @ + 1, !.out = "Ok", !.target = <<0, 0>>, !.lent = 0]
  BY ZenonT(30) DEF CallEnds
<1>3. size \in Nat
  BY InterpreterAssumption
<1>4. LET g == Grow(PushWord([frame EXCEPT !.out = "Ok"], ok), {frame.target})
          h == [Apply([g EXCEPT !.ret = size, !.spent = @ - left]) EXCEPT
                     !.pc = @ + 1, !.out = "Ok", !.target = <<0, 0>>, !.lent = 0]
      IN  Safe(code, h, "running") /\ Spends(h, frame) /\ Returned(h, frame)
  BY ZenonT(30), <1>1, <1>3, SafeCallEnds
<1>5. Safe(code, frame', "running") /\ Returned(frame', frame)
  BY <1>2, <1>4
<1> DEFINE h == Held(frame)
           e == Held(frame')
<1>6. Alike(h, frame) /\ Alike(e, frame')
  BY <1>1, <1>5, HeldAlike DEF Safe, IsFrame
<1> HIDE DEF h, e
<1>7. h.pc = frame.pc /\ h.mem = frame.mem /\ h.spent = frame.spent /\ h.slot = frame.slot /\ h.warm = frame.warm
  BY <1>6, AlikeFields
<1>8. /\ e.pc = frame'.pc /\ e.mem = frame'.mem /\ e.spent = frame'.spent /\ e.slot = frame'.slot
      /\ e.warm = frame'.warm /\ e.known = Everything
  BY <1>6, AlikeFields DEF Alike
<1>9. e.pc = h.pc + 1 /\ e.mem = h.mem /\ e.spent <= h.spent /\ e.slot = h.slot /\ e.warm = h.warm
  BY <1>5, <1>7, <1>8 DEF Returned
<1> QED BY <1>1, <1>8, <1>9 DEF Whole!Elsewhere, h, e, Held

LEMMA StepWhole ==
  ASSUME Inv, ZeroIsPlain, [Next]_vars
  PROVE  [Whole!Next]_(Whole!vars)
<1>1. CASE End
  <2>1. code' = code /\ frame' = frame /\ status = "running" /\ status' = "End"
    BY <1>1 DEF End
  <2> QED BY <2>1 DEF Whole!Next, Whole!Elsewhere
<1>2. CASE Instruction
  <2>1. CASE Stepped.out # "Fetch"
    BY <1>2, <2>1, InstructionWhole DEF Whole!Next
  <2>2. CASE Stepped.out = "Fetch"
    <3> DEFINE g == Handle(frame, code)
    <3>1. /\ Safe(code, frame, "running") /\ frame.pc < Len(code) /\ status = "running" /\ code' = code
          /\ AsksForData(g) /\ g.out = "Fetch"
      BY <1>2, <2>2 DEF Instruction, Running, Stepped, Inv, Done, Leaves, Calls
    <3>2. status' = "fetching" /\ frame' = [Reset(g) EXCEPT !.want = g.want]
      BY <3>1 DEF AsksForData
    <3>3. Held([Reset(g) EXCEPT !.want = g.want]) = Held(frame)
      BY <3>1, HeldAsks
    <3>4. Held(frame') = Held(frame)
      BY <3>2, <3>3
    <3> QED BY <3>1, <3>2, <3>4 DEF Whole!vars, Held
  <2> QED BY <2>1, <2>2
<1>3. CASE Answer
  <2>1. /\ Safe(code, frame, "fetching") /\ code' = code /\ status = "fetching" /\ status' = "running"
        /\ frame' = [Reset(frame) EXCEPT !.known = @ \cup frame.want]
    BY <1>3 DEF Answer, Inv
  <2> DEFINE k == Reset(frame).known \cup frame.want
  <2>2. Held([Reset(frame) EXCEPT !.known = k]) = Held(frame)
    <3> HIDE DEF k
    <3> QED BY <2>1, HeldReset
  <2>3. Held(frame') = Held(frame)
    BY <2>1, <2>2
  <2> QED BY <2>1, <2>3 DEF Whole!vars, Held
<1>4. CASE FetchFails
  <2>1. /\ Safe(code, frame, "fetching") /\ code' = code /\ status = "fetching" /\ status' = "failed"
        /\ frame' = Reset(frame)
    BY <1>4 DEF FetchFails, Inv
  <2>2. Held(frame') = Held(frame)
    BY <2>1, HeldReset
  <2> QED BY <2>1, <2>2 DEF Whole!Next, Whole!Elsewhere, Held
<1>5. CASE CallEnds
  BY <1>5, CallEndsWhole DEF Whole!Next
<1>6. CASE Stop \/ UNCHANGED vars
  <2>1. code' = code /\ frame' = frame /\ status' = status
    BY <1>6 DEF Stop, vars
  <2> QED BY <2>1 DEF Whole!vars
<1> QED BY <1>1, <1>2, <1>3, <1>4, <1>5, <1>6 DEF Next, Step

\* If address zero does not delegate, a frame runs as if it held all data from
\* the start: what is repeated for want of data takes effect once.
THEOREM RefinementCorrect ==
  ASSUME 0 \notin DOMAIN Auth
  PROVE  Spec => RunsAsIfWhole
<1>1. ZeroIsPlain
  BY DEF ZeroIsPlain
<1>2. Init => Whole!Init
  BY StartWhole
<1>3. Inv /\ [Next]_vars => [Whole!Next]_(Whole!vars)
  BY <1>1, StepWhole
<1> QED BY <1>2, <1>3, InvHolds, PTL DEF Spec, RunsAsIfWhole, Whole!Spec

----------------------------------------------------------------------------
(* Signed arithmetic, on the stack.                                        *)

LEMMA ReferencedAre ==
  ASSUME NEW op \in Referenced
  PROVE  /\ op \in ArithOps /\ op # "EXP" /\ Arity(op) \in {1, 2}
         /\ op # "CLZ" => Arity(op) = 2
         /\ \A n \in Nat : \E g \in Nat : Dispatch(op, n) = Arith(g, Arity(op))
BY DEF Referenced, ArithOps, Unary, Binary3, Binary5, Ternary, Arity, Dispatch

\* What the steps of an arithmetic instruction leave pending.
LEMMA HandleArith ==
  ASSUME NEW f, NEW c, NEW op \in Referenced, Started(f, c, op),
         NEW g, g = Handle(f, c), g.out = "Ok"
  PROVE  /\ IsFrame(g) /\ g.pops = Arity(op) /\ g.pops <= Len(g.stack)
         /\ g.push = <<Compute(op, Args(g))>>
<1> DEFINE n == Arity(op)
<1>1. /\ op \in ArithOps /\ n \in {1, 2}
      /\ \A x \in Nat : \E y \in Nat : Dispatch(op, x) = Arith(y, n)
  BY ReferencedAre
<1>2. IsFrame(f) /\ At(f, c, op) /\ Clean(f) /\ f.out = "Ok"
  BY DEF Started
<1>3. c[f.pc + 1].n \in Nat /\ c[f.pc + 1].op = op
  BY <1>2, AtFacts DEF At
<1>4. PICK p : p = Dispatch(op, c[f.pc + 1].n)
  OBVIOUS
<1>5. PICK cost \in Nat : p = Arith(cost, n)
  BY <1>1, <1>3, <1>4
<1> HIDE DEF n
<1>6. /\ Len(p) = 3 /\ p[1] = [do |-> "charge", gas |-> cost] /\ p[2] = [do |-> "peek", n |-> n]
      /\ p[3] = [do |-> "push", what |-> "alu"]
  BY <1>5 DEF Arith, Charge, Peek, Push
<1>7. Legal(p, op)
  BY <1>3, <1>4, DispatchLegal
<1>8. PICK h : Course(h, f, c, op, p) /\ g = h[3]
  <2>1. op = c[f.pc + 1].op /\ Len(p) \in Nat
    BY <1>3, <1>6
  <2>2. \E h : Course(h, f, c, op, p) /\ Handle(f, c) = h[Len(p)]
    BY <1>4, <2>1, HandleCourse
  <2> QED BY <1>6, <2>2
<1>9. Mid(h[2], f, p, 2, op) /\ Mid(g, f, p, 3, op)
  <2>1. 2 \in 0 .. Len(p) /\ 3 \in 0 .. Len(p)
    BY <1>6
  <2>2. Course(h, f, c, op, p)
    BY <1>8
  <2>3. Mid(h[2], f, p, 2, op)
    BY <1>7, <2>1, <2>2, MidCourse
  <2>4. Mid(h[3], f, p, 3, op)
    BY <1>7, <2>1, <2>2, MidCourse
  <2> QED BY <1>8, <2>3, <2>4
<1>10. g = Then(h[2], c, op, p[3])
  <2>1. 3 \in 1 .. Len(p) /\ 3 - 1 = 2
    BY <1>6
  <2> QED BY <1>8, <2>1 DEF Course
<1>11. h[2].out = "Ok" /\ g = Do(h[2], c, op, p[3])
  BY <1>10 DEF Then
<1>12. h[2].push = <<>>
  <2>1. \A j \in 1 .. 2 : j = 1 \/ j = 2
    OBVIOUS
  <2>2. ~Past(p, 2, Pushers)
    BY <1>6, <2>1 DEF Past, Pushers
  <2> QED BY <1>9, <2>2 DEF Mid, Counted
<1>13. /\ g.pops = n /\ g.pops <= Len(g.stack) /\ IsFrame(g)
       /\ h[2].pops = n /\ h[2].pops <= Len(h[2].stack) /\ IsFrame(h[2])
  <2>1. \A j \in 1 .. 3 : j = 1 \/ j = 2 \/ j = 3
    OBVIOUS
  <2>2. ~Past(p, 2, {"log"}) /\ ~Past(p, 3, {"log"})
    BY <1>6, <2>1 DEF Past
  <2>3. 2 \in 1 .. 2 /\ 2 \in 1 .. 3 /\ p[2].do = "peek" /\ p[2].n = n
    BY <1>6
  <2>4. g.pops = n /\ h[2].pops = n
    BY <1>9, <1>11, <2>2, <2>3 DEF Mid, Counted
  <2> QED BY <1>9, <2>4 DEF Mid, Counted, Base, FromStart
<1> DEFINE v == Compute(op, Args(h[2]))
<1>14. g = PushWord(h[2], v)
  BY <1>6, <1>11 DEF Do, Pushed
<1>15. v \in Word
  <2>1. \A i \in 1 .. Arity(op) : Args(h[2])[i] \in Word
    <3> TAKE i \in 1 .. Arity(op)
    <3>1. i \in 1 .. h[2].pops /\ i \in 1 .. Len(h[2].stack)
      BY <1>13, FieldTypes, LengthType DEF n
    <3>2. Arg(h[2], i) \in Word
      BY <1>13, <3>1, ArgWord
    <3> QED BY <3>1, <3>2 DEF Args
  <2> QED BY <1>1, <2>1, ComputeWord
<1>16. g.push = Append(h[2].push, v) /\ g.stack = h[2].stack
  <2> HIDE DEF v
  <2>1. Only(g, h[2], {"push", "out"}) /\ (g.out = "StackOverflow" \/ g.push = Append(h[2].push, v))
    BY <1>13, <1>14, <1>15, PushWordFacts
  <2> QED BY <2>1 DEF Only, Fields
<1>17. Args(g) = Args(h[2])
  BY <1>13, <1>16 DEF Args, Arg
<1>18. Append(<<>>, v) = <<v>>
  OBVIOUS
<1> QED BY <1>12, <1>13, <1>16, <1>17, <1>18 DEF n

\* The last word of a stack, once one is put on it.
LEMMA OnTop ==
  ASSUME NEW s \in Seq(Word), NEW n \in Nat, n <= Len(s), NEW v \in Word
  PROVE  LET t == SubSeq(s, 1, Len(s) - n) \o <<v>> IN t[Len(t)] = v
OBVIOUS

\* What an arithmetic instruction leaves on the stack.
LEMMA ArithOnTop ==
  ASSUME NEW f, NEW c, NEW op \in Referenced, Started(f, c, op),
         NEW g, g = Handle(f, c), g.out = "Ok"
  PROVE  LET s == Apply(g).stack IN s[Len(s)] = Reference(op, Args(g))
<1>1. /\ IsFrame(g) /\ g.pops = Arity(op) /\ g.pops <= Len(g.stack)
      /\ g.push = <<Compute(op, Args(g))>>
  BY HandleArith
<1>2. \A i \in 1 .. g.pops : Args(g)[i] \in Word
  <2> TAKE i \in 1 .. g.pops
  <2>1. i \in 1 .. Len(g.stack)
    BY <1>1, FieldTypes, LengthType
  <2>2. Arg(g, i) \in Word
    BY <1>1, <2>1, ArgWord
  <2> QED BY <2>2 DEF Args
<1>3. Args(g)[1] \in Word /\ (op # "CLZ" => Args(g)[2] \in Word)
  <2>1. g.pops \in {1, 2} /\ (op # "CLZ" => g.pops = 2)
    BY <1>1, ReferencedAre
  <2> QED BY <1>2, <2>1
<1>4. Compute(op, Args(g)) = Reference(op, Args(g))
  BY <1>3, ComputeExact
<1> DEFINE v == Compute(op, Args(g))
<1>5. v \in Word
  BY <1>1, <1>2, ReferencedAre, ComputeWord
<1>6. Apply(g).stack = SubSeq(g.stack, 1, Len(g.stack) - g.pops) \o <<v>>
  <2>1. DOMAIN g = Fields
    BY <1>1 DEF IsFrame, Shape
  <2>2. Apply(g).stack = SubSeq(g.stack, 1, Len(g.stack) - g.pops) \o g.push
    BY <2>1 DEF Apply, Fields
  <2> QED BY <1>1, <2>2
<1> HIDE DEF v
<1>7. g.stack \in Seq(Word) /\ g.pops \in Nat
  BY <1>1, FieldTypes
<1> DEFINE t == SubSeq(g.stack, 1, Len(g.stack) - g.pops) \o <<v>>
<1>8. t[Len(t)] = v
  BY <1>1, <1>5, <1>7, OnTop
<1> QED BY <1>4, <1>6, <1>8 DEF v

\* Only a frame that runs on has just done arithmetic.
Exact == last.op \in Referenced =>
           status = "running" /\ frame.stack[Len(frame.stack)] = Reference(last.op, last.x)

LEMMA NoneIsPlain == None.op \notin Referenced
BY DEF None, Referenced

LEMMA StepExact ==
  ASSUME Inv, Exact, [Next]_vars
  PROVE  Exact'
<1>0. last' = None => Exact'
  BY NoneIsPlain DEF Exact
<1>1. CASE End
  BY <1>0, <1>1 DEF End
<1>2. CASE Instruction
  <2> DEFINE g == Handle(frame, code)
  <2>1. /\ Safe(code, frame, "running") /\ frame.pc < Len(code) /\ status = "running"
        /\ Done(g) \/ AsksForData(g) \/ Leaves(g) \/ Calls(g)
    BY <1>2 DEF Instruction, Running, Stepped, Inv
  <2>2. CASE Done(g)
    <3> DEFINE e == Apply(g)
               x == IF IsJump THEN e.pc ELSE e.pc + 1
    <3>1. /\ g.out = "Ok" /\ status' = "running" /\ frame' = [e EXCEPT !["pc"] = x]
          /\ last' = IF Op \in ArithOps THEN [op |-> Op, x |-> Args(g)] ELSE None
      BY <2>1, <2>2 DEF Done
    <3>2. IsFrame(e)
      BY <2>1, AppliedFacts
    <3> HIDE DEF g
    <3>3. frame'.stack = e.stack
      <4>1. DOMAIN e = Fields
        BY <3>2 DEF IsFrame, Shape
      <4> HIDE DEF e, x
      <4> QED BY <3>1, <4>1 DEF Fields
    <3>4. CASE Op \in Referenced
      <4>1. last' = [op |-> Op, x |-> Args(g)]
        BY <3>1, <3>4, ReferencedAre
      <4>2. Started(frame, code, Op)
        BY <2>1, SafeStarted DEF Op
      <4>3. e.stack[Len(e.stack)] = Reference(Op, Args(g))
        BY <3>1, <3>4, <4>2, ArithOnTop DEF g
      <4>4. last'.op = Op /\ last'.x = Args(g)
        BY <4>1
      <4> HIDE DEF e
      <4> QED BY <3>1, <3>3, <4>3, <4>4 DEF Exact
    <3>5. CASE Op \notin Referenced
      <4>1. last'.op \notin Referenced
        BY <3>1, <3>5, NoneIsPlain
      <4> QED BY <4>1 DEF Exact
    <3> QED BY <3>4, <3>5
  <2>3. CASE AsksForData(g) \/ Leaves(g) \/ Calls(g)
    BY <1>0, <2>3 DEF AsksForData, Leaves, Calls
  <2> QED BY <2>1, <2>2, <2>3
<1>3. CASE Answer
  BY <1>3 DEF Answer, Exact
<1>4. CASE FetchFails
  BY <1>4 DEF FetchFails, Exact
<1>5. CASE CallEnds
  BY <1>5 DEF CallEnds, Exact
<1>6. CASE Stop \/ UNCHANGED vars
  BY <1>6 DEF Stop, vars, Exact
<1> QED BY <1>1, <1>2, <1>3, <1>4, <1>5, <1>6 DEF Next, Step

\* The signed instructions leave on the stack what arithmetic on signed numbers
\* gives, for every width of a word.
THEOREM ArithmeticCorrect == Spec => []ArithmeticIsExact
<1>1. Init => Exact
  BY NoneIsPlain DEF Init, Exact
<1>2. Inv /\ Exact /\ [Next]_vars => Exact'
  BY StepExact
<1>3. Exact => ArithmeticIsExact
  BY DEF Exact, ArithmeticIsExact
<1> QED BY <1>1, <1>2, <1>3, InvHolds, PTL DEF Spec
=============================================================================
