-------------------------------- MODULE Sums --------------------------------
(***************************************************************************)
(* Sums over finite sets, as MapThenSumSet of FiniteSetsExt computes them: *)
(* it takes the elements one by one as CHOOSE has them.  The order is of   *)
(* no account, so a sum changes with its terms.                            *)
(***************************************************************************)
EXTENDS Integers, FiniteSets, FiniteSetsExt, FiniteSetTheorems,
        WellFoundedInduction, TLAPS

Total(f, S) == MapThenSumSet(LAMBDA a : f[a], S)

Pick(s) == CHOOSE x \in s : TRUE

\* g is the sum of f over each of the sets in Q, taken element by element.
Adds(g, Q, f) == g = [s \in Q |-> IF s = {} THEN 0 ELSE f[Pick(s)] + g[s \ {Pick(s)}]]

LEMMA Picked == \A s : s # {} => Pick(s) \in s
BY DEF Pick

\* A set of natural numbers that is not empty has a least element.
LEMMA LeastExists ==
  ASSUME NEW N, N \subseteq Nat, N # {}
  PROVE  \E n \in N : \A m \in N : n <= m
<1> DEFINE R == {p \in Nat \X Nat : p[1] < p[2]}
<1>1. IsWellFoundedOn(R, Nat)
  BY NatLessThanWellFounded DEF OpToRel
<1> HIDE DEF R
<1>2. PICK n \in N : \A m \in N : <<m, n>> \notin R
  BY <1>1, WFMin
<1>3. ASSUME NEW m \in N PROVE n <= m
  <2>1. m \in Nat /\ n \in Nat /\ (m < n \/ n <= m)
    OBVIOUS
  <2>2. m < n => <<m, n>> \in R
    BY <2>1 DEF R
  <2> QED BY <1>2, <2>1, <2>2
<1> QED BY <1>3

----------------------------------------------------------------------------
(* The recursion has a solution: on the sets of up to n elements, for each *)
(* n.                                                                      *)

Upto(S, n) == {s \in SUBSET S : Cardinality(s) <= n}

LEMMA UptoZero ==
  ASSUME NEW S, IsFiniteSet(S)
  PROVE  Upto(S, 0) = {{}}
<1>1. \A s \in SUBSET S : IsFiniteSet(s) /\ Cardinality(s) \in Nat
  BY FS_Subset, FS_CardinalityType
<1>2. \A s \in SUBSET S : Cardinality(s) <= 0 => s = {}
  BY <1>1, FS_EmptySet
<1> QED BY <1>2, FS_EmptySet DEF Upto

LEMMA UptoLess ==
  ASSUME NEW S, IsFiniteSet(S), NEW n \in Nat
  PROVE  /\ \A s \in Upto(S, n + 1) : s # {} => s \ {Pick(s)} \in Upto(S, n)
         /\ Upto(S, n) \subseteq Upto(S, n + 1)
         /\ \A s \in Upto(S, n) : s # {} => s \ {Pick(s)} \in Upto(S, n)
<1>1. ASSUME NEW s \in SUBSET S, s # {}
      PROVE  /\ s \ {Pick(s)} \in SUBSET S /\ Cardinality(s) \in Nat
             /\ Cardinality(s \ {Pick(s)}) = Cardinality(s) - 1
  <2>1. IsFiniteSet(s) /\ Cardinality(s) \in Nat
    BY FS_Subset, FS_CardinalityType
  <2>2. Pick(s) \in s BY <1>1, Picked
  <2> QED BY <2>1, <2>2, FS_RemoveElement
<1>2. \A s \in SUBSET S : Cardinality(s) \in Nat
  BY FS_Subset, FS_CardinalityType
<1>3. \A s \in Upto(S, n + 1) : s # {} => s \ {Pick(s)} \in Upto(S, n)
  BY <1>1 DEF Upto
<1>4. Upto(S, n) \subseteq Upto(S, n + 1)
  BY <1>2 DEF Upto
<1>5. \A s \in Upto(S, n) : s # {} => s \ {Pick(s)} \in Upto(S, n)
  BY <1>1 DEF Upto
<1> QED BY <1>3, <1>4, <1>5

LEMMA AddsUpto ==
  ASSUME NEW S, IsFiniteSet(S), NEW f, \A a \in S : f[a] \in Int
  PROVE  \A n \in Nat : \E g \in [Upto(S, n) -> Int] : Adds(g, Upto(S, n), f)
<1> DEFINE Bad == {n \in Nat : ~ \E g \in [Upto(S, n) -> Int] : Adds(g, Upto(S, n), f)}
<1>1. SUFFICES ASSUME Bad # {} PROVE FALSE
  OBVIOUS
<1>2. PICK n \in Bad : \A m \in Bad : n <= m
  BY <1>1, LeastExists
<1>3. n # 0
  <2>1. [s \in Upto(S, 0) |-> 0] \in [Upto(S, 0) -> Int]
    OBVIOUS
  <2>2. Adds([s \in Upto(S, 0) |-> 0], Upto(S, 0), f)
    BY UptoZero DEF Adds
  <2> QED BY <2>1, <2>2
<1>4. n - 1 \in Nat /\ n - 1 \notin Bad /\ n = (n - 1) + 1
  BY <1>2, <1>3
<1> DEFINE m == n - 1
           Q == Upto(S, m)
           P == Upto(S, n)
<1>5. PICK g \in [Q -> Int] : Adds(g, Q, f)
  BY <1>4
<1>6. /\ \A s \in P : s # {} => s \ {Pick(s)} \in Q
      /\ Q \subseteq P
      /\ \A s \in Q : s # {} => s \ {Pick(s)} \in Q
  BY <1>4, UptoLess
<1> DEFINE h == [s \in P |-> IF s = {} THEN 0 ELSE f[Pick(s)] + g[s \ {Pick(s)}]]
<1>7. \A s \in P : s # {} => f[Pick(s)] \in Int
  BY Picked DEF Upto
<1> HIDE DEF m, Q, P
<1>8. h \in [P -> Int]
  BY <1>5, <1>6, <1>7
<1>9. \A s \in Q : h[s] = g[s]
  <2>1. \A s \in Q : g[s] = IF s = {} THEN 0 ELSE f[Pick(s)] + g[s \ {Pick(s)}]
    BY <1>5 DEF Adds
  <2>2. \A s \in Q : h[s] = IF s = {} THEN 0 ELSE f[Pick(s)] + g[s \ {Pick(s)}]
    BY <1>6
  <2> QED BY <2>1, <2>2
<1>10. h = [s \in P |-> IF s = {} THEN 0 ELSE f[Pick(s)] + h[s \ {Pick(s)}]]
  <2>1. \A s \in P : s # {} => h[s \ {Pick(s)}] = g[s \ {Pick(s)}]
    BY <1>6, <1>9
  <2> HIDE DEF h
  <2>2. h = [s \in P |-> IF s = {} THEN 0 ELSE f[Pick(s)] + g[s \ {Pick(s)}]]
    BY DEF h
  <2> QED BY <2>1, <2>2
<1>11. Adds(h, P, f)
  BY <1>10 DEF Adds
<1> HIDE DEF h
<1>12. QED BY <1>2, <1>8, <1>11 DEF P

LEMMA AddsExists ==
  ASSUME NEW S, IsFiniteSet(S), NEW f, \A a \in S : f[a] \in Int
  PROVE  \E g \in [SUBSET S -> Int] : Adds(g, SUBSET S, f)
<1>1. Cardinality(S) \in Nat /\ Upto(S, Cardinality(S)) = SUBSET S
  BY FS_Subset, FS_CardinalityType DEF Upto
<1> DEFINE n == Cardinality(S)
<1> HIDE DEF n
<1>2. \E g \in [Upto(S, n) -> Int] : Adds(g, Upto(S, n), f)
  BY <1>1, AddsUpto DEF n
<1> QED BY <1>1, <1>2 DEF n

----------------------------------------------------------------------------
(* Two solutions agree, and the order is of no account.                    *)

\* A property of the sets of a finite set that a smallest set cannot lack.
LEMMA SmallestExists ==
  ASSUME NEW S, IsFiniteSet(S), NEW C, C \subseteq SUBSET S, C # {}
  PROVE  \E s \in C : \A t \in SUBSET s : t # s => t \notin C
<1> DEFINE N == {Cardinality(s) : s \in C}
<1>1. \A s \in SUBSET S : IsFiniteSet(s) /\ Cardinality(s) \in Nat
  BY FS_Subset, FS_CardinalityType
<1>2. PICK n \in N : \A m \in N : n <= m
  <2>1. N \subseteq Nat /\ N # {} BY <1>1
  <2> HIDE DEF N
  <2> QED BY <2>1, LeastExists
<1>3. PICK s \in C : n = Cardinality(s)
  OBVIOUS
<1>4. ASSUME NEW t \in SUBSET s, t # s, t \in C PROVE FALSE
  <2>1. Cardinality(s) <= Cardinality(t)
    BY <1>2, <1>3, <1>4
  <2>2. Cardinality(t) <= Cardinality(s) /\ (Cardinality(s) = Cardinality(t) => s = t)
    BY <1>1, FS_Subset
  <2> QED BY <1>1, <1>4, <2>1, <2>2
<1> QED BY <1>4

LEMMA AddsUnique ==
  ASSUME NEW S, IsFiniteSet(S), NEW f, NEW h, NEW g,
         Adds(g, SUBSET S, f), NEW T \in SUBSET S, Adds(h, SUBSET T, f)
  PROVE  \A s \in SUBSET T : h[s] = g[s]
<1> DEFINE C == {s \in SUBSET T : h[s] # g[s]}
<1>1. SUFFICES ASSUME C # {} PROVE FALSE
  OBVIOUS
<1>2. IsFiniteSet(T) BY FS_Subset
<1>3. PICK s \in C : \A t \in SUBSET s : t # s => t \notin C
  <2>1. C \subseteq SUBSET T OBVIOUS
  <2> HIDE DEF C
  <2> QED BY <1>1, <1>2, <2>1, SmallestExists
<1>4. /\ g[s] = IF s = {} THEN 0 ELSE f[Pick(s)] + g[s \ {Pick(s)}]
      /\ h[s] = IF s = {} THEN 0 ELSE f[Pick(s)] + h[s \ {Pick(s)}]
  BY DEF Adds
<1>5. s # {} => h[s \ {Pick(s)}] = g[s \ {Pick(s)}]
  BY <1>3, Picked
<1> QED BY <1>4, <1>5

LEMMA AddsAny ==
  ASSUME NEW S, IsFiniteSet(S), NEW f, \A a \in S : f[a] \in Int,
         NEW g \in [SUBSET S -> Int], Adds(g, SUBSET S, f)
  PROVE  \A s \in SUBSET S : \A x \in s : g[s] = f[x] + g[s \ {x}]
<1> DEFINE C == {s \in SUBSET S : \E x \in s : g[s] # f[x] + g[s \ {x}]}
<1>1. SUFFICES ASSUME C # {} PROVE FALSE
  OBVIOUS
<1>2. PICK s \in C : \A t \in SUBSET s : t # s => t \notin C
  <2>1. C \subseteq SUBSET S OBVIOUS
  <2> HIDE DEF C
  <2> QED BY <1>1, <2>1, SmallestExists
<1>3. PICK x \in s : g[s] # f[x] + g[s \ {x}]
  OBVIOUS
<1> DEFINE y == Pick(s)
<1>4. y \in s /\ g[s] = f[y] + g[s \ {y}]
  BY <1>3, Picked DEF Adds
<1> HIDE DEF y
<1>5. CASE x = y
  BY <1>3, <1>4, <1>5
<1>6. CASE x # y
  <2>1. s \ {y} \in SUBSET S /\ s \ {x} \in SUBSET S /\ (s \ {x}) \ {y} \in SUBSET S
    OBVIOUS
  <2>2. s \ {y} \notin C /\ s \ {x} \notin C
    BY <1>2, <1>4
  <2>3. g[s \ {y}] = f[x] + g[(s \ {y}) \ {x}]
    BY <1>6, <2>1, <2>2
  <2>4. g[s \ {x}] = f[y] + g[(s \ {x}) \ {y}]
    BY <1>4, <1>6, <2>1, <2>2
  <2>5. (s \ {x}) \ {y} = (s \ {y}) \ {x}
    OBVIOUS
  <2>6. f[x] \in Int /\ f[y] \in Int /\ g[(s \ {x}) \ {y}] \in Int
    BY <1>4, <2>1
  <2> HIDE DEF C
  <2>7. g[s \ {x}] = f[y] + g[(s \ {y}) \ {x}]
    BY <2>4, <2>5
  <2>8. g[s] = f[y] + (f[x] + g[(s \ {y}) \ {x}])
    BY <1>4, <2>3
  <2> DEFINE k == g[(s \ {y}) \ {x}]
             l == g[s \ {x}]
  <2>9. k \in Int BY <2>5, <2>6
  <2>10. g[s] # f[x] + l BY <1>3
  <2>11. l = f[y] + k /\ g[s] = f[y] + (f[x] + k) BY <2>7, <2>8
  <2> HIDE DEF k, l
  <2> QED BY <2>6, <2>9, <2>10, <2>11
<1> QED BY <1>5, <1>6

----------------------------------------------------------------------------
(* Total.                                                                  *)

LEMMA TotalAdds ==
  ASSUME NEW S, NEW f
  PROVE  Total(f, S) = (CHOOSE g : Adds(g, SUBSET S, f))[S]
BY SMT DEF Total, MapThenSumSet, MapThenFoldSet, Adds, Pick

LEMMA TotalIs ==
  ASSUME NEW S, IsFiniteSet(S), NEW f, \A a \in S : f[a] \in Int,
         NEW g \in [SUBSET S -> Int], Adds(g, SUBSET S, f), NEW T \in SUBSET S
  PROVE  Total(f, T) = g[T]
<1>1. IsFiniteSet(T) /\ \A a \in T : f[a] \in Int
  BY FS_Subset
<1>2. \E h : Adds(h, SUBSET T, f)
  BY <1>1, AddsExists
<1> DEFINE h == CHOOSE x : Adds(x, SUBSET T, f)
<1>3. Adds(h, SUBSET T, f)
  BY <1>2
<1> HIDE DEF h
<1>4. \A s \in SUBSET T : h[s] = g[s]
  BY <1>3, AddsUnique, SMTT(60)
<1>5. Total(f, T) = h[T]
  BY TotalAdds DEF h
<1> QED BY <1>4, <1>5

LEMMA TotalEmpty ==
  ASSUME NEW f
  PROVE  Total(f, {}) = 0
<1> DEFINE E == {}
<1>1. IsFiniteSet(E) /\ (\A a \in E : f[a] \in Int) /\ E \in SUBSET E
  BY FS_EmptySet
<1>2. \A g : Adds(g, SUBSET E, f) => g[E] = 0
  BY DEF Adds
<1> HIDE DEF E
<1>3. PICK g \in [SUBSET E -> Int] : Adds(g, SUBSET E, f)
  BY <1>1, AddsExists
<1>4. Total(f, E) = g[E]
  BY <1>1, <1>3, TotalIs
<1> QED BY <1>2, <1>3, <1>4 DEF E

LEMMA TotalType ==
  ASSUME NEW S, IsFiniteSet(S), NEW f, \A a \in S : f[a] \in Int
  PROVE  Total(f, S) \in Int
<1>1. PICK g \in [SUBSET S -> Int] : Adds(g, SUBSET S, f)
  BY AddsExists
<1> QED BY <1>1, TotalIs

\* One term, and the others.
LEMMA TotalSplit ==
  ASSUME NEW S, IsFiniteSet(S), NEW f, \A a \in S : f[a] \in Int, NEW x \in S
  PROVE  Total(f, S) = f[x] + Total(f, S \ {x}) /\ Total(f, S \ {x}) \in Int
<1>1. PICK g \in [SUBSET S -> Int] : Adds(g, SUBSET S, f)
  BY AddsExists
<1>2. Total(f, S) = g[S] /\ Total(f, S \ {x}) = g[S \ {x}]
  BY <1>1, TotalIs
<1>3. g[S] = f[x] + g[S \ {x}] /\ g[S \ {x}] \in Int
  BY <1>1, AddsAny
<1> QED BY <1>2, <1>3

\* The same terms.
LEMMA TotalSame ==
  ASSUME NEW S, IsFiniteSet(S), NEW f, NEW h, \A a \in S : f[a] \in Int /\ f[a] = h[a]
  PROVE  Total(f, S) = Total(h, S)
<1>1. PICK g \in [SUBSET S -> Int] : Adds(g, SUBSET S, f)
  BY AddsExists
<1>2. \A s \in SUBSET S : s # {} => f[Pick(s)] = h[Pick(s)]
  BY Picked
<1>3. Adds(g, SUBSET S, h)
  BY <1>1, <1>2 DEF Adds
<1> QED BY <1>1, <1>3, TotalIs

\* One term more.
LEMMA TotalAdd ==
  ASSUME NEW S, IsFiniteSet(S), NEW f, \A a \in S : f[a] \in Int, NEW x, x \notin S, f[x] \in Int
  PROVE  Total(f, S \cup {x}) = Total(f, S) + f[x]
<1>1. IsFiniteSet(S \cup {x}) /\ (S \cup {x}) \ {x} = S
  BY FS_AddElement
<1>2. Total(f, S \cup {x}) = f[x] + Total(f, S)
  BY <1>1, TotalSplit
<1> QED BY <1>2, TotalType

\* One term changed.
LEMMA TotalExcept ==
  ASSUME NEW S, IsFiniteSet(S), NEW f, NEW h, NEW x \in S,
         \A a \in S : f[a] \in Int, h[x] \in Int,
         \A a \in S : a # x => h[a] = f[a]
  PROVE  Total(h, S) = Total(f, S) - f[x] + h[x]
<1>1. IsFiniteSet(S \ {x}) BY FS_RemoveElement
<1>2. Total(f, S \ {x}) = Total(h, S \ {x})
  BY <1>1, TotalSame
<1>3. Total(f, S) = f[x] + Total(f, S \ {x}) /\ Total(f, S \ {x}) \in Int
  BY TotalSplit
<1>4. Total(h, S) = h[x] + Total(h, S \ {x})
  BY TotalSplit
<1> QED BY <1>2, <1>3, <1>4

\* Term by term.
LEMMA TotalLe ==
  ASSUME NEW S, IsFiniteSet(S), NEW f, NEW h,
         \A a \in S : f[a] \in Int /\ h[a] \in Int /\ f[a] <= h[a]
  PROVE  Total(f, S) <= Total(h, S)
<1> DEFINE C == {s \in SUBSET S : ~ Total(f, s) <= Total(h, s)}
<1>1. SUFFICES ASSUME C # {} PROVE FALSE
  OBVIOUS
<1>2. PICK s \in C : \A t \in SUBSET s : t # s => t \notin C
  <2>1. C \subseteq SUBSET S OBVIOUS
  <2> HIDE DEF C
  <2> QED BY <1>1, <2>1, SmallestExists
<1>3. s \in SUBSET S /\ ~ Total(f, s) <= Total(h, s)
  OBVIOUS
<1>4. s # {}
  BY <1>3, TotalEmpty
<1>5. PICK x \in s : TRUE
  BY <1>4
<1>6. Total(f, s \ {x}) <= Total(h, s \ {x})
  BY <1>2, <1>3
<1>7. IsFiniteSet(s)
  BY <1>3, FS_Subset
<1> HIDE DEF C
<1>8. Total(f, s) = f[x] + Total(f, s \ {x}) /\ Total(f, s \ {x}) \in Int
  BY <1>3, <1>7, TotalSplit
<1>9. Total(h, s) = h[x] + Total(h, s \ {x}) /\ Total(h, s \ {x}) \in Int
  BY <1>3, <1>7, TotalSplit
<1>10. f[x] \in Int /\ h[x] \in Int /\ f[x] <= h[x]
  BY <1>3
<1> DEFINE p == Total(f, s \ {x})
           q == Total(h, s \ {x})
<1>11. p \in Int /\ q \in Int /\ p <= q /\ ~ (f[x] + p <= h[x] + q)
  BY <1>3, <1>6, <1>8, <1>9
<1> HIDE DEF p, q
<1> QED BY <1>10, <1>11

\* No term is negative.
LEMMA TotalNat ==
  ASSUME NEW S, IsFiniteSet(S), NEW f, \A a \in S : f[a] \in Nat
  PROVE  Total(f, S) \in Nat
<1> DEFINE C == {s \in SUBSET S : Total(f, s) \notin Nat}
<1>1. SUFFICES ASSUME C # {} PROVE FALSE
  OBVIOUS
<1>2. PICK s \in C : \A t \in SUBSET s : t # s => t \notin C
  <2>1. C \subseteq SUBSET S OBVIOUS
  <2> HIDE DEF C
  <2> QED BY <1>1, <2>1, SmallestExists
<1>3. s \in SUBSET S /\ Total(f, s) \notin Nat
  OBVIOUS
<1>4. PICK x \in s : TRUE
  BY <1>3, TotalEmpty
<1>5. Total(f, s \ {x}) \in Nat
  BY <1>2, <1>3
<1>6. IsFiniteSet(s)
  BY <1>3, FS_Subset
<1> HIDE DEF C
<1>7. Total(f, s) = f[x] + Total(f, s \ {x})
  BY <1>3, <1>6, TotalSplit
<1>8. f[x] \in Nat BY <1>3
<1> QED BY <1>3, <1>5, <1>7, <1>8

----------------------------------------------------------------------------
(* Sums over 1..n, of what a sequence holds.                               *)

LEMMA RowFinite == \A n \in Nat : IsFiniteSet(1 .. n)
BY FS_Interval

\* The last term changed.
LEMMA RowLast ==
  ASSUME NEW n \in Nat, n >= 1, NEW f, NEW h,
         \A i \in 1 .. n : f[i] \in Int, h[n] \in Int,
         \A i \in 1 .. n : i # n => h[i] = f[i]
  PROVE  Total(h, 1 .. n) = Total(f, 1 .. n) - f[n] + h[n]
<1>1. n \in 1 .. n /\ IsFiniteSet(1 .. n)
  BY RowFinite
<1> DEFINE S == 1 .. n
<1>2. \A i \in S : f[i] \in Int
  OBVIOUS
<1>3. \A i \in S : i # n => h[i] = f[i]
  OBVIOUS
<1>4. IsFiniteSet(S) /\ n \in S /\ h[n] \in Int
  BY <1>1
<1> HIDE DEF S
<1>5. \A i \in S \ {n} : f[i] \in Int /\ f[i] = h[i]
  BY <1>2, <1>3
<1>6. \A i \in S : h[i] \in Int
  BY <1>2, <1>3, <1>4
<1>7. IsFiniteSet(S \ {n})
  BY <1>4, FS_RemoveElement
<1>8. Total(f, S \ {n}) = Total(h, S \ {n})
  BY <1>5, <1>7, TotalSame
<1>9. Total(f, S) = f[n] + Total(f, S \ {n}) /\ Total(f, S \ {n}) \in Int
  BY <1>2, <1>4, TotalSplit
<1>10. Total(h, S) = h[n] + Total(h, S \ {n})
  BY <1>4, <1>6, TotalSplit
<1>11. f[n] \in Int
  BY <1>2, <1>4
<1>12. Total(h, S) = Total(f, S) - f[n] + h[n]
  BY <1>4, <1>8, <1>9, <1>10, <1>11
<1> QED BY <1>12 DEF S

\* A term more, the last.
LEMMA RowMore ==
  ASSUME NEW n \in Nat, NEW f, NEW h,
         \A i \in 1 .. n : f[i] \in Int, h[n + 1] \in Int,
         \A i \in 1 .. n : h[i] = f[i]
  PROVE  Total(h, 1 .. n + 1) = Total(f, 1 .. n) + h[n + 1]
<1> DEFINE S == 1 .. n
           x == n + 1
<1>1. IsFiniteSet(S) /\ x \notin S /\ S \cup {x} = 1 .. n + 1
  BY RowFinite
<1>2. (\A i \in S : f[i] \in Int /\ f[i] = h[i]) /\ (\A i \in S : h[i] \in Int) /\ h[x] \in Int
  OBVIOUS
<1> HIDE DEF S, x
<1>3. Total(f, S) = Total(h, S)
  BY <1>1, <1>2, TotalSame
<1>4. Total(h, S \cup {x}) = Total(h, S) + h[x]
  BY <1>1, <1>2, TotalAdd
<1>5. Total(h, S \cup {x}) = Total(f, S) + h[x]
  BY <1>3, <1>4
<1> QED BY <1>1, <1>5 DEF S, x

\* The last term away.
LEMMA RowLess ==
  ASSUME NEW n \in Nat, n >= 1, NEW f, NEW h,
         \A i \in 1 .. n : f[i] \in Int,
         \A i \in 1 .. n - 1 : h[i] = f[i]
  PROVE  /\ Total(h, 1 .. n - 1) = Total(f, 1 .. n) - f[n]
         /\ Total(h, 1 .. n - 1) \in Int /\ Total(f, 1 .. n) \in Int
<1> DEFINE m == n - 1
<1>1. m \in Nat /\ n = m + 1 /\ f[n] \in Int
  OBVIOUS
<1>2. \A i \in 1 .. m : h[i] \in Int /\ h[i] = f[i]
  OBVIOUS
<1>3. \A i \in 1 .. m : h[i] \in Int
  BY <1>2
<1>4. \A i \in 1 .. m : f[i] = h[i]
  BY <1>2
<1> HIDE DEF m
<1>5. f[m + 1] \in Int
  BY <1>1
<1>6. Total(f, 1 .. m + 1) = Total(h, 1 .. m) + f[m + 1]
  BY <1>1, <1>3, <1>4, <1>5, RowMore
<1>7. Total(h, 1 .. m) \in Int
  <2>1. IsFiniteSet(1 .. m)
    BY <1>1, RowFinite
  <2> QED BY <1>3, <2>1, TotalType
<1>8. Total(f, 1 .. n) = Total(h, 1 .. m) + f[n]
  BY <1>1, <1>6
<1> DEFINE p == Total(h, 1 .. m)
           q == Total(f, 1 .. n)
<1>9. p \in Int /\ q = p + f[n]
  BY <1>7, <1>8
<1> HIDE DEF p, q
<1>10. p = q - f[n] /\ q \in Int
  BY <1>1, <1>9
<1> QED BY <1>9, <1>10 DEF p, q, m

----------------------------------------------------------------------------
(* Sums modulo w: what differs is a multiple of it.                        *)

Multiple(x, w) == \E k \in Int : x = k * w

LEMMA MultipleRest ==
  ASSUME NEW w \in Nat \ {0}, NEW x \in Int
  PROVE  Multiple((x % w) - x, w) /\ x % w \in Int
  <1>1. w \in Nat \ {0}
    OBVIOUS
  <1>2. x = w * (x \div w) + (x % w) /\ x \div w \in Int /\ x % w \in Int
    BY <1>1
  <1> DEFINE q == x \div w
             r == x % w
  <1>3. x = w * q + r /\ q \in Int /\ r \in Int
    BY <1>2
  <1> HIDE DEF q, r
  <1>4. r - x = (0 - q) * w /\ 0 - q \in Int
    BY <1>1, <1>3
  <1>5. QED
    BY <1>3, <1>4 DEF Multiple, r

LEMMA MultipleSum ==
  ASSUME NEW w \in Nat \ {0}, NEW x \in Int, NEW y \in Int, Multiple(x, w), Multiple(y, w)
  PROVE  Multiple(x + y, w) /\ Multiple(x - y, w)
  <1>1. PICK k \in Int : x = k * w
    BY DEF Multiple
  <1>2. PICK l \in Int : y = l * w
    BY DEF Multiple
  <1>3. x + y = (k + l) * w /\ x - y = (k - l) * w /\ k + l \in Int /\ k - l \in Int
    BY <1>1, <1>2
  <1>4. QED
    BY <1>3 DEF Multiple

LEMMA MultipleTimes ==
  ASSUME NEW w \in Nat \ {0}, NEW x \in Int, NEW n \in Int, Multiple(x, w)
  PROVE  Multiple(n * x, w)
  <1>1. PICK k \in Int : x = k * w
    BY DEF Multiple
  <1>2. n * x = (n * k) * w /\ n * k \in Int
    BY <1>1
  <1>3. QED
    BY <1>2 DEF Multiple

\* Numbers that differ by a multiple of w are the same modulo w.
LEMMA MultipleSame ==
  ASSUME NEW w \in Nat \ {0}, NEW x \in Int, NEW y \in Int, Multiple(x - y, w)
  PROVE  x % w = y % w
  <1>1. w \in Nat \ {0}
    OBVIOUS
  <1> DEFINE q == x \div w
             r == x % w
             p == y \div w
             s == y % w
  <1>2. x = w * q + r /\ q \in Int /\ r \in 0 .. w - 1
    BY <1>1
  <1>3. y = w * p + s /\ p \in Int /\ s \in 0 .. w - 1
    BY <1>1
  <1>4. PICK k \in Int : x - y = k * w
    BY DEF Multiple
  <1>5. SUFFICES r = s
    OBVIOUS
  <1> HIDE DEF q, r, p, s
  <1> DEFINE d == k + p - q
  <1>6. d \in Int /\ r - s = d * w
    BY <1>1, <1>2, <1>3, <1>4
  <1> HIDE DEF d
  <1>7. r - s < w /\ r - s > 0 - w
    BY <1>1, <1>2, <1>3
  <1>8. CASE d = 0
    BY <1>1, <1>2, <1>3, <1>6, <1>8
  <1>9. CASE d >= 1
    <2>1. d * w >= w
      BY <1>1, <1>6, <1>9
    <2>2. QED
      BY <1>1, <1>2, <1>3, <1>6, <1>7, <2>1
  <1>10. CASE d <= 0 - 1
    <2>1. d * w <= 0 - w
      BY <1>1, <1>6, <1>10
    <2>2. QED
      BY <1>1, <1>2, <1>3, <1>6, <1>7, <2>1
  <1>11. QED
    BY <1>6, <1>8, <1>9, <1>10

LEMMA MultipleZero ==
  ASSUME NEW w \in Nat \ {0}
  PROVE  Multiple(0, w)
  <1>1. 0 = 0 * w
    OBVIOUS
  <1>2. QED
    BY <1>1 DEF Multiple

Wrapped(A, w) == [A -> 0 .. w - 1]

LEMMA WrappedSum ==
  ASSUME NEW A, IsFiniteSet(A), NEW w \in Nat \ {0}, NEW b \in Wrapped(A, w)
  PROVE  Total(b, A) \in Int /\ \A a \in A : b[a] \in Int
  <1>1. \A a \in A : b[a] \in Int
    BY DEF Wrapped
  <1>2. QED
    BY <1>1, TotalType

LEMMA OneWraps ==
  ASSUME NEW A, IsFiniteSet(A), NEW w \in Nat \ {0}, NEW b \in Wrapped(A, w),
         NEW c \in Wrapped(A, w), NEW a \in A, \A o \in A : o # a => c[o] = b[o]
  PROVE  Total(c, A) = Total(b, A) - b[a] + c[a]
  <1>1. \A o \in A : b[o] \in Int /\ c[o] \in Int
    BY WrappedSum
  <1>2. Total(b, A) = b[a] + Total(b, A \ {a}) /\ Total(b, A \ {a}) \in Int
    BY <1>1, TotalSplit
  <1>3. Total(c, A) = c[a] + Total(c, A \ {a})
    BY <1>1, TotalSplit
  <1>4. Total(b, A \ {a}) = Total(c, A \ {a})
    <2>1. IsFiniteSet(A \ {a})
      BY FS_RemoveElement
    <2>2. \A o \in A \ {a} : b[o] \in Int /\ b[o] = c[o]
      BY <1>1
    <2>3. QED
      BY <2>1, <2>2, TotalSame
  <1> DEFINE R == Total(b, A \ {a})
  <1>5. /\ b[a] \in Int /\ c[a] \in Int /\ R \in Int
        /\ Total(b, A) = b[a] + R /\ Total(c, A) = c[a] + R
    BY <1>1, <1>2, <1>3, <1>4
  <1> HIDE DEF R
  <1>6. QED
    BY <1>5

\* A term that changes by x, modulo w, changes the sum by x.
LEMMA TotalWraps ==
  ASSUME NEW A, IsFiniteSet(A), NEW w \in Nat \ {0}, NEW b \in Wrapped(A, w),
         NEW a \in A, NEW x \in Int, NEW c, c = [b EXCEPT ![a] = (@ + x) % w]
  PROVE  /\ c \in Wrapped(A, w)
         /\ Multiple(Total(c, A) - Total(b, A) - x, w)
  <1> DEFINE d == [b EXCEPT ![a] = (@ + x) % w]
  <1>1. b[a] \in Int /\ b[a] + x \in Int /\ Total(b, A) \in Int
    BY WrappedSum
  <1>2. d[a] = (b[a] + x) % w /\ \A o \in A : o # a => d[o] = b[o]
    BY DEF Wrapped
  <1>3. d \in Wrapped(A, w) /\ d[a] \in Int
    <2>1. (b[a] + x) % w \in 0 .. w - 1
      BY <1>1
    <2>2. QED
      BY <1>2, <2>1 DEF Wrapped
  <1>4. c = d
    OBVIOUS
  <1> HIDE DEF d
  <1>5. Multiple(d[a] - (b[a] + x), w)
    BY <1>1, <1>2, MultipleRest
  <1>6. Total(d, A) = Total(b, A) - b[a] + d[a]
    BY <1>2, <1>3, OneWraps
  <1> DEFINE p == Total(b, A)
             q == Total(d, A)
  <1>7. p \in Int /\ q = p - b[a] + d[a]
    BY <1>1, <1>6
  <1> HIDE DEF p, q
  <1>8. q - p - x = d[a] - (b[a] + x)
    BY <1>1, <1>3, <1>7
  <1>9. Multiple(Total(d, A) - Total(b, A) - x, w)
    BY <1>5, <1>8 DEF p, q
  <1>10. QED
    BY <1>3, <1>4, <1>9
=============================================================================
