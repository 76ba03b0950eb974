-------------------------------- MODULE Sums --------------------------------
(***************************************************************************)
(* Sums over finite sets, over 1 .. n and along sequences: what their      *)
(* recursive definitions come to, for any numbers.                         *)
(*                                                                         *)
(* There is no induction here.  A sum is the size of a set of pairs, which *)
(* grows with the set that is summed over; that a recursive definition     *)
(* comes to that size everywhere follows from the smallest set, or the     *)
(* least number, at which it might not.                                    *)
(***************************************************************************)
EXTENDS Integers, Sequences, FiniteSets, FiniteSetsExt, FiniteSetTheorems,
        SequenceTheorems, TLAPS

-----------------------------------------------------------------------------
(* Smallest and least.                                                     *)

\* A family of subsets of a finite set has a member without a smaller one in it.
LEMMA MinimalSubset ==
    ASSUME NEW S, IsFiniteSet(S), NEW F \in SUBSET SUBSET S, F # {}
    PROVE  \E M \in F : \A T \in F : T \subseteq M => T = M
<1>1. IsWellFoundedOn(StrictSubsetOrdering(S), SUBSET S)
  BY FS_StrictSubsetOrderingWellFounded, FS_FiniteSubsetsOfFinite
<1>2. \E M \in F : \A T \in F : ~ (<<T, M>> \in StrictSubsetOrdering(S))
  BY <1>1, WFMin
<1> QED BY <1>2 DEF StrictSubsetOrdering

\* A set of naturals has a least element.
LEMMA LeastOf ==
    ASSUME NEW T \in SUBSET Nat, T # {}
    PROVE  \E m \in T : \A k \in T : m <= k
<1>1. PICK n \in T : TRUE
  OBVIOUS
<1> DEFINE I == 0 .. n
           F == {0 .. k : k \in {j \in T : j <= n}}
<1>2. F \in SUBSET SUBSET I
  OBVIOUS
<1>3. 0 .. n \in F /\ IsFiniteSet(I)
  BY FS_Interval
<1>4. \E M \in F : \A U \in F : U \subseteq M => U = M
  <2>1. F # {}
    BY <1>3
  <2> HIDE DEF F, I
  <2> QED BY <1>2, <1>3, <2>1, MinimalSubset
<1>5. PICK M \in F : \A U \in F : U \subseteq M => U = M
  BY <1>4
<1>6. PICK m \in T : m <= n /\ M = 0 .. m
  OBVIOUS
<1>7. ASSUME NEW k \in T PROVE m <= k
  <2>1. CASE k < m
    <3>1. 0 .. k \in F /\ 0 .. k \subseteq M /\ m \notin 0 .. k /\ m \in M
      BY <1>6, <2>1
    <3> QED BY <3>1, <1>5
  <2> QED BY <2>1
<1> QED BY <1>7

-----------------------------------------------------------------------------
(* Sums over finite sets.                                                  *)

\* As many pairs as the numbers f[x] of the elements of S come to.
Units(S, f) == UNION {{x} \X (1 .. f[x]) : x \in S}

Size(S, f) == Cardinality(Units(S, f))

\* The pairs of one element.
LEMMA PairsCount ==
    ASSUME NEW x, NEW n \in Nat
    PROVE  IsFiniteSet({x} \X (1 .. n)) /\ Cardinality({x} \X (1 .. n)) = n
<1>1. IsFiniteSet({x}) /\ Cardinality({x}) = 1
  BY FS_Singleton
<1>2. IsFiniteSet(1 .. n) /\ Cardinality(1 .. n) = n
  BY FS_Interval
<1>3. Cardinality({x} \X (1 .. n)) = Cardinality({x}) * Cardinality(1 .. n)
  BY <1>1, <1>2, FS_Product, Zenon
<1>4. IsFiniteSet({x} \X (1 .. n))
  BY <1>1, <1>2, FS_Product, Zenon
<1>5. Cardinality({x} \X (1 .. n)) = 1 * n
  BY <1>1, <1>2, <1>3, Zenon
<1> QED BY <1>4, <1>5

\* Finitely many numbers make a finite set of pairs, so that a size is a number.
LEMMA UnitsFinite ==
    ASSUME NEW S, IsFiniteSet(S), NEW f, \A x \in S : f[x] \in Nat
    PROVE  IsFiniteSet(Units(S, f)) /\ Size(S, f) \in Nat
<1> DEFINE unit == [x \in S |-> {x} \X (1 .. f[x])]
           U == {{x} \X (1 .. f[x]) : x \in S}
<1>1. unit \in Surjection(S, U)
  BY DEF Surjection
<1>2. IsFiniteSet(U)
  BY <1>1, FS_Surjection
<1>3. ASSUME NEW x \in S PROVE IsFiniteSet({x} \X (1 .. f[x]))
  BY PairsCount
<1>4. IsFiniteSet(UNION U)
  BY <1>2, <1>3, FS_UNION
<1> QED BY <1>4, FS_CardinalityType DEF Units, Size

\* The size of no numbers, with one more, with one less, and of the same numbers.
LEMMA SizeEmpty == ASSUME NEW f PROVE Size({}, f) = 0
<1>1. Units({}, f) = {}
  BY DEF Units
<1> QED BY <1>1, FS_EmptySet DEF Size

LEMMA SizeAdd ==
    ASSUME NEW S, IsFiniteSet(S), NEW f, \A y \in S : f[y] \in Nat, NEW x, x \notin S, f[x] \in Nat
    PROVE  Size(S \cup {x}, f) = Size(S, f) + f[x]
<1> DEFINE N == {x} \X (1 .. f[x])
<1>1. Units(S \cup {x}, f) = Units(S, f) \cup N
  BY DEF Units
<1>2. Units(S, f) \cap N = {}
  BY DEF Units
<1>3. IsFiniteSet(N) /\ Cardinality(N) = f[x]
  BY PairsCount
<1>4. IsFiniteSet(Units(S, f)) /\ Size(S, f) \in Nat
  BY UnitsFinite
<1>5. Cardinality(Units(S, f) \cup N)
         = Cardinality(Units(S, f)) + Cardinality(N) - Cardinality(Units(S, f) \cap N)
  <2> HIDE DEF N
  <2> QED BY ONLY <1>3, <1>4, FS_Union
<1>6. Cardinality(Units(S, f) \cap N) = 0
  <2> HIDE DEF N
  <2> QED BY <1>2, FS_EmptySet
<1> HIDE DEF N
<1>7. Cardinality(Units(S, f) \cup N) = Size(S, f) + f[x]
  BY <1>3, <1>4, <1>5, <1>6 DEF Size
<1> QED BY <1>1, <1>7 DEF Size

LEMMA SizeRemove ==
    ASSUME NEW S, IsFiniteSet(S), NEW f, \A y \in S : f[y] \in Nat, NEW x \in S
    PROVE  Size(S, f) = f[x] + Size(S \ {x}, f) /\ Size(S \ {x}, f) \in Nat
<1>1. IsFiniteSet(S \ {x}) /\ S = (S \ {x}) \cup {x}
  BY FS_RemoveElement
<1>2. Size((S \ {x}) \cup {x}, f) = Size(S \ {x}, f) + f[x]
  BY <1>1, SizeAdd
<1>3. Size(S \ {x}, f) \in Nat
  BY <1>1, UnitsFinite
<1>4. Size((S \ {x}) \cup {x}, f) = Size(S, f)
  BY <1>1
<1> QED BY <1>2, <1>3, <1>4

LEMMA SizeSame ==
    ASSUME NEW S, NEW f, NEW g, \A x \in S : f[x] = g[x]
    PROVE  Size(S, f) = Size(S, g)
<1>1. Units(S, f) = Units(S, g)
  BY DEF Units
<1> QED BY <1>1 DEF Size

\* The sum of the library is the size.
SumOf(S, f) == MapThenSumSet(LAMBDA x : f[x], S)

\* MapThenSumSet, which takes elements away until none is left, comes to the size.
LEMMA SumIsSize ==
    ASSUME NEW S, IsFiniteSet(S), NEW f, \A x \in S : f[x] \in Nat
    PROVE  SumOf(S, f) = Size(S, f)
<1> DEFINE first(T) == CHOOSE x \in T : TRUE
           step(g) == [T \in SUBSET S |-> IF T = {} THEN 0 ELSE f[first(T)] + g[T \ {first(T)}]]
           iter == CHOOSE g : g = step(g)
           size == [T \in SUBSET S |-> Size(T, f)]
<1>1. SumOf(S, f) = iter[S]
  BY DEF SumOf, MapThenSumSet, MapThenFoldSet
<1>2. ASSUME NEW T \in SUBSET S, T # {}
      PROVE  /\ first(T) \in T /\ T \ {first(T)} \in SUBSET S
             /\ Size(T, f) = f[first(T)] + Size(T \ {first(T)}, f)
  <2>1. first(T) \in T
    BY <1>2
  <2>2. IsFiniteSet(T)
    BY FS_Subset
  <2> HIDE DEF first
  <2> QED BY <2>1, <2>2, SizeRemove
<1>3. size = step(size)
  <2> SUFFICES ASSUME NEW T \in SUBSET S PROVE size[T] = step(size)[T]
    BY Zenon
  <2>1. CASE T = {}
    BY <2>1, SizeEmpty
  <2>2. CASE T # {}
    <3> HIDE DEF first
    <3> QED BY <2>2, <1>2
  <2> QED BY <2>1, <2>2
<1>4. iter = step(iter)
  <2> HIDE DEF step
  <2> QED BY <1>3
<1>5. ASSUME NEW T \in SUBSET S PROVE iter[T] = size[T]
  <2> DEFINE Bad == {V \in SUBSET S : iter[V] # size[V]}
  <2> SUFFICES ASSUME Bad # {} PROVE FALSE
    OBVIOUS
  <2>1. PICK M \in Bad : \A V \in Bad : V \subseteq M => V = M
    <3>1. Bad \in SUBSET SUBSET S
      OBVIOUS
    <3> HIDE DEF Bad
    <3>2. \E M \in Bad : \A V \in Bad : V \subseteq M => V = M
      BY <3>1, MinimalSubset
    <3> QED BY <3>2
  <2> HIDE DEF iter
  <2>2. M # {}
    BY <1>4, <1>3
  <2>3. first(M) \in M /\ M \ {first(M)} \in SUBSET S /\ M \ {first(M)} \notin Bad
    <3> HIDE DEF first
    <3> QED BY <1>2, <2>1, <2>2
  <2> HIDE DEF first, size
  <2> QED BY <1>3, <1>4, <2>2, <2>3
<1> QED BY <1>1, <1>5

\* So a sum is a number, of no terms zero, and grows by the term that is added.
LEMMA SumType ==
    ASSUME NEW S, IsFiniteSet(S), NEW f, \A x \in S : f[x] \in Nat
    PROVE  SumOf(S, f) \in Nat
BY SumIsSize, UnitsFinite

LEMMA SumEmpty == ASSUME NEW f PROVE SumOf({}, f) = 0
<1>1. IsFiniteSet({}) /\ \A x \in {} : f[x] \in Nat
  BY FS_EmptySet
<1> QED BY <1>1, SumIsSize, SizeEmpty

LEMMA SumAdd ==
    ASSUME NEW S, IsFiniteSet(S), NEW f, \A y \in S : f[y] \in Nat, NEW x, x \notin S, f[x] \in Nat
    PROVE  SumOf(S \cup {x}, f) = SumOf(S, f) + f[x]
<1>1. IsFiniteSet(S \cup {x}) /\ \A y \in S \cup {x} : f[y] \in Nat
  BY FS_AddElement
<1>2. SumOf(S \cup {x}, f) = Size(S \cup {x}, f)
  BY <1>1, SumIsSize
<1>3. SumOf(S, f) = Size(S, f)
  BY SumIsSize
<1> QED BY <1>2, <1>3, SizeAdd

\* Sums of the same terms are the same.
LEMMA SumSame ==
    ASSUME NEW S, IsFiniteSet(S), NEW f, NEW g, \A x \in S : f[x] \in Nat /\ g[x] = f[x]
    PROVE  SumOf(S, g) = SumOf(S, f)
<1>1. \A x \in S : g[x] \in Nat
  OBVIOUS
<1>2. SumOf(S, f) = Size(S, f) /\ SumOf(S, g) = Size(S, g)
  BY <1>1, SumIsSize
<1> QED BY <1>2, SizeSame

\* A sum of zeros.
LEMMA SumZero ==
    ASSUME NEW S, IsFiniteSet(S), NEW f, \A x \in S : f[x] = 0
    PROVE  SumOf(S, f) = 0
<1>1. Units(S, f) = {}
  BY DEF Units
<1>2. Size(S, f) = 0
  BY <1>1, FS_EmptySet DEF Size
<1> QED BY <1>2, SumIsSize

\* One term changes.
LEMMA SumChange ==
    ASSUME NEW S, IsFiniteSet(S), NEW x \in S, NEW f, NEW g,
           \A y \in S : f[y] \in Nat /\ g[y] \in Nat /\ (y # x => g[y] = f[y])
    PROVE  /\ SumOf(S, f) \in Nat /\ SumOf(S, g) \in Nat
           /\ SumOf(S, g) - g[x] = SumOf(S, f) - f[x]
<1> DEFINE R == S \ {x}
<1>1. IsFiniteSet(R) /\ x \notin R /\ S = R \cup {x}
  BY FS_RemoveElement
<1>2. \A y \in R : f[y] \in Nat /\ g[y] = f[y] /\ g[y] \in Nat
  OBVIOUS
<1>3. f[x] \in Nat /\ g[x] \in Nat
  OBVIOUS
<1> HIDE DEF R
<1>4. SumOf(R \cup {x}, f) = SumOf(R, f) + f[x]
  BY <1>1, <1>2, <1>3, SumAdd
<1>5. SumOf(R \cup {x}, g) = SumOf(R, g) + g[x]
  BY <1>1, <1>2, <1>3, SumAdd
<1>6. SumOf(R, g) = SumOf(R, f)
  BY <1>1, <1>2, SumSame
<1>7. SumOf(R, f) \in Nat
  BY <1>1, <1>2, SumType
<1>8. SumOf(S, f) = SumOf(R, f) + f[x] /\ SumOf(S, g) = SumOf(R, f) + g[x]
  BY <1>1, <1>4, <1>5, <1>6
<1> QED BY <1>3, <1>7, <1>8

-----------------------------------------------------------------------------
(* Sums that count.                                                        *)

\* The size of a row of numbers, without the last of them.
LEMMA SizeUp ==
    ASSUME NEW n \in Nat, n >= 1, NEW f, \A k \in 1 .. n : f[k] \in Nat
    PROVE  Size(1 .. n, f) = Size(1 .. (n - 1), f) + f[n] /\ Size(1 .. (n - 1), f) \in Nat
<1> DEFINE I == 1 .. (n - 1)
<1>1. 1 .. n = I \cup {n} /\ n \notin I /\ n \in 1 .. n
  OBVIOUS
<1>2. \A k \in I : f[k] \in Nat
  OBVIOUS
<1>3. IsFiniteSet(I)
  BY FS_Interval
<1> HIDE DEF I
<1>4. Size(I \cup {n}, f) = Size(I, f) + f[n]
  BY <1>1, <1>2, <1>3, SizeAdd
<1>5. Size(I, f) \in Nat
  BY <1>2, <1>3, UnitsFinite
<1> QED BY <1>1, <1>4, <1>5 DEF I

\* A sum that counts up to n.
LEMMA CountUp ==
    ASSUME NEW n \in Nat, NEW f, \A k \in 1 .. n : f[k] \in Nat,
           NEW sum, sum = CHOOSE g : g = [k \in 0 .. n |-> IF k = 0 THEN 0 ELSE g[k - 1] + f[k]]
    PROVE  sum[n] = Size(1 .. n, f) /\ sum[n] \in Nat
<1> DEFINE step(g) == [k \in 0 .. n |-> IF k = 0 THEN 0 ELSE g[k - 1] + f[k]]
           size == [k \in 0 .. n |-> Size(1 .. k, f)]
<1>1. ASSUME NEW k \in 1 .. n
      PROVE  k - 1 \in 0 .. n /\ Size(1 .. k, f) = Size(1 .. (k - 1), f) + f[k]
  <2>1. k \in Nat /\ k >= 1 /\ \A j \in 1 .. k : f[j] \in Nat
    OBVIOUS
  <2> QED BY <2>1, SizeUp
<1>2. Size(1 .. 0, f) = 0
  BY SizeEmpty
<1>3. size = step(size)
  <2> SUFFICES ASSUME NEW k \in 0 .. n PROVE size[k] = step(size)[k]
    BY Zenon
  <2>1. CASE k = 0
    BY <2>1, <1>2
  <2>2. CASE k # 0
    BY <2>2, <1>1
  <2> QED BY <2>1, <2>2
<1>4. sum = step(sum)
  <2>1. sum = CHOOSE g : g = step(g)
    OBVIOUS
  <2> HIDE DEF step
  <2> QED BY <1>3, <2>1
<1>5. ASSUME NEW k \in 0 .. n PROVE sum[k] = size[k]
  <2> DEFINE Bad == {j \in 0 .. n : sum[j] # size[j]}
  <2> SUFFICES ASSUME Bad # {} PROVE FALSE
    OBVIOUS
  <2>1. PICK m \in Bad : \A j \in Bad : m <= j
    <3>1. Bad \in SUBSET Nat
      OBVIOUS
    <3> HIDE DEF Bad
    <3> QED BY <3>1, LeastOf
  <2>2. sum[0] = size[0]
    <3>1. 0 \in 0 .. n
      OBVIOUS
    <3>2. step(sum)[0] = 0 /\ size[0] = 0
      BY <1>2, <3>1
    <3> HIDE DEF step, size
    <3> QED BY <1>4, <3>2
  <2>3. m # 0 /\ m - 1 \in 0 .. n /\ m - 1 \notin Bad
    BY <2>1, <2>2
  <2>4. sum[m] = sum[m - 1] + f[m] /\ size[m] = size[m - 1] + f[m]
    <3> HIDE DEF size
    <3> QED BY <1>3, <1>4, <2>3
  <2> HIDE DEF size
  <2> QED BY <2>1, <2>3, <2>4
<1>6. IsFiniteSet(1 .. n)
  BY FS_Interval
<1> QED BY <1>5, <1>6, UnitsFinite

-----------------------------------------------------------------------------
(* Sums that take a sequence apart from its head.                          *)

\* The terms of the sequence, from its end.
Backwards(c, s) == [j \in 1 .. Len(s) |-> c[s[Len(s) + 1 - j]]]

\* The first term is the last of the terms backwards.
LEMMA BackwardsFromTail ==
    ASSUME NEW E, NEW c, \A e \in E : c[e] \in Nat, NEW s \in Seq(E), s # <<>>
    PROVE  Size(1 .. Len(s), Backwards(c, s))
              = c[Head(s)] + Size(1 .. Len(Tail(s)), Backwards(c, Tail(s)))
<1> DEFINE n == Len(s)
           f == Backwards(c, s)
           g == Backwards(c, Tail(s))
<1>1. n \in Nat /\ n >= 1 /\ Tail(s) \in Seq(E) /\ Len(Tail(s)) = n - 1 /\ n \in 1 .. n
  OBVIOUS
<1>2. \A j \in 1 .. (n - 1) : Tail(s)[n - j] = s[n + 1 - j]
  BY <1>1
<1>3. \A j \in 1 .. (n - 1) : g[j] = c[Tail(s)[(n - 1) + 1 - j]]
  BY <1>1 DEF Backwards
<1>4. \A j \in 1 .. (n - 1) : (n - 1) + 1 - j = n - j /\ j \in 1 .. n
  BY <1>1
<1>5. \A j \in 1 .. n : f[j] = c[s[n + 1 - j]] /\ f[j] \in Nat
  BY <1>1 DEF Backwards
<1>6. \A j \in 1 .. (n - 1) : g[j] = f[j] /\ f[j] \in Nat
  <2> HIDE DEF f, g
  <2> SUFFICES ASSUME NEW j \in 1 .. (n - 1) PROVE g[j] = f[j] /\ f[j] \in Nat
    OBVIOUS
  <2>1. g[j] = c[Tail(s)[n - j]]
    BY <1>3, <1>4
  <2>2. f[j] = c[s[n + 1 - j]] /\ f[j] \in Nat
    BY <1>4, <1>5
  <2> QED BY <1>2, <2>1, <2>2
<1>7. f[n] = c[Head(s)] /\ f[n] \in Nat
  <2>1. n + 1 - n = 1 /\ Head(s) = s[1]
    BY <1>1
  <2> QED BY <1>1, <1>5, <2>1
<1>8. Size(1 .. (n - 1), g) = Size(1 .. (n - 1), f)
  <2> HIDE DEF f, g
  <2> QED BY <1>6, SizeSame
<1>9. Size(1 .. n, f) = Size(1 .. (n - 1), f) + f[n] /\ Size(1 .. (n - 1), f) \in Nat
  <2>1. \A j \in 1 .. n : f[j] \in Nat
    BY <1>5
  <2> HIDE DEF f, g, n
  <2> QED BY <1>1, <2>1, SizeUp
<1> HIDE DEF f, g, n
<1>10. Size(1 .. n, f) = c[Head(s)] + Size(1 .. (n - 1), g)
  BY <1>7, <1>8, <1>9
<1> QED BY <1>1, <1>10 DEF f, g, n

\* There is a function that takes a sequence apart from its head and adds up.
LEMMA CountSeqExists ==
    ASSUME NEW E, NEW c, \A e \in E : c[e] \in Nat
    PROVE  \E g : g = [s \in Seq(E) |-> IF s = <<>> THEN 0 ELSE c[Head(s)] + g[Tail(s)]]
<1> DEFINE step(g) == [s \in Seq(E) |-> IF s = <<>> THEN 0 ELSE c[Head(s)] + g[Tail(s)]]
           size == [s \in Seq(E) |-> Size(1 .. Len(s), Backwards(c, s))]
<1>1. size = step(size)
  <2> SUFFICES ASSUME NEW s \in Seq(E) PROVE size[s] = step(size)[s]
    BY Zenon
  <2>1. CASE s = <<>>
    <3>1. Len(s) = 0 /\ 1 .. 0 = {}
      BY <2>1
    <3>2. Size(1 .. Len(s), Backwards(c, s)) = 0
      BY <3>1, SizeEmpty
    <3> QED BY <2>1, <3>2
  <2>2. CASE s # <<>>
    <3>1. Tail(s) \in Seq(E)
      BY <2>2
    <3> QED BY <2>2, <3>1, BackwardsFromTail
  <2> QED BY <2>1, <2>2
<1>2. \E g : g = step(g)
  BY <1>1
<1> QED BY <1>2

\* Whatever function does so gives numbers.
LEMMA CountSeq ==
    ASSUME NEW E, NEW c, \A e \in E : c[e] \in Nat,
           NEW sum, sum[<<>>] = 0,
           \A s \in Seq(E) : s # <<>> => sum[s] = c[Head(s)] + sum[Tail(s)]
    PROVE  \A s \in Seq(E) : sum[s] \in Nat
<1> SUFFICES ASSUME NEW s0 \in Seq(E), sum[s0] \notin Nat PROVE FALSE
  OBVIOUS
<1> DEFINE Bad == {Len(s) : s \in {t \in Seq(E) : sum[t] \notin Nat}}
<1>1. PICK m \in Bad : \A j \in Bad : m <= j
  <2>1. Bad \in SUBSET Nat
    OBVIOUS
  <2>2. Len(s0) \in Bad
    OBVIOUS
  <2> HIDE DEF Bad
  <2> QED BY <2>1, <2>2, LeastOf
<1>2. PICK s \in Seq(E) : Len(s) = m /\ sum[s] \notin Nat
  BY <1>1
<1>3. s # <<>>
  BY <1>2
<1>4. Tail(s) \in Seq(E) /\ Len(Tail(s)) = m - 1 /\ m \in Nat /\ Head(s) \in E
  BY <1>2, <1>3
<1>5. sum[Tail(s)] \notin Nat
  BY <1>2, <1>3, <1>4
<1>6. Len(Tail(s)) \in Bad
  BY <1>4, <1>5
<1> HIDE DEF Bad
<1> QED BY <1>1, <1>4, <1>6

\* An element at the end adds as much as one at the head.
LEMMA CountSeqAppend ==
    ASSUME NEW E, NEW c, \A e \in E : c[e] \in Nat,
           NEW sum, sum[<<>>] = 0,
           \A s \in Seq(E) : s # <<>> => sum[s] = c[Head(s)] + sum[Tail(s)],
           \A s \in Seq(E) : sum[s] \in Nat,
           NEW s0 \in Seq(E), NEW e \in E
    PROVE  sum[Append(s0, e)] = sum[s0] + c[e]
<1> SUFFICES ASSUME sum[Append(s0, e)] # sum[s0] + c[e] PROVE FALSE
  OBVIOUS
<1> DEFINE Bad == {Len(s) : s \in {t \in Seq(E) : sum[Append(t, e)] # sum[t] + c[e]}}
<1>1. PICK m \in Bad : \A j \in Bad : m <= j
  <2>1. Bad \in SUBSET Nat
    OBVIOUS
  <2>2. Len(s0) \in Bad
    OBVIOUS
  <2> HIDE DEF Bad
  <2> QED BY <2>1, <2>2, LeastOf
<1>2. PICK s \in Seq(E) : Len(s) = m /\ sum[Append(s, e)] # sum[s] + c[e]
  BY <1>1
<1>3. sum[Append(s, e)] = c[Head(Append(s, e))] + sum[Tail(Append(s, e))]
  <2>1. Append(s, e) \in Seq(E) /\ Append(s, e) # <<>>
    BY AppendProperties
  <2> HIDE DEF Bad
  <2> QED BY <2>1
<1>4. CASE s = <<>>
  <2>1. Head(Append(s, e)) = e /\ Tail(Append(s, e)) = <<>>
    BY <1>4
  <2> QED BY <1>2, <1>3, <1>4, <2>1
<1>5. CASE s # <<>>
  <2>1. Tail(s) \in Seq(E) /\ Len(Tail(s)) = m - 1 /\ m \in Nat /\ Head(s) \in E
    BY <1>2, <1>5
  <2>2. Head(Append(s, e)) = Head(s) /\ Tail(Append(s, e)) = Append(Tail(s), e)
    BY <1>5
  <2>3. sum[Append(Tail(s), e)] = sum[Tail(s)] + c[e]
    <3>1. Len(Tail(s)) \notin Bad
      <4> HIDE DEF Bad
      <4> QED BY <1>1, <2>1
    <3> QED BY <2>1, <3>1
  <2>4. sum[s] = c[Head(s)] + sum[Tail(s)] /\ sum[Tail(s)] \in Nat /\ c[Head(s)] \in Nat /\ c[e] \in Nat
    BY <1>5, <2>1
  <2> HIDE DEF Bad
  <2>5. sum[Append(s, e)] = c[Head(s)] + (sum[Tail(s)] + c[e])
    BY <1>3, <2>2, <2>3
  <2> QED BY ONLY <1>2, <2>4, <2>5
<1> QED BY <1>4, <1>5
=============================================================================
