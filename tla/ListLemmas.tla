----------------------------- MODULE ListLemmas -----------------------------
(***************************************************************************)
(* What a left fold over a sequence computes, for any operator and base,   *)
(* and what InOrder makes of a set of numbers; modules that replay a log   *)
(* by a fold instantiate this one with theirs.  Induction is over the      *)
(* least number of a set, since the induction theorems of the library take *)
(* an operator.                                                            *)
(***************************************************************************)
EXTENDS Integers, Sequences, SequencesExt, Order, FiniteSetTheorems, WellFoundedInduction, TLAPS

CONSTANTS Op(_, _), Origin

Folded(s) == FoldLeft(Op, Origin, s)

-----------------------------------------------------------------------------
(* A set of numbers that is not empty has a least one. *)
LEMMA LeastNumber ==
  ASSUME NEW S \in SUBSET Nat, S # {}
  PROVE  \E n \in S : \A m \in S : n <= m
<1>1. PICK n \in S : \A m \in S : <<m, n>> \notin OpToRel(<, Nat)
  BY NatLessThanWellFounded, WFMin
<1>2. \A m \in S : n <= m
  <2> TAKE m \in S
  <2>1. n \in Nat /\ m \in Nat
    OBVIOUS
  <2>2. ~ (m < n)
    BY <1>1, <2>1 DEF OpToRel
  <2>3. QED
    BY <2>1, <2>2
<1>3. QED
  BY <1>2

(* One that is bounded has a greatest one, and Max finds it, *)
LEMMA MaxFinds ==
  ASSUME NEW N \in Nat, NEW S \in SUBSET (0 .. N), S # {}
  PROVE  Max(S) \in S /\ \A x \in S : Max(S) >= x
<1> DEFINE T == {N - x : x \in S}
<1>1. T \in SUBSET Nat /\ T # {}
  <2>1. \A x \in S : x \in 0 .. N /\ N - x \in Nat
    OBVIOUS
  <2>2. QED
    BY <2>1
<1> HIDE DEF T
<1>2. PICK d \in T : \A e \in T : d <= e
  BY <1>1, LeastNumber
<1> USE DEF T
<1>3. PICK m \in S : d = N - m
  OBVIOUS
<1>4. \A x \in S : m >= x
  <2> TAKE x \in S
  <2>1. x \in Int /\ m \in Int /\ N - x \in T
    OBVIOUS
  <2>2. N - m <= N - x
    BY <1>2, <1>3, <2>1
  <2>3. QED
    BY <2>1, <2>2
<1>5. QED
  BY <1>4 DEF Max

(* as Min finds the least. *)
LEMMA MinFinds ==
  ASSUME NEW S \in SUBSET Nat, S # {}
  PROVE  Min(S) \in S /\ \A x \in S : Min(S) <= x
BY LeastNumber DEF Min

-----------------------------------------------------------------------------
(* The function that a fold over s computes, on the subsets of 1 .. n.     *)
IsFold(g, s, n) ==
  g = [d \in SUBSET (1 .. n) |-> IF d = {} THEN Origin ELSE Op(g[d \ {Max(d)}], s[Max(d)])]

(* The greatest position is the last. *)
LEMMA LastPosition ==
  ASSUME NEW n \in Nat, NEW d \in SUBSET (1 .. (n + 1)), n + 1 \in d
  PROVE  Max(d) = n + 1
<1>1. \A x \in d : x \in Int /\ n + 1 >= x
  OBVIOUS
<1>2. \A x \in d : (\A y \in d : x >= y) => x = n + 1
  <2> TAKE x \in d
  <2>1. x \in Int /\ n + 1 >= x
    BY <1>1
  <2>2. QED
    BY <2>1
<1>3. QED
  BY <1>1, <1>2 DEF Max

(* A fold over one position more extends a fold. *)
LEMMA FoldStep ==
  ASSUME NEW s, NEW n \in Nat, NEW g, IsFold(g, s, n)
  PROVE  \E h : IsFold(h, s, n + 1)
<1> DEFINE h == [d \in SUBSET (1 .. (n + 1)) |->
                   IF n + 1 \in d THEN Op(g[d \ {n + 1}], s[n + 1]) ELSE g[d]]
<1>1. SUFFICES \A d \in SUBSET (1 .. (n + 1)) :
                 h[d] = IF d = {} THEN Origin ELSE Op(h[d \ {Max(d)}], s[Max(d)])
  <2>1. ASSUME \A d \in SUBSET (1 .. (n + 1)) :
                 h[d] = IF d = {} THEN Origin ELSE Op(h[d \ {Max(d)}], s[Max(d)])
        PROVE  IsFold(h, s, n + 1)
    BY <2>1 DEF IsFold
  <2>2. QED
    BY <2>1
<1> TAKE d \in SUBSET (1 .. (n + 1))
<1>2. CASE n + 1 \in d
  <2>1. Max(d) = n + 1
    BY <1>2, LastPosition
  <2>2. d \ {n + 1} \in SUBSET (1 .. (n + 1)) /\ n + 1 \notin d \ {n + 1}
    OBVIOUS
  <2>3. h[d \ {n + 1}] = g[d \ {n + 1}]
    BY <2>2
  <2>4. QED
    BY <1>2, <2>1, <2>3
<1>3. CASE n + 1 \notin d
  <2>1. \A x \in d : x \in 1 .. n
    BY <1>3
  <2>2. d \in SUBSET (1 .. n) /\ d \ {Max(d)} \in SUBSET (1 .. (n + 1)) /\ n + 1 \notin d \ {Max(d)}
    BY <1>3, <2>1
  <2>3. h[d] = g[d] /\ h[d \ {Max(d)}] = g[d \ {Max(d)}]
    BY <1>3, <2>2
  <2>4. g[d] = IF d = {} THEN Origin ELSE Op(g[d \ {Max(d)}], s[Max(d)])
    BY <2>2 DEF IsFold
  <2>5. QED
    BY <2>3, <2>4
<1>4. QED
  BY <1>2, <1>3

(* There is one, *)
LEMMA FoldExists ==
  ASSUME NEW s, NEW n \in Nat
  PROVE  \E g : IsFold(g, s, n)
<1> DEFINE Bad == {m \in Nat : ~ \E g : IsFold(g, s, m)}
<1>1. SUFFICES ASSUME Bad # {} PROVE FALSE
  OBVIOUS
<1> HIDE DEF Bad
<1>2. PICK m \in Bad : \A k \in Bad : m <= k
  <2>1. Bad \in SUBSET Nat
    BY DEF Bad
  <2>2. QED
    BY <1>1, <2>1, LeastNumber
<1>3. m \in Nat /\ ~ \E g : IsFold(g, s, m)
  BY DEF Bad
<1>4. m # 0
  <2> DEFINE g == [d \in SUBSET (1 .. 0) |-> Origin]
  <2>1. IsFold(g, s, 0)
    BY DEF IsFold
  <2>2. QED
    BY <1>3, <2>1
<1>5. m - 1 \in Nat /\ m - 1 \notin Bad /\ (m - 1) + 1 = m
  BY <1>2, <1>3, <1>4
<1>6. PICK g : IsFold(g, s, m - 1)
  BY <1>5 DEF Bad
<1>7. \E h : IsFold(h, s, (m - 1) + 1)
  BY <1>5, <1>6, FoldStep
<1>8. QED
  BY <1>3, <1>5, <1>7

(* which on fewer positions is a fold over these, *)
LEMMA FoldRestricts ==
  ASSUME NEW s, NEW n \in Nat, NEW h, IsFold(h, s, n + 1)
  PROVE  /\ IsFold([d \in SUBSET (1 .. n) |-> h[d]], s, n)
         /\ h[1 .. (n + 1)] = Op(h[1 .. n], s[n + 1])
<1> DEFINE g == [d \in SUBSET (1 .. n) |-> h[d]]
<1>1. IsFold(g, s, n)
  <2>1. SUFFICES ASSUME NEW d \in SUBSET (1 .. n)
                 PROVE  g[d] = IF d = {} THEN Origin ELSE Op(g[d \ {Max(d)}], s[Max(d)])
    BY DEF IsFold
  <2>2. \A x \in 1 .. n : x \in 1 .. (n + 1)
    OBVIOUS
  <2>3. d \in SUBSET (1 .. (n + 1)) /\ d \ {Max(d)} \in SUBSET (1 .. n)
    BY <2>2
  <2>4. h[d] = IF d = {} THEN Origin ELSE Op(h[d \ {Max(d)}], s[Max(d)])
    BY <2>3 DEF IsFold
  <2>5. QED
    BY <2>3, <2>4
<1>2. h[1 .. (n + 1)] = Op(h[1 .. n], s[n + 1])
  <2> DEFINE d == 1 .. (n + 1)
  <2>1. d \in SUBSET (1 .. (n + 1)) /\ n + 1 \in d
    OBVIOUS
  <2>2. Max(d) = n + 1
    BY <2>1, LastPosition
  <2>3. d \ {n + 1} = 1 .. n
    OBVIOUS
  <2>4. h[d] = Op(h[d \ {Max(d)}], s[Max(d)])
    BY <2>1 DEF IsFold
  <2>5. QED
    BY <2>2, <2>3, <2>4
<1>3. QED
  BY <1>1, <1>2

(* and there is only one. *)
LEMMA FoldUnique ==
  ASSUME NEW s, NEW t, NEW n \in Nat, NEW g, NEW h, IsFold(g, s, n), IsFold(h, t, n),
         \A i \in 1 .. n : s[i] = t[i]
  PROVE  g = h
<1> DEFINE S == SUBSET (1 .. n)
           Bad == {m \in 0 .. n : \E d \in S : (\A i \in d : i <= m) /\ g[d] # h[d]}
<1>1. \A d \in S : g[d] = h[d]
  <2> SUFFICES ASSUME Bad # {} PROVE FALSE
    <3>1. \A d \in S : \A i \in d : i <= n
      OBVIOUS
    <3>2. n \in 0 .. n
      OBVIOUS
    <3>3. QED
      BY <3>1, <3>2
  <2>1. PICK m \in Bad : \A k \in Bad : m <= k
    <3>1. Bad \in SUBSET Nat
      OBVIOUS
    <3> HIDE DEF Bad
    <3>2. QED
      BY <3>1, LeastNumber
  <2>2. PICK d \in S : (\A i \in d : i <= m) /\ g[d] # h[d]
    OBVIOUS
  <2>3. d # {}
    BY <2>2 DEF IsFold
  <2>4. Max(d) \in d /\ \A i \in d : Max(d) >= i
    <3>1. d \in SUBSET (0 .. n)
      BY <2>2
    <3>2. QED
      BY <2>3, <3>1, MaxFinds
  <2> DEFINE x == Max(d)
             r == d \ {x}
  <2>5. g[d] = Op(g[r], s[x]) /\ h[d] = Op(h[r], t[x])
    BY <2>3 DEF IsFold
  <2>6. s[x] = t[x]
    BY <2>4
  <2>7. r \in S /\ g[r] # h[r]
    BY <2>2, <2>5, <2>6
  <2>8. x \in 1 .. n /\ x <= m /\ m \in 0 .. n
    BY <2>2, <2>4
  <2>9. \A i \in r : i <= x - 1
    <3> TAKE i \in r
    <3>1. i \in 1 .. n /\ i <= x /\ i # x
      BY <2>4
    <3> HIDE DEF x, r
    <3>2. QED
      BY <2>8, <3>1
  <2> HIDE DEF x, r
  <2>10. x - 1 \in 0 .. n
    BY <2>8
  <2>11. x - 1 \in Bad
    BY <2>7, <2>9, <2>10
  <2>12. m <= x - 1
    BY <2>1, <2>11
  <2>13. QED
    BY <2>8, <2>12
<1>2. /\ g = [d \in S |-> g[d]]
      /\ h = [d \in S |-> h[d]]
  BY DEF IsFold
<1>3. QED
  BY <1>1, <1>2

-----------------------------------------------------------------------------
(* Folding a sequence applies that function to all its positions, *)
LEMMA FoldedBy ==
  ASSUME NEW s, DOMAIN s = 1 .. Len(s), Len(s) \in Nat, NEW g, IsFold(g, s, Len(s))
  PROVE  Folded(s) = g[1 .. Len(s)]
<1> DEFINE f == CHOOSE h : IsFold(h, s, Len(s))
<1>1. IsFold(f, s, Len(s))
  OBVIOUS
<1> HIDE DEF f
<1>2. f = g
  BY <1>1, FoldUnique
<1>3. Folded(s) = f[1 .. Len(s)]
  BY DEF Folded, FoldLeft, MapThenFoldSet, IsFold, f
<1>4. QED
  BY <1>2, <1>3

(* so it starts with the base, *)
LEMMA FoldedEmpty ==
  ASSUME NEW s, s = <<>>
  PROVE  Folded(s) = Origin
<1>1. DOMAIN s = 1 .. Len(s) /\ Len(s) = 0
  OBVIOUS
<1>2. PICK g : IsFold(g, s, 0)
  BY FoldExists
<1>3. Folded(s) = g[1 .. 0]
  BY <1>1, <1>2, FoldedBy
<1>4. g[1 .. 0] = Origin
  BY <1>2 DEF IsFold
<1>5. QED
  BY <1>3, <1>4

(* takes one element after the other, *)
LEMMA FoldedStep ==
  ASSUME NEW n \in Nat,
         NEW s, DOMAIN s = 1 .. n, Len(s) = n,
         NEW t, DOMAIN t = 1 .. (n + 1), Len(t) = n + 1,
         \A i \in 1 .. n : s[i] = t[i]
  PROVE  Folded(t) = Op(Folded(s), t[n + 1])
<1>1. PICK h : IsFold(h, t, n + 1)
  <2>1. n + 1 \in Nat
    OBVIOUS
  <2>2. QED
    BY <2>1, FoldExists
<1> DEFINE g == [d \in SUBSET (1 .. n) |-> h[d]]
<1>2. IsFold(g, t, n) /\ h[1 .. (n + 1)] = Op(h[1 .. n], t[n + 1]) /\ g[1 .. n] = h[1 .. n]
  BY <1>1, FoldRestricts
<1> HIDE DEF g
<1>3. PICK f : IsFold(f, s, n)
  BY FoldExists
<1>4. f = g
  BY <1>2, <1>3, FoldUnique
<1>5. Folded(s) = f[1 .. n] /\ Folded(t) = h[1 .. (n + 1)]
  BY <1>1, <1>3, FoldedBy
<1>6. QED
  BY <1>2, <1>4, <1>5

(* and is the same for the same elements. *)
LEMMA FoldedAppend ==
  ASSUME NEW S, NEW s \in Seq(S), NEW e \in S
  PROVE  Folded(Append(s, e)) = Op(Folded(s), e)
<1> DEFINE t == Append(s, e)
           n == Len(s)
<1>1. /\ n \in Nat /\ DOMAIN s = 1 .. n
      /\ DOMAIN t = 1 .. (n + 1) /\ Len(t) = n + 1 /\ t[n + 1] = e
      /\ \A i \in 1 .. n : s[i] = t[i]
  OBVIOUS
<1> HIDE DEF t, n
<1>2. Folded(t) = Op(Folded(s), t[n + 1])
  BY <1>1, FoldedStep DEF n
<1>3. QED
  BY <1>1, <1>2 DEF t

-----------------------------------------------------------------------------
(* A finite set of numbers can be enumerated in ascending order, *)
Enumerates(o, S) ==
  /\ o \in [1 .. Cardinality(S) -> S]
  /\ \A i, j \in 1 .. Cardinality(S) : i < j => o[i] < o[j]

LEMMA OrderExists ==
  ASSUME NEW S \in SUBSET Nat, IsFiniteSet(S)
  PROVE  \E o : Enumerates(o, S)
<1> DEFINE Bad == {n \in Nat : \E T \in SUBSET Nat : /\ IsFiniteSet(T) /\ Cardinality(T) = n
                                                   /\ ~ \E o : Enumerates(o, T)}
<1>1. SUFFICES ASSUME Bad # {} PROVE FALSE
  BY FS_CardinalityType
<1> HIDE DEF Bad
<1>2. PICK m \in Bad : \A k \in Bad : m <= k
  <2>1. Bad \in SUBSET Nat
    BY DEF Bad
  <2>2. QED
    BY <1>1, <2>1, LeastNumber
<1>3. PICK T \in SUBSET Nat : IsFiniteSet(T) /\ Cardinality(T) = m /\ ~ \E o : Enumerates(o, T)
  BY DEF Bad
<1>4. m \in Nat
  BY DEF Bad
<1>5. T # {}
  <2>1. Enumerates([i \in 1 .. 0 |-> i], {})
    BY FS_EmptySet DEF Enumerates
  <2>2. QED
    BY <1>3, <2>1
<1>6. PICK x \in T : \A y \in T : x <= y
  BY <1>5, LeastNumber
<1> DEFINE R == T \ {x}
<1>7. IsFiniteSet(R) /\ Cardinality(R) = m - 1 /\ R \in SUBSET Nat
  BY <1>3, FS_RemoveElement
<1>8. m - 1 \in Nat
  BY <1>7, FS_CardinalityType
<1>9. m - 1 \notin Bad
  BY <1>2, <1>4
<1>10. PICK b : Enumerates(b, R)
  BY <1>7, <1>8, <1>9 DEF Bad
<1>11. b \in [1 .. m - 1 -> R] /\ \A i, j \in 1 .. m - 1 : i < j => b[i] < b[j]
  BY <1>7, <1>10 DEF Enumerates
<1>12. \A y \in R : y \in T /\ y \in Nat /\ x \in Nat /\ x < y
  BY <1>6
<1> HIDE DEF R
<1> DEFINE a == [i \in 1 .. m |-> IF i = 1 THEN x ELSE b[i - 1]]
<1>13. \A i \in 2 .. m : i - 1 \in 1 .. m - 1 /\ b[i - 1] \in R /\ a[i] = b[i - 1]
  <2> TAKE i \in 2 .. m
  <2>1. i \in Int /\ 2 <= i /\ i <= m
    BY <1>4
  <2>2. i - 1 \in 1 .. m - 1 /\ i \in 1 .. m /\ i # 1
    BY <1>4, <2>1
  <2>3. QED
    BY <1>11, <2>2
<1>14. a \in [1 .. m -> T]
  <2>1. ASSUME NEW i \in 1 .. m PROVE a[i] \in T
    <3>1. i = 1 \/ i \in 2 .. m
      BY <1>4
    <3>2. x \in T
      BY <1>6
    <3>3. i = 1 => a[i] = x
      OBVIOUS
    <3> HIDE DEF a
    <3>4. QED
      BY <1>12, <1>13, <3>1, <3>2, <3>3
  <2>2. QED
    BY <2>1
<1>15. ASSUME NEW i \in 1 .. m, NEW j \in 1 .. m, i < j PROVE a[i] < a[j]
  <2>1. j \in 2 .. m /\ a[j] = b[j - 1] /\ a[j] \in R
    <3>1. j \in 2 .. m
      BY <1>4, <1>15
    <3> HIDE DEF a
    <3>2. QED
      BY <1>13, <3>1
  <2>2. CASE i = 1
    BY <1>12, <2>1, <2>2
  <2>3. CASE i # 1
    <3>0. i \in 2 .. m
      BY <1>4, <2>3
    <3> HIDE DEF a
    <3>1. a[i] = b[i - 1] /\ i - 1 \in 1 .. m - 1 /\ j - 1 \in 1 .. m - 1
      BY <1>13, <2>1, <3>0
    <3>2. i - 1 < j - 1
      BY <1>4, <1>15
    <3>3. QED
      BY <1>11, <2>1, <3>1, <3>2
  <2>4. QED
    BY <2>2, <2>3
<1> HIDE DEF a
<1>16. Enumerates(a, T)
  BY <1>3, <1>14, <1>15 DEF Enumerates
<1>17. QED
  BY <1>3, <1>16

(* What ascends never comes back. *)
LEMMA Ascending ==
  ASSUME NEW N \in Nat, NEW f, \A i \in 1 .. N : f[i] \in Int,
         \A i, j \in 1 .. N : i < j => f[i] < f[j]
  PROVE  \A i, j \in 1 .. N : f[i] = f[j] => i = j
<1> TAKE i, j \in 1 .. N
<1>1. /\ i \in Int /\ j \in Int /\ f[i] \in Int /\ f[j] \in Int
      /\ i < j => f[i] < f[j]
      /\ j < i => f[j] < f[i]
  OBVIOUS
<1>2. QED
  BY <1>1

(* InOrder finds the one ascending enumeration. *)
LEMMA InOrderIs ==
  ASSUME NEW N \in Nat, NEW a \in [1 .. N -> Nat],
         \A i, j \in 1 .. N : i < j => a[i] < a[j],
         NEW S, S = {a[i] : i \in 1 .. N}
  PROVE  Cardinality(S) = N /\ InOrder(S) = a
<1> DEFINE I == 1 .. N
<1>1. IsFiniteSet(I) /\ Cardinality(I) = N
  <2>1. \A x, y \in Int : /\ IsFiniteSet(x .. y)
                          /\ Cardinality(x .. y) = IF x > y THEN 0 ELSE y - x + 1
    BY FS_Interval
  <2>2. 1 \in Int /\ N \in Int
    OBVIOUS
  <2>3. IsFiniteSet(1 .. N) /\ Cardinality(1 .. N) = IF 1 > N THEN 0 ELSE N - 1 + 1
    BY <2>1, <2>2
  <2>4. QED
    BY <2>3
<1>2. \A i, j \in I : (a[i] = a[j] => i = j) /\ i \in Int /\ a[i] \in Int
  <2>1. \A i \in 1 .. N : a[i] \in Int
    OBVIOUS
  <2>2. QED
    BY <2>1, Ascending
<1>3. a \in [I -> S] /\ \A x \in S : \E i \in I : a[i] = x
  OBVIOUS
<1>4. ASSUME NEW f \in [I -> S], \A i, j \in I : i < j => f[i] < f[j]
      PROVE  \A i, j \in I : f[i] = f[j] => i = j
  <2>1. \A x \in S : x \in Int
    BY <1>2, <1>3
  <2>2. \A i \in 1 .. N : f[i] \in Int
    BY <1>4, <2>1
  <2>3. QED
    BY <1>4, <2>2, Ascending
<1>5. IsFiniteSet(S) /\ Cardinality(S) = N
  <2>1. a \in Bijection(I, S)
    BY <1>2, <1>3 DEF Bijection, Injection, Surjection, IsInjective
  <2>2. ExistsBijection(I, S)
    BY <2>1 DEF ExistsBijection
  <2>3. QED
    BY <1>1, <2>2, FS_Bijection
<1> DEFINE o == CHOOSE f \in [I -> S] : \A i, j \in I : i < j => f[i] < f[j]
<1>6. o \in [I -> S] /\ \A i, j \in I : i < j => o[i] < o[j]
  <2>1. a \in [I -> S] /\ \A i, j \in I : i < j => a[i] < a[j]
    BY <1>3
  <2>2. QED
    BY <2>1
<1>7. InOrder(S) = o
  BY <1>5 DEF InOrder
<1> HIDE DEF o
<1>8. \A x \in S : \E i \in I : o[i] = x
  <2>1. \A i, j \in I : o[i] = o[j] => i = j
    BY <1>4, <1>6
  <2>2. o \in Injection(I, S)
    BY <1>6, <2>1 DEF Injection, IsInjective
  <2>3. o \in Surjection(I, S)
    BY <1>1, <1>5, <2>2, FS_Injection
  <2>4. QED
    BY <2>3 DEF Surjection
<1>9. \A i \in I : o[i] = a[i]
  <2> DEFINE D == {i \in I : o[i] # a[i]}
  <2> SUFFICES ASSUME D # {} PROVE FALSE
    OBVIOUS
  <2>1. D \in SUBSET Nat
    OBVIOUS
  <2> HIDE DEF D
  <2>2. PICK i \in D : \A j \in D : i <= j
    BY <2>1, LeastNumber
  <2>3. i \in I /\ o[i] # a[i] /\ i \in Int
    BY <2>2 DEF D
  <2>4. \A j \in I : j < i => o[j] = a[j]
    <3> SUFFICES ASSUME NEW j \in I, j < i, o[j] # a[j] PROVE FALSE
      OBVIOUS
    <3>1. j \in D /\ j \in Int
      BY DEF D
    <3>2. QED
      BY <2>2, <2>3, <3>1
  <2>5. PICK j \in I : o[i] = a[j]
    BY <1>6, <2>3
  <2>6. PICK h \in I : a[i] = o[h]
    BY <1>3, <1>8, <2>3
  <2>7. /\ j \in Int /\ h \in Int /\ a[i] \in Int /\ a[j] \in Int /\ a[h] \in Int
        /\ o[i] \in Int /\ o[h] \in Int /\ o[j] \in Int
    <3>1. \A x \in S : x \in Int
      BY <1>2, <1>3
    <3>2. QED
      BY <1>2, <1>6, <2>3, <3>1
  <2>8. ~ (j < i)
    <3>1. j < i => o[j] = a[j] /\ o[j] < o[i]
      BY <1>6, <2>3, <2>4
    <3>2. QED
      BY <2>5, <2>7, <3>1
  <2>9. ~ (h < i)
    <3>1. h < i => o[h] = a[h] /\ a[h] < a[i]
      BY <2>3, <2>4
    <3>2. QED
      BY <2>6, <2>7, <3>1
  <2>10. i < j /\ i < h
    BY <2>3, <2>5, <2>6, <2>7, <2>8, <2>9
  <2>11. a[i] < a[j] /\ o[i] < o[h]
    BY <1>6, <2>3, <2>10
  <2>12. QED
    BY <2>5, <2>6, <2>7, <2>11
<1>10. o = a
  BY <1>3, <1>6, <1>9
<1>11. QED
  BY <1>5, <1>7, <1>10

(* This is what InOrder does: it leaves none out. *)
LEMMA InOrderFinds ==
  ASSUME NEW S \in SUBSET Nat, IsFiniteSet(S)
  PROVE  /\ Cardinality(S) \in Nat
         /\ InOrder(S) \in [1 .. Cardinality(S) -> S]
         /\ \A i, j \in 1 .. Cardinality(S) : i < j => InOrder(S)[i] < InOrder(S)[j]
         /\ \A x \in S : \E i \in 1 .. Cardinality(S) : InOrder(S)[i] = x
<1> DEFINE o == InOrder(S)
           I == 1 .. Cardinality(S)
<1>1. Cardinality(S) \in Nat
  BY FS_CardinalityType
<1>2. o \in [I -> S] /\ \A i, j \in I : i < j => o[i] < o[j]
  BY OrderExists DEF InOrder, Enumerates
<1> HIDE DEF o
<1>3. IsFiniteSet(I) /\ Cardinality(I) = Cardinality(S)
  <2>1. \A x, y \in Int : /\ IsFiniteSet(x .. y)
                          /\ Cardinality(x .. y) = IF x > y THEN 0 ELSE y - x + 1
    BY FS_Interval
  <2>2. 1 \in Int /\ Cardinality(S) \in Int
    BY <1>1
  <2>3. IsFiniteSet(I) /\ Cardinality(I) = IF 1 > Cardinality(S) THEN 0 ELSE Cardinality(S) - 1 + 1
    BY <2>1, <2>2
  <2>4. QED
    BY <1>1, <2>3
<1>4. \A i, j \in I : o[i] = o[j] => i = j
  <2>1. \A x \in S : x \in Int
    OBVIOUS
  <2>2. \A i \in I : o[i] \in Int
    BY <1>2, <2>1
  <2>3. QED
    BY <1>1, <1>2, <2>2, Ascending
<1>5. o \in Injection(I, S)
  BY <1>2, <1>4 DEF Injection, IsInjective
<1>6. o \in Surjection(I, S)
  BY <1>3, <1>5, FS_Injection
<1>7. QED
  BY <1>1, <1>2, <1>6 DEF Surjection, o

(* It makes a sequence, *)
LEMMA InOrderList ==
  ASSUME NEW S \in SUBSET Nat, IsFiniteSet(S)
  PROVE  /\ InOrder(S) \in Seq(S) /\ InOrder(S) \in Seq(Nat)
         /\ Len(InOrder(S)) = Cardinality(S)
         /\ Cardinality(S) \in Nat
         /\ S = {} <=> InOrder(S) = <<>>
<1> DEFINE o == InOrder(S)
           n == Cardinality(S)
<1>1. n \in Nat /\ o \in [1 .. n -> S] /\ \A x \in S : \E i \in 1 .. n : o[i] = x
  BY InOrderFinds
<1> HIDE DEF o, n
<1>2. o \in [1 .. n -> Nat]
  BY <1>1
<1>3. o \in Seq(S) /\ o \in Seq(Nat) /\ Len(o) = n
  BY <1>1, <1>2
<1>4. S = {} => o = <<>>
  <2>1. S = {} => n = 0
    BY FS_EmptySet DEF n
  <2>2. QED
    BY <1>3, <2>1
<1>5. o = <<>> => S = {}
  BY <1>1, <1>3
<1>6. QED
  BY <1>1, <1>3, <1>4, <1>5 DEF o, n

(* that ends with the greatest number; *)
LEMMA InOrderEnds ==
  ASSUME NEW S \in SUBSET Nat, IsFiniteSet(S), S # {}
  PROVE  /\ Max(S) \in S /\ \A x \in S : x <= Max(S)
         /\ InOrder(S)[Len(InOrder(S))] = Max(S)
<1> DEFINE o == InOrder(S)
           n == Cardinality(S)
<1>1. /\ n \in Nat /\ o \in [1 .. n -> S] /\ Len(o) = n
      /\ \A i, j \in 1 .. n : i < j => o[i] < o[j]
      /\ \A x \in S : \E i \in 1 .. n : o[i] = x
  BY InOrderFinds, InOrderList
<1> HIDE DEF o, n
<1>2. n \in 1 .. n /\ o[n] \in S
  <2>1. \E i \in 1 .. n : TRUE
    BY <1>1
  <2>2. n \in 1 .. n
    BY <1>1, <2>1
  <2>3. QED
    BY <1>1, <2>2
<1>3. \A x \in S : x <= o[n] /\ x \in Nat
  <2> TAKE x \in S
  <2>1. PICK i \in 1 .. n : o[i] = x
    BY <1>1
  <2>2. i \in Nat /\ i <= n /\ x \in Nat
    BY <1>1
  <2>3. i = n \/ i < n
    BY <1>1, <2>2
  <2>4. i < n => x < o[n]
    BY <1>1, <1>2, <2>1
  <2>5. o[n] \in Nat
    BY <1>2
  <2>6. QED
    BY <2>1, <2>2, <2>3, <2>4, <2>5
<1>4. Max(S) \in S /\ \A x \in S : Max(S) >= x
  BY <1>2, <1>3 DEF Max
<1>5. Max(S) = o[n]
  <2>1. Max(S) >= o[n] /\ Max(S) <= o[n]
    BY <1>2, <1>3, <1>4
  <2>2. Max(S) \in Int /\ o[n] \in Int
    <3>1. \A x \in S : x \in Int
      OBVIOUS
    <3>2. QED
      BY <1>2, <1>4, <3>1
  <2>3. QED
    BY <2>1, <2>2
<1>6. QED
  BY <1>1, <1>2, <1>3, <1>5 DEF o

(* and that of numbers that are all greater continues it. *)
LEMMA InOrderJoins ==
  ASSUME NEW S \in SUBSET Nat, NEW T \in SUBSET Nat, IsFiniteSet(S), IsFiniteSet(T),
         \A x \in S, y \in T : x < y
  PROVE  InOrder(S \cup T) = InOrder(S) \o InOrder(T)
<1> DEFINE o == InOrder(S)
           p == InOrder(T)
           m == Cardinality(S)
           n == Cardinality(T)
           a == o \o p
<1>1. /\ m \in Nat /\ o \in [1 .. m -> S] /\ Len(o) = m /\ o \in Seq(Nat)
      /\ \A i, j \in 1 .. m : i < j => o[i] < o[j]
      /\ \A x \in S : \E i \in 1 .. m : o[i] = x
  BY InOrderFinds, InOrderList
<1>2. /\ n \in Nat /\ p \in [1 .. n -> T] /\ Len(p) = n /\ p \in Seq(Nat)
      /\ \A i, j \in 1 .. n : i < j => p[i] < p[j]
      /\ \A x \in T : \E i \in 1 .. n : p[i] = x
  BY InOrderFinds, InOrderList
<1> HIDE DEF o, p, m, n
<1>3. a \in Seq(Nat) /\ Len(a) = m + n /\ m + n \in Nat /\ a \in [1 .. m + n -> Nat]
  <2>1. o \in Seq(Nat) /\ p \in Seq(Nat) /\ Len(o) = m /\ Len(p) = n
    BY <1>1, <1>2
  <2>2. a \in Seq(Nat) /\ Len(a) = Len(o) + Len(p)
    BY <2>1
  <2>3. m \in Nat /\ n \in Nat
    BY <1>1, <1>2
  <2> HIDE DEF a
  <2>4. QED
    BY <2>1, <2>2, <2>3
<1>4. \A i \in 1 .. m : i \in 1 .. m + n /\ a[i] = o[i]
  BY <1>1, <1>2
<1>5. \A i \in 1 .. n : m + i \in 1 .. m + n /\ a[m + i] = p[i]
  BY <1>1, <1>2
<1>6. \A i \in 1 .. m + n : i \in 1 .. m \/ (i - m \in 1 .. n /\ a[i] = p[i - m] /\ m < i)
  <2> TAKE i \in 1 .. m + n
  <2>1. i \in 1 .. m \/ (i - m \in 1 .. n /\ m < i)
    BY <1>1, <1>2
  <2>2. i - m \in 1 .. n => m + (i - m) = i
    BY <1>1, <1>2
  <2>3. i - m \in 1 .. n => a[m + (i - m)] = p[i - m]
    BY <1>5
  <2> HIDE DEF a
  <2>4. QED
    BY <2>1, <2>2, <2>3
<1> HIDE DEF a
<1>7. ASSUME NEW i \in 1 .. m + n, NEW j \in 1 .. m + n, i < j PROVE a[i] < a[j]
  <2>1. CASE i \in 1 .. m /\ j \in 1 .. m
    BY <1>1, <1>4, <1>7, <2>1
  <2>2. CASE i \in 1 .. m /\ ~ (j \in 1 .. m)
    <3>1. a[i] = o[i] /\ o[i] \in S /\ a[j] = p[j - m] /\ p[j - m] \in T
      BY <1>1, <1>2, <1>4, <1>6, <2>2
    <3>2. QED
      BY <3>1
  <2>3. CASE ~ (i \in 1 .. m)
    <3>1. m < i /\ i - m \in 1 .. n /\ a[i] = p[i - m]
      BY <1>6, <2>3
    <3>2. ~ (j \in 1 .. m) /\ i - m < j - m
      BY <1>1, <1>2, <1>7, <3>1
    <3>3. j - m \in 1 .. n /\ a[j] = p[j - m]
      BY <1>6, <3>2
    <3>4. QED
      BY <1>2, <3>1, <3>2, <3>3
  <2>4. QED
    BY <2>1, <2>2, <2>3
<1>8. S \cup T = {a[i] : i \in 1 .. m + n}
  <2>1. ASSUME NEW i \in 1 .. m + n PROVE a[i] \in S \cup T
    BY <1>1, <1>2, <1>4, <1>6
  <2>2. ASSUME NEW x \in S \cup T PROVE \E i \in 1 .. m + n : a[i] = x
    <3>1. CASE x \in S
      BY <1>1, <1>4, <3>1
    <3>2. CASE x \in T
      BY <1>2, <1>5, <3>2
    <3>3. QED
      BY <3>1, <3>2
  <2>3. QED
    BY <2>1, <2>2
<1>9. InOrder(S \cup T) = a
  BY <1>3, <1>7, <1>8, InOrderIs
<1>10. QED
  BY <1>9 DEF a, o, p
=============================================================================
