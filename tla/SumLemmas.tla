------------------------------ MODULE SumLemmas ------------------------------
(***************************************************************************)
(* What sums, quotients and folds over finite sets come to.  The folds of  *)
(* the community modules are recursive functions over the subsets of their *)
(* argument: what holds of each of them is proved by the smallest subset   *)
(* for which it would fail.                                                *)
(***************************************************************************)
EXTENDS Integers, FiniteSetsExt, Functions, FiniteSetTheorems, WellFoundedInduction, TLAPS

\* A number nothing lies below is the least.
LEMMA LeastInOrder ==
    ASSUME NEW R, NEW T \in SUBSET Nat,
           \A m, n \in Nat : n < m => <<n, m>> \in R,
           \E m \in T : \A n \in T : <<n, m>> \notin R
    PROVE  \E m \in T : \A n \in T : m <= n
<1>1. PICK m \in T : \A n \in T : <<n, m>> \notin R
  OBVIOUS
<1>2. ASSUME NEW n \in T PROVE m <= n
  <2>1. m \in Nat /\ n \in Nat
    OBVIOUS
  <2>2. ~(n < m)
    BY <1>1, <2>1
  <2> QED BY <2>1, <2>2
<1> QED BY <1>2

\* Every non-empty set of numbers has a least one.
LEMMA LeastNumber ==
    ASSUME NEW T \in SUBSET Nat, T # {}
    PROVE  \E m \in T : \A n \in T : m <= n
<1> DEFINE R == OpToRel(<, Nat)
<1>1. \E m \in T : \A n \in T : <<n, m>> \notin R
  BY NatLessThanWellFounded, WFMin
<1>2. \A m, n \in Nat : n < m => <<n, m>> \in R
  BY DEF OpToRel
<1> HIDE DEF R
<1> QED BY <1>1, <1>2, LeastInOrder, Zenon

\* The last of some numbers up to an end, where there is one.
LEMMA LastDay ==
    ASSUME NEW T \in SUBSET Nat, NEW end \in Nat, \E day \in T : day <= end
    PROVE  \E day \in T : day <= end /\ \A other \in T : other <= end => other <= day
<1> DEFINE gaps == {n \in Nat : end - n \in T}
<1>1. gaps \in SUBSET Nat /\ gaps # {}
  <2>1. PICK day \in T : day <= end
    OBVIOUS
  <2>2. end - day \in Nat /\ end - (end - day) = day
    BY <2>1
  <2> QED BY <2>2
<1>2. PICK gap \in gaps : \A other \in gaps : gap <= other
  BY <1>1, LeastNumber
<1>3. gap \in Nat /\ end - gap \in T /\ end - gap <= end
  OBVIOUS
<1>4. ASSUME NEW other \in T, other <= end PROVE other <= end - gap
  <2>1. end - other \in Nat /\ end - (end - other) = other
    BY <1>4
  <2>2. gap <= end - other
    BY <1>2, <2>1
  <2> QED BY <1>3, <2>1, <2>2
<1> QED BY <1>3, <1>4

\* The least and the greatest of some numbers are among them.
LEMMA MinIs ==
    ASSUME NEW T \in SUBSET Nat, T # {}
    PROVE  Min(T) \in T /\ \A x \in T : Min(T) <= x
<1>1. \E m \in T : \A n \in T : m <= n
  BY LeastNumber
<1> QED BY <1>1 DEF Min

LEMMA MaxIs ==
    ASSUME NEW end \in Nat, NEW T \in SUBSET (0..end), T # {}
    PROVE  Max(T) \in T /\ \A x \in T : x <= Max(T)
<1>1. T \in SUBSET Nat /\ \A x \in T : x <= end
  OBVIOUS
<1>2. \E m \in T : m <= end /\ \A n \in T : n <= end => n <= m
  <2>1. \E x \in T : x <= end
    BY <1>1
  <2> QED BY <1>1, <2>1, LastDay
<1>3. \E m \in T : \A n \in T : m >= n
  BY <1>2
<1> QED BY <1>3 DEF Max

\* The units an argument, and a set of arguments, contribute to a sum; a negative
\* argument contributes none, and as many to the sum of the opposites.
Unit(f, x) == {x} \X (1..f[x])
Units(f, S) == UNION {Unit(f, x) : x \in S}
Opposite(f) == [x \in DOMAIN f |-> -f[x]]
Net(f, S) == Cardinality(Units(f, S)) - Cardinality(Units(Opposite(f), S))

\* The units of a finite set are finite.
LEMMA UnitsType ==
    ASSUME NEW D, IsFiniteSet(D), NEW f \in [D -> Int], NEW S \in SUBSET D
    PROVE  IsFiniteSet(Units(f, S)) /\ Cardinality(Units(f, S)) \in Nat
<1> DEFINE Us == {Unit(f, x) : x \in S}
<1>1. IsFiniteSet(S)
  BY FS_Subset
<1>2. IsFiniteSet(Us)
  <2> DEFINE u == [x \in S |-> Unit(f, x)]
  <2>1. u \in Surjection(S, Us)
    BY DEF Surjection
  <2> QED BY <1>1, <2>1, FS_Surjection
<1>3. ASSUME NEW U \in Us PROVE IsFiniteSet(U)
  <2>1. PICK x \in S : U = Unit(f, x)
    OBVIOUS
  <2>2. IsFiniteSet({x})
    BY FS_Singleton
  <2>3. IsFiniteSet(1..f[x])
    <3>1. f[x] \in Int
      OBVIOUS
    <3> QED BY <3>1, FS_Interval
  <2> QED BY <2>1, <2>2, <2>3, FS_Product DEF Unit
<1> QED BY <1>2, <1>3, FS_UNION, FS_CardinalityType DEF Units

\* One argument more adds its own units.
LEMMA UnitsAdd ==
    ASSUME NEW D, IsFiniteSet(D), NEW f \in [D -> Int], NEW S \in SUBSET D,
           NEW x \in S
    PROVE  Cardinality(Units(f, S))
                = (IF f[x] > 0 THEN f[x] ELSE 0) + Cardinality(Units(f, S \ {x}))
<1>1. Units(f, S) = Unit(f, x) \cup Units(f, S \ {x})
  BY DEF Units
<1>2. Unit(f, x) \cap Units(f, S \ {x}) = {}
  BY DEF Units, Unit
<1>3. IsFiniteSet(Units(f, S \ {x})) /\ Cardinality(Units(f, S \ {x})) \in Nat
  BY UnitsType
<1>4. IsFiniteSet(Unit(f, x)) /\ Cardinality(Unit(f, x)) = IF f[x] > 0 THEN f[x] ELSE 0
  <2>1. f[x] \in Int
    OBVIOUS
  <2>2. IsFiniteSet({x}) /\ Cardinality({x}) = 1
    BY FS_Singleton
  <2>3. /\ IsFiniteSet(1..f[x])
        /\ Cardinality(1..f[x]) = IF f[x] > 0 THEN f[x] ELSE 0
    <3>1. Cardinality(1..f[x]) = IF 1 > f[x] THEN 0 ELSE f[x] - 1 + 1
      BY <2>1, FS_Interval
    <3> QED BY <2>1, <3>1, FS_Interval
  <2>4. IsFiniteSet(Unit(f, x)) /\ Cardinality(Unit(f, x)) = Cardinality({x}) * Cardinality(1..f[x])
    BY <2>2, <2>3, FS_Product DEF Unit
  <2> QED BY <2>1, <2>2, <2>3, <2>4
<1>5. Cardinality({}) = 0
  BY FS_EmptySet
<1>6. Cardinality(Unit(f, x) \cup Units(f, S \ {x}))
        = Cardinality(Unit(f, x)) + Cardinality(Units(f, S \ {x})) - Cardinality({})
  BY <1>2, <1>3, <1>4, FS_Union
<1>7. f[x] \in Int
  OBVIOUS
<1> QED BY <1>1, <1>3, <1>4, <1>5, <1>6, <1>7

\* One argument more adds its value.
LEMMA NetAdds ==
    ASSUME NEW D, IsFiniteSet(D), NEW f \in [D -> Int], NEW S \in SUBSET D,
           NEW x \in S
    PROVE  Net(f, S) \in Int /\ Net(f, S) = f[x] + Net(f, S \ {x})
<1>1. Opposite(f) \in [D -> Int] /\ Opposite(f)[x] = -f[x] /\ f[x] \in Int
  BY DEF Opposite
<1>2. /\ Cardinality(Units(f, S)) \in Nat /\ Cardinality(Units(f, S \ {x})) \in Nat
      /\ Cardinality(Units(f, S))
            = (IF f[x] > 0 THEN f[x] ELSE 0) + Cardinality(Units(f, S \ {x}))
  BY UnitsType, UnitsAdd
<1>3. /\ Cardinality(Units(Opposite(f), S)) \in Nat
      /\ Cardinality(Units(Opposite(f), S \ {x})) \in Nat
      /\ Cardinality(Units(Opposite(f), S))
            = (IF -f[x] > 0 THEN -f[x] ELSE 0) + Cardinality(Units(Opposite(f), S \ {x}))
  BY <1>1, UnitsType, UnitsAdd
<1> QED BY <1>1, <1>2, <1>3 DEF Net

\* Nothing adds nothing.
LEMMA NetOfNothing == ASSUME NEW f PROVE Net(f, {}) = 0
<1>1. Units(f, {}) = {} /\ Units(Opposite(f), {}) = {}
  BY DEF Units
<1> QED BY <1>1, FS_EmptySet DEF Net

\* The fold that sums a function counts its units: the least set of arguments for
\* which it would not cannot exist.
LEMMA SumCounts ==
    ASSUME NEW D, IsFiniteSet(D), NEW f \in [D -> Int]
    PROVE  SumFunction(f) = Net(f, D)
<1> DEFINE pick(S) == CHOOSE x \in S : TRUE
           body(S, h) == IF S = {} THEN 0 ELSE f[pick(S)] + h[S \ {pick(S)}]
           g == [S \in SUBSET D |-> Net(f, S)]
<1>1. SumFunction(f) = (CHOOSE h : h = [S \in SUBSET D |-> body(S, h)])[D]
  BY DEF SumFunction, SumFunctionOnSet, FoldFunctionOnSet, MapThenFoldSet
<1>2. \A S \in SUBSET D : S # {} => pick(S) \in S
  OBVIOUS
<1> HIDE DEF pick
<1>3. ASSUME NEW S \in SUBSET D
      PROVE  g[S] = body(S, g)
  <2>1. CASE S = {}
    BY <2>1, NetOfNothing
  <2>2. CASE S # {}
    BY <2>2, <1>2, NetAdds
  <2> QED BY <2>1, <2>2
<1>4. g = [S \in SUBSET D |-> body(S, g)]
  BY <1>3
<1>5. ASSUME NEW h, h = [S \in SUBSET D |-> body(S, h)]
      PROVE  h[D] = g[D]
  <2> DEFINE Bad == {S \in SUBSET D : h[S] # g[S]}
             Sizes == {Cardinality(S) : S \in Bad}
  <2> SUFFICES ASSUME Bad # {} PROVE FALSE
    OBVIOUS
  <2>1. \A S \in SUBSET D : IsFiniteSet(S) /\ Cardinality(S) \in Nat
    BY FS_Subset, FS_CardinalityType
  <2>2. Sizes \in SUBSET Nat /\ Sizes # {}
    BY <2>1
  <2>3. PICK m \in Sizes : \A n \in Sizes : m <= n
    BY <2>2, LeastNumber
  <2>4. PICK S \in Bad : Cardinality(S) = m
    OBVIOUS
  <2>5. h[S] = body(S, h)
    BY <1>5
  <2>6. S # {}
    BY <1>3, <2>5
  <2>7. pick(S) \in S
    BY <2>6, <1>2
  <2>8. Cardinality(S \ {pick(S)}) = Cardinality(S) - 1
    BY <2>1, <2>7, FS_RemoveElement
  <2>9. S \ {pick(S)} \notin Bad
    <3>1. Cardinality(S \ {pick(S)}) < m
      BY <2>1, <2>4, <2>8
    <3>2. m \in Nat /\ Cardinality(S \ {pick(S)}) \in Nat
      BY <2>1, <2>2
    <3> HIDE DEF Sizes
    <3>3. Cardinality(S \ {pick(S)}) \notin Sizes
      BY <2>3, <3>1, <3>2
    <3> USE DEF Sizes
    <3> QED BY <3>3
  <2>10. h[S \ {pick(S)}] = g[S \ {pick(S)}]
    BY <2>9
  <2> QED BY <2>5, <2>6, <2>10, <1>3
<1> HIDE DEF g, body
<1>6. SumFunction(f) = g[D]
  BY <1>1, <1>4, <1>5
<1> QED BY <1>6 DEF g

\* A sum of integers is one, and of naturals too.
LEMMA SumIsInt ==
    ASSUME NEW D, IsFiniteSet(D), NEW f \in [D -> Int]
    PROVE  SumFunction(f) \in Int
<1>1. Opposite(f) \in [D -> Int]
  BY DEF Opposite
<1>2. Cardinality(Units(f, D)) \in Nat /\ Cardinality(Units(Opposite(f), D)) \in Nat
  BY <1>1, UnitsType
<1> QED BY <1>2, SumCounts DEF Net

LEMMA SumType ==
    ASSUME NEW D, IsFiniteSet(D), NEW f \in [D -> Nat]
    PROVE  SumFunction(f) \in Nat
<1>1. f \in [D -> Int] /\ Opposite(f) \in [D -> Int]
  BY DEF Opposite
<1>2. Units(Opposite(f), D) = {}
  <2>1. \A x \in D : Opposite(f)[x] \in Int /\ Opposite(f)[x] <= 0
    BY DEF Opposite
  <2>2. \A x \in D : 1..Opposite(f)[x] = {}
    BY <2>1
  <2> QED BY <2>2 DEF Units, Unit
<1>3. SumFunction(f) = Cardinality(Units(f, D)) - 0
  BY <1>1, <1>2, SumCounts, FS_EmptySet DEF Net
<1>4. Cardinality(Units(f, D)) \in Nat
  BY <1>1, UnitsType
<1> QED BY <1>3, <1>4

\* The sum over nothing is zero.
LEMMA SumEmpty ==
    ASSUME NEW f \in [{} -> Nat]
    PROVE  SumFunction(f) = 0
<1>1. f \in [{} -> Int]
  OBVIOUS
<1>2. SumFunction(f) = Net(f, {})
  BY <1>1, FS_EmptySet, SumCounts
<1> QED BY <1>2, NetOfNothing

\* A sum is one of its terms and the sum of the others.
LEMMA SumSplits ==
    ASSUME NEW D, NEW f, NEW g, NEW x, IsFiniteSet(D), x \in D,
           f \in [D -> Int], g \in [D \ {x} -> Int],
           \A y \in D \ {x} : g[y] = f[y]
    PROVE  SumFunction(f) = f[x] + SumFunction(g)
<1>1. Net(g, D \ {x}) = Net(f, D \ {x})
  <2>1. Units(g, D \ {x}) = Units(f, D \ {x})
    BY DEF Units, Unit
  <2>2. \A y \in D \ {x} : Opposite(g)[y] = Opposite(f)[y]
    BY DEF Opposite
  <2>3. Units(Opposite(g), D \ {x}) = Units(Opposite(f), D \ {x})
    BY <2>2 DEF Units, Unit
  <2> QED BY <2>1, <2>3 DEF Net
<1>2. IsFiniteSet(D \ {x})
  BY FS_RemoveElement
<1>3. SumFunction(g) = Net(f, D \ {x})
  BY <1>1, <1>2, SumCounts
<1> QED BY <1>3, SumCounts, NetAdds

LEMMA SumWithout ==
    ASSUME NEW D, NEW f, NEW g, NEW x, IsFiniteSet(D), x \in D,
           f \in [D -> Nat], g \in [D \ {x} -> Nat],
           \A y \in D \ {x} : g[y] = f[y]
    PROVE  SumFunction(f) = f[x] + SumFunction(g)
<1>1. f \in [D -> Int] /\ g \in [D \ {x} -> Int]
  OBVIOUS
<1> QED BY <1>1, SumSplits

----------------------------------------------------------------------------
(* Quotients *)

\* Quotient and remainder.
LEMMA Division ==
    ASSUME NEW a \in Nat, NEW b \in Nat \ {0}
    PROVE  /\ a \div b \in Nat /\ a % b \in Nat /\ a % b < b
           /\ a = b * (a \div b) + (a % b)
  OBVIOUS

\* A remainder smaller than the divisor of two multiples is zero.
LEMMA NoRemainder ==
    ASSUME NEW b \in Nat \ {0}, NEW p \in Nat, NEW q \in Nat, NEW r \in Nat,
           b * q = b * p + r, r < b
    PROVE  r = 0
<1>1. b * q \in Nat /\ b * p \in Nat
  OBVIOUS
<1>2. CASE q <= p
  <2>1. b * q <= b * p
    BY <1>2
  <2> QED BY <1>1, <2>1
<1>3. CASE q >= p + 1
  <2>1. b * q >= b * (p + 1)
    BY <1>3
  <2>2. b * (p + 1) = b * p + b
    OBVIOUS
  <2> QED BY <1>1, <2>1, <2>2
<1> QED BY <1>2, <1>3

\* One interval more leaves the remainder alone.
LEMMA OneMore ==
    ASSUME NEW a \in Nat, NEW b \in Nat \ {0}, a % b = 0
    PROVE  (a + b) % b = 0
<1> DEFINE c == a + b
<1>1. c \in Nat
  OBVIOUS
<1>2. a = b * (a \div b) /\ a \div b \in Nat
  BY Division
<1>3. c = b * ((a \div b) + 1)
  BY <1>2
<1>4. (a \div b) + 1 \in Nat
  BY <1>2
<1> HIDE DEF c
<1>5. c % b \in Nat /\ c % b < b /\ c \div b \in Nat /\ c = b * (c \div b) + (c % b)
  BY <1>1, Division
<1>6. c % b = 0
  BY <1>3, <1>4, <1>5, NoRemainder
<1> QED BY <1>6 DEF c

----------------------------------------------------------------------------
(* Recursive functions *)

\* Outside the bottom prev leads to a lower rank; Good is passed on the way back up.
Descends(D, Bottom, rank, prev) ==
    /\ rank \in [D -> Nat] /\ prev \in [D \ Bottom -> D]
    /\ \A x \in D \ Bottom : rank[prev[x]] < rank[x]

PassedUp(D, Bottom, prev, Good) ==
    \A x \in D : x \in Bottom \/ prev[x] \in Good => x \in Good

\* What is passed up holds everywhere.
LEMMA Descent ==
    ASSUME NEW D, NEW Bottom, NEW rank, NEW prev, NEW Good,
           Descends(D, Bottom, rank, prev), PassedUp(D, Bottom, prev, Good)
    PROVE  D \subseteq Good
<1> USE DEF Descends, PassedUp
<1> DEFINE Bad == {x \in D : x \notin Good}
           Ranks == {rank[x] : x \in Bad}
<1> SUFFICES ASSUME Bad # {} PROVE FALSE
  OBVIOUS
<1>1. Ranks \in SUBSET Nat /\ Ranks # {}
  OBVIOUS
<1>2. PICK m \in Ranks : \A n \in Ranks : m <= n
  BY <1>1, LeastNumber
<1>3. PICK x \in Bad : rank[x] = m
  OBVIOUS
<1>4. x \in D \ Bottom /\ prev[x] \in D /\ rank[prev[x]] < rank[x] /\ prev[x] \notin Good
  BY <1>3
<1>5. rank[prev[x]] \in Ranks
  BY <1>4
<1>6. m <= rank[prev[x]] /\ m \in Nat /\ rank[prev[x]] \in Nat
  BY <1>1, <1>2, <1>5
<1> QED BY <1>3, <1>4, <1>6

\* What holds at 0 and is passed on from each number to the next holds up to N.
LEMMA FoundAll ==
    ASSUME NEW N \in Nat, NEW Good, 0 \in Good,
           \A i \in 1..N : i - 1 \in Good => i \in Good
    PROVE  \A i \in 0..N : i \in Good
<1> DEFINE D == 0..N
           rank == [i \in D |-> i]
           prev == [i \in D \ {0} |-> i - 1]
<1>1. \A i \in D \ {0} : i - 1 \in D /\ i - 1 < i /\ i - 1 \in Nat /\ i \in 1..N
  OBVIOUS
<1>2. rank \in [D -> Nat] /\ prev \in [D \ {0} -> D]
  BY <1>1
<1>3. \A i \in D \ {0} : rank[prev[i]] < rank[i] /\ prev[i] = i - 1
  BY <1>1
<1> HIDE DEF rank, prev, D
<1>4. Descends(D, {0}, rank, prev)
  BY <1>2, <1>3 DEF Descends
<1>5. PassedUp(D, {0}, prev, Good)
  BY <1>1, <1>3 DEF PassedUp
<1>6. D \subseteq Good
  BY <1>4, <1>5, Descent
<1> QED BY <1>6 DEF D

Solution(g, D, Bottom, prev, base, step) ==
    \A x \in D : g[x] = IF x \in Bottom THEN base ELSE step[<<x, g[prev[x]]>>]

\* A function that is given at the bottom, and by its value at a lower rank elsewhere, exists.
LEMMA Recursion ==
    ASSUME NEW D, NEW Bottom, NEW rank, NEW prev, NEW V, NEW base \in V,
           NEW step \in [D \X V -> V], Descends(D, Bottom, rank, prev)
    PROVE  \E g \in [D -> V] : Solution(g, D, Bottom, prev, base, step)
<1>0. /\ rank \in [D -> Nat] /\ prev \in [D \ Bottom -> D]
      /\ \A x \in D \ Bottom : prev[x] \in D /\ rank[prev[x]] < rank[x]
  BY DEF Descends
<1> USE <1>0
<1> DEFINE Upto(n) == {x \in D : rank[x] <= n}
           Solves(g, n) == /\ g \in [Upto(n) -> V]
                           /\ \A x \in Upto(n) :
                                g[x] = IF x \in Bottom THEN base ELSE step[<<x, g[prev[x]]>>]
           Solved == {n \in Nat : \E g : Solves(g, n)}
<1>1. \A n \in Nat : n \in Solved
  <2> DEFINE Bad == {n \in Nat : n \notin Solved}
  <2> SUFFICES ASSUME Bad # {} PROVE FALSE
    OBVIOUS
  <2>1. PICK m \in Bad : \A n \in Bad : m <= n
    <3>1. Bad \in SUBSET Nat
      OBVIOUS
    <3> HIDE DEF Bad
    <3> QED BY <3>1, LeastNumber
  <2>2. m \in Nat /\ m \notin Solved
    OBVIOUS
  <2>3. m # 0
    <3> DEFINE g == [x \in Upto(0) |-> base]
    <3>1. \A x \in Upto(0) : x \in Bottom
      <4> SUFFICES ASSUME NEW x \in Upto(0), x \notin Bottom PROVE FALSE
        OBVIOUS
      <4>1. prev[x] \in D /\ rank[prev[x]] < rank[x] /\ rank[x] <= 0
        OBVIOUS
      <4>2. rank[prev[x]] \in Nat /\ rank[x] \in Nat
        BY <4>1
      <4> QED BY <4>1, <4>2
    <3>2. Solves(g, 0)
      BY <3>1
    <3>3. 0 \in Solved
      BY <3>2
    <3> QED BY <2>2, <3>3
  <2>4. m - 1 \in Nat /\ m - 1 < m
    BY <2>2, <2>3
  <2>5. m - 1 \in Solved
    <3>1. m - 1 \notin Bad
      <4> HIDE DEF Bad, Solved
      <4>1. ~(m <= m - 1)
        BY <2>2, <2>4
      <4> QED BY <2>1, <4>1
    <3> HIDE DEF Solved
    <3> QED BY <2>4, <3>1
  <2>6. PICK g : Solves(g, m - 1)
    BY <2>5
  <2> DEFINE h == [x \in Upto(m) |->
                     IF x \in Bottom THEN base ELSE step[<<x, g[prev[x]]>>]]
  <2>7. ASSUME NEW x \in Upto(m), x \notin Bottom PROVE prev[x] \in Upto(m - 1)
    <3>1. prev[x] \in D /\ rank[prev[x]] < rank[x] /\ rank[x] <= m
      BY <2>7
    <3>2. rank[prev[x]] \in Nat /\ rank[x] \in Nat
      BY <3>1
    <3>3. rank[prev[x]] <= m - 1
      BY <2>2, <3>1, <3>2
    <3> QED BY <3>1, <3>3
  <2>8. \A x \in Upto(m - 1) : x \in Upto(m)
    BY <2>2
  <2>9. g \in [Upto(m - 1) -> V]
        /\ \A x \in Upto(m - 1) : g[x] = IF x \in Bottom THEN base ELSE step[<<x, g[prev[x]]>>]
    BY <2>6
  <2> HIDE DEF Solves, Solved, Bad
  <2>10. ASSUME NEW x \in Upto(m) PROVE h[x] \in V
    BY <2>7, <2>9
  <2>11. \A x \in Upto(m - 1) : h[x] = g[x]
    BY <2>8, <2>9
  <2>12. ASSUME NEW x \in Upto(m)
         PROVE  h[x] = IF x \in Bottom THEN base ELSE step[<<x, h[prev[x]]>>]
    BY <2>7, <2>11
  <2>13. h \in [Upto(m) -> V]
    BY <2>10
  <2> HIDE DEF h
  <2>14. Solves(h, m)
    BY <2>12, <2>13 DEF Solves
  <2> QED BY <2>2, <2>14 DEF Solved
<1> DEFINE Sol(n) == CHOOSE g : Solves(g, n)
           f == [x \in D |-> Sol(rank[x])[x]]
<1>2. \A n \in Nat : Solves(Sol(n), n)
  <2> HIDE DEF Solves
  <2> QED BY <1>1 DEF Solved
<1>3. ASSUME NEW n \in Nat, NEW m \in Nat, n <= m, NEW x \in Upto(n)
      PROVE  Sol(n)[x] = Sol(m)[x]
  <2> DEFINE Good == {y \in D : Sol(n)[y] = Sol(m)[y]}
             low == [y \in Upto(n) |-> rank[y]]
  <2>1. Solves(Sol(n), n) /\ Solves(Sol(m), m)
    BY <1>2
  <2> HIDE DEF Sol
  <2>2. \A y \in Upto(n) : y \in Upto(m) /\ y \in D
    BY <1>3
  <2>3. low \in [Upto(n) -> Nat]
    OBVIOUS
  <2>4. \A y \in Upto(n) \ Bottom : prev[y] \in Upto(n) /\ low[prev[y]] < low[y]
    <3> SUFFICES ASSUME NEW y \in Upto(n), y \notin Bottom
                 PROVE  prev[y] \in Upto(n) /\ low[prev[y]] < low[y]
      OBVIOUS
    <3>1. prev[y] \in D /\ rank[prev[y]] < rank[y] /\ rank[y] <= n
      OBVIOUS
    <3>2. rank[prev[y]] \in Nat /\ rank[y] \in Nat
      BY <3>1
    <3>3. prev[y] \in Upto(n)
      BY <3>1, <3>2
    <3> QED BY <3>1, <3>3
  <2>5. \A y \in Upto(n) \cap Bottom : y \in Good
    BY <2>1, <2>2
  <2>6. \A y \in Upto(n) \ Bottom : prev[y] \in Good => y \in Good
    BY <2>1, <2>2, <2>4
  <2> DEFINE U == Upto(n)
  <2>7. U \subseteq Good
    <3> DEFINE below == [y \in U \ Bottom |-> prev[y]]
    <3>1. Descends(U, Bottom, low, below)
      BY <2>3, <2>4 DEF Descends
    <3>2. PassedUp(U, Bottom, below, Good)
      BY <2>5, <2>6 DEF PassedUp
    <3> HIDE DEF U, Good, low, below
    <3> QED BY <3>1, <3>2, Descent
  <2> QED BY <2>7
<1>4. ASSUME NEW x \in D PROVE x \in Upto(rank[x]) /\ rank[x] \in Nat
  OBVIOUS
<1>5. ASSUME NEW x \in D
      PROVE  f[x] \in V /\ f[x] = IF x \in Bottom THEN base ELSE step[<<x, f[prev[x]]>>]
  <2>1. Solves(Sol(rank[x]), rank[x]) /\ x \in Upto(rank[x])
    BY <1>2, <1>4
  <2>2. f[x] = Sol(rank[x])[x]
    OBVIOUS
  <2> HIDE DEF Sol, f
  <2>3. f[x] \in V
    BY <2>1, <2>2
  <2>4. CASE x \in Bottom
    BY <2>1, <2>2, <2>3, <2>4
  <2>5. CASE x \notin Bottom
    <3>1. prev[x] \in D /\ rank[prev[x]] < rank[x] /\ rank[prev[x]] \in Nat /\ rank[x] \in Nat
      BY <2>5
    <3>2. rank[prev[x]] <= rank[x] /\ prev[x] \in Upto(rank[prev[x]])
      BY <3>1
    <3>3. Sol(rank[prev[x]])[prev[x]] = Sol(rank[x])[prev[x]]
      BY <1>3, <3>1, <3>2
    <3>4. f[prev[x]] = Sol(rank[prev[x]])[prev[x]]
      BY <3>1 DEF f
    <3>5. Sol(rank[x])[x] = step[<<x, Sol(rank[x])[prev[x]]>>]
      BY <2>1, <2>5
    <3> QED BY <2>2, <2>3, <2>5, <3>3, <3>4, <3>5
  <2> QED BY <2>4, <2>5
<1>6. f \in [D -> V]
  BY <1>5
<1> HIDE DEF f
<1>7. Solution(f, D, Bottom, prev, base, step)
  BY <1>5 DEF Solution
<1> QED BY <1>6, <1>7

==============================================================================
