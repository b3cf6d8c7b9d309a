------------------------------- MODULE Induction -------------------------------
(***************************************************************************)
(* Induction without operators for predicates, which the provers cannot    *)
(* instantiate: a predicate is the set of the values it holds of.  With it *)
(* what the sum of a function over a finite set is, which the community    *)
(* module defines as a fold.                                               *)
(***************************************************************************)
EXTENDS Functions, FiniteSetTheorems, WellFoundedInduction, TLAPS

\* A set of numbers that is not empty has a smallest.
LEMMA Smallest ==
    ASSUME NEW T \in SUBSET Nat, T # {}
    PROVE  \E n \in T : \A m \in T : n <= m
  <1> DEFINE Before == {p \in Nat \X Nat : p[1] < p[2]}
  <1>1. IsWellFoundedOn(Before, Nat)
    BY NatLessThanWellFounded DEF OpToRel
  <1>2. PICK n \in T : \A m \in T : <<m, n>> \notin Before
    <2> HIDE DEF Before
    <2> QED BY <1>1, WFMin
  <1>3. ASSUME NEW m \in T PROVE n <= m
    <2>1. <<m, n>> \in Nat \X Nat /\ <<m, n>>[1] = m /\ <<m, n>>[2] = n
      OBVIOUS
    <2>2. ~(m < n)
      BY <1>2, <2>1
    <2> QED BY <2>2
  <1> QED BY <1>3

LEMMA NatInduct ==
    ASSUME NEW T, 0 \in T, \A n \in Nat : n \in T => n + 1 \in T
    PROVE  Nat \subseteq T
  <1> SUFFICES ASSUME Nat \ T # {} PROVE FALSE
    OBVIOUS
  <1>1. PICK n \in Nat \ T : \A m \in Nat \ T : n <= m
    BY Smallest
  <1>2. n # 0 /\ n - 1 \in Nat /\ n - 1 \notin T
    BY <1>1
  <1> QED BY <1>1, <1>2

\* A property that a finite set has whenever its parts with an element less
\* have it.
LEMMA FiniteInduct ==
    ASSUME NEW S, IsFiniteSet(S), NEW T,
           \A R \in SUBSET S : (\A x \in R : R \ {x} \in T) => R \in T
    PROVE  SUBSET S \subseteq T
  <1> DEFINE Sizes == {n \in Nat : \A R \in SUBSET S : Cardinality(R) = n => R \in T}
  <1>1. \A R \in SUBSET S : IsFiniteSet(R) /\ Cardinality(R) \in Nat
    BY FS_Subset, FS_CardinalityType
  <1>2. 0 \in Sizes
    BY <1>1, FS_EmptySet
  <1>3. ASSUME NEW n \in Nat, n \in Sizes PROVE n + 1 \in Sizes
    <2> SUFFICES ASSUME NEW R \in SUBSET S, Cardinality(R) = n + 1 PROVE R \in T
      OBVIOUS
    <2>1. ASSUME NEW x \in R PROVE R \ {x} \in T
      <3>1. Cardinality(R \ {x}) = n
        BY <1>1, FS_RemoveElement
      <3> QED BY <1>3, <3>1
    <2> QED BY <2>1
  <1>4. Nat \subseteq Sizes
    <2> HIDE DEF Sizes
    <2> QED BY <1>2, <1>3, NatInduct
  <1> QED BY <1>1, <1>4

\* A function of the numbers up to m may be defined by its first value and by
\* what each makes of the one before.
Maps(g, m, S) == \A n \in 1..m : \A x \in S : g[n][x] \in S
Iterates(f, m, a, g) == f[0] = a /\ \A n \in 1..m : f[n] = g[n][f[n - 1]]

LEMMA Recursion ==
    ASSUME NEW m \in Nat, NEW S, NEW a \in S, NEW g, Maps(g, m, S)
    PROVE  \E f \in [0..m -> S] : Iterates(f, m, a, g)
  <1> DEFINE Some == {n \in Nat : n <= m => \E f \in [0..n -> S] : Iterates(f, n, a, g)}
  <1>1. 0 \in Some
    <2>1. /\ [i \in 0..0 |-> a] \in [0..0 -> S]
          /\ Iterates([i \in 0..0 |-> a], 0, a, g)
      BY DEF Iterates
    <2> QED BY <2>1
  <1>2. ASSUME NEW n \in Nat, n \in Some PROVE n + 1 \in Some
    <2> SUFFICES ASSUME n + 1 <= m
                 PROVE  \E f \in [0..n + 1 -> S] : Iterates(f, n + 1, a, g)
      OBVIOUS
    <2>1. PICK f \in [0..n -> S] : Iterates(f, n, a, g)
      BY <1>2
    <2> DEFINE h == [i \in 0..n + 1 |-> IF i = n + 1 THEN g[n + 1][f[n]] ELSE f[i]]
    <2>2. f[n] \in S /\ g[n + 1][f[n]] \in S
      BY DEF Maps
    <2>3. h \in [0..n + 1 -> S]
      BY <2>2
    <2>4. /\ \A i \in 0..n : h[i] = f[i]
          /\ h[n + 1] = g[n + 1][f[n]]
      OBVIOUS
    <2> HIDE DEF h
    <2>5. h[0] = a
      BY <2>1, <2>4 DEF Iterates
    <2>6. ASSUME NEW i \in 1..n + 1 PROVE h[i] = g[i][h[i - 1]]
      <3>1. CASE i = n + 1
        BY <2>4, <3>1
      <3>2. CASE i \in 1..n
        BY <2>1, <2>4, <3>2 DEF Iterates
      <3> QED BY <3>1, <3>2
    <2> QED BY <2>3, <2>5, <2>6 DEF Iterates
  <1>3. m \in Some
    <2> HIDE DEF Some
    <2> QED BY <1>1, <1>2, NatInduct
  <1> QED BY <1>3

-----------------------------------------------------------------------------
\* g adds up f over each part of S, as SumFunctionOnSet does.
First(R) == CHOOSE x \in R : TRUE
Adds(f, S, g) ==
    g = [R \in SUBSET S |-> IF R = {} THEN 0 ELSE f[First(R)] + g[R \ {First(R)}]]
Counting(f, S) == IsFiniteSet(S) /\ \A x \in S : f[x] \in Nat

\* One function adds up to sets of each size, and so one to all of them.
LEMMA SomethingAdds ==
    ASSUME NEW f, NEW S, Counting(f, S)
    PROVE  \E g : Adds(f, S, g) /\ g \in [SUBSET S -> Nat]
  <1> DEFINE Step(g, R) == IF R = {} THEN 0 ELSE f[First(R)] + g[R \ {First(R)}]
             Upto(n, g) == \A R \in SUBSET S : Cardinality(R) <= n => g[R] = Step(g, R)
             Sizes == {n \in Nat : \E g \in [SUBSET S -> Nat] : Upto(n, g)}
  <1>0. \A R \in SUBSET S : /\ IsFiniteSet(R) /\ Cardinality(R) \in Nat
                            /\ Cardinality(R) <= Cardinality(S)
                            /\ R = {} <=> Cardinality(R) = 0
    BY FS_Subset, FS_CardinalityType, FS_EmptySet DEF Counting
  <1>1. 0 \in Sizes
    <2>1. Upto(0, [R \in SUBSET S |-> 0])
      BY <1>0
    <2> QED BY <2>1
  <1>2. ASSUME NEW n \in Nat, n \in Sizes PROVE n + 1 \in Sizes
    <2>1. PICK g \in [SUBSET S -> Nat] : Upto(n, g)
      BY <1>2
    <2> DEFINE h == [R \in SUBSET S |-> Step(g, R)]
    <2>2. ASSUME NEW R \in SUBSET S, R # {}
          PROVE  /\ First(R) \in R /\ R \ {First(R)} \in SUBSET S
                 /\ Cardinality(R \ {First(R)}) = Cardinality(R) - 1
      BY <1>0, <2>2, FS_RemoveElement DEF First
    <2>3. h \in [SUBSET S -> Nat]
      BY <2>2 DEF Counting
    <2>4. ASSUME NEW R \in SUBSET S, Cardinality(R) <= n + 1 PROVE h[R] = Step(h, R)
      <3>1. CASE R = {}
        BY <3>1
      <3>2. CASE R # {}
        <4>1. Cardinality(R \ {First(R)}) <= n
          BY <1>0, <2>2, <2>4, <3>2
        <4>2. g[R \ {First(R)}] = h[R \ {First(R)}]
          BY <2>1, <2>2, <3>2, <4>1
        <4> QED BY <3>2, <4>2
      <3> QED BY <3>1, <3>2
    <2>5. Upto(n + 1, h)
      BY <2>4
    <2> HIDE DEF h, Upto
    <2> QED BY <2>3, <2>5
  <1>3. Cardinality(S) \in Sizes
    <2> HIDE DEF Sizes
    <2> QED BY <1>0, <1>1, <1>2, NatInduct
  <1>4. PICK g \in [SUBSET S -> Nat] : Upto(Cardinality(S), g)
    BY <1>3
  <1>5. g = [R \in SUBSET S |-> Step(g, R)]
    BY <1>0, <1>4
  <1> QED BY <1>5 DEF Adds

\* What two of them add up to is the same where both are defined.
LEMMA AddsOnce ==
    ASSUME NEW f, NEW S, NEW g, NEW R, NEW h, Counting(f, S), R \subseteq S,
           Adds(f, S, g), Adds(f, R, h)
    PROVE  g[R] = h[R]
  <1> DEFINE Same == {Q \in SUBSET R : g[Q] = h[Q]}
  <1>1. ASSUME NEW Q \in SUBSET R, \A x \in Q : Q \ {x} \in Same PROVE Q \in Same
    <2>1. /\ g[Q] = IF Q = {} THEN 0 ELSE f[First(Q)] + g[Q \ {First(Q)}]
          /\ h[Q] = IF Q = {} THEN 0 ELSE f[First(Q)] + h[Q \ {First(Q)}]
      BY DEF Adds
    <2>2. Q # {} => First(Q) \in Q
      BY DEF First
    <2> QED BY <1>1, <2>1, <2>2
  <1>2. IsFiniteSet(R)
    BY FS_Subset DEF Counting
  <1>3. SUBSET R \subseteq Same
    <2> HIDE DEF Same
    <2> QED BY <1>1, <1>2, FiniteInduct
  <1> QED BY <1>3

LEMMA SumAdds ==
    ASSUME NEW f, NEW S, Counting(f, S)
    PROVE  \E g : /\ Adds(f, S, g) /\ g \in [SUBSET S -> Nat]
                  /\ SumFunctionOnSet(f, S) = g[S]
  <1> DEFINE c == CHOOSE g : Adds(f, S, g)
  <1>1. SumFunctionOnSet(f, S) = c[S]
    BY DEF SumFunctionOnSet, FoldFunctionOnSet, MapThenFoldSet, Adds, First
  <1>2. Adds(f, S, c)
    BY SomethingAdds
  <1>3. PICK g \in [SUBSET S -> Nat] : Adds(f, S, g)
    BY SomethingAdds
  <1>4. c \in [SUBSET S -> Nat]
    <2>1. \A R \in SUBSET S : c[R] = g[R]
      <3> SUFFICES ASSUME NEW R \in SUBSET S PROVE c[R] = g[R]
        OBVIOUS
      <3>1. Counting(f, R)
        BY FS_Subset DEF Counting
      <3>2. PICK h : Adds(f, R, h)
        BY <3>1, SomethingAdds
      <3> QED BY <1>2, <1>3, <3>2, AddsOnce
    <2> QED BY <1>2, <1>3, <2>1 DEF Adds
  <1> QED BY <1>1, <1>2, <1>4

-----------------------------------------------------------------------------
(* What follows for sums.                                                    *)

LEMMA SumType ==
    ASSUME NEW f, NEW S, Counting(f, S)
    PROVE  SumFunctionOnSet(f, S) \in Nat
  <1>1. PICK g \in [SUBSET S -> Nat] : SumFunctionOnSet(f, S) = g[S]
    BY SumAdds
  <1>2. S \in SUBSET S
    OBVIOUS
  <1> QED BY <1>1, <1>2

LEMMA SumNone == ASSUME NEW f PROVE SumFunctionOnSet(f, {}) = 0
  <1>1. Counting(f, {})
    BY FS_EmptySet DEF Counting
  <1>2. PICK g : Adds(f, {}, g) /\ SumFunctionOnSet(f, {}) = g[{}]
    BY <1>1, SumAdds
  <1>3. {} \in SUBSET {}
    OBVIOUS
  <1>4. g[{}] = 0
    BY <1>2, <1>3, Zenon DEF Adds
  <1> QED BY <1>2, <1>4

LEMMA SumFirst ==
    ASSUME NEW f, NEW S, Counting(f, S), S # {}
    PROVE  /\ First(S) \in S
           /\ SumFunctionOnSet(f, S) = f[First(S)] + SumFunctionOnSet(f, S \ {First(S)})
  <1> DEFINE R == S \ {First(S)}
  <1>1. First(S) \in S
    BY DEF First
  <1>2. Counting(f, R)
    BY FS_Subset DEF Counting
  <1>3. PICK g : Adds(f, S, g) /\ SumFunctionOnSet(f, S) = g[S]
    BY SumAdds
  <1>4. PICK h : Adds(f, R, h) /\ SumFunctionOnSet(f, R) = h[R]
    BY <1>2, SumAdds
  <1>5. g[R] = h[R]
    BY <1>3, <1>4, AddsOnce
  <1>6. g[S] = f[First(S)] + g[R]
    BY <1>3 DEF Adds
  <1> QED BY <1>1, <1>3, <1>4, <1>5, <1>6

\* Any element may be taken out first.
LEMMA SumTake ==
    ASSUME NEW f, NEW S, Counting(f, S), NEW x \in S
    PROVE  SumFunctionOnSet(f, S) = f[x] + SumFunctionOnSet(f, S \ {x})
  <1> DEFINE Sum(R) == SumFunctionOnSet(f, R)
             Good == {R \in SUBSET S : \A y \in R : Sum(R) = f[y] + Sum(R \ {y})}
  <1>0. \A R \in SUBSET S : Counting(f, R) /\ Sum(R) \in Nat
    BY FS_Subset, SumType DEF Counting
  <1>1. ASSUME NEW R \in SUBSET S, \A y \in R : R \ {y} \in Good PROVE R \in Good
    <2> SUFFICES ASSUME NEW y \in R PROVE Sum(R) = f[y] + Sum(R \ {y})
      OBVIOUS
    <2> DEFINE c == First(R)
    <2>1. c \in R /\ Sum(R) = f[c] + Sum(R \ {c})
      BY <1>0, SumFirst
    <2>2. CASE y = c
      BY <2>1, <2>2
    <2>3. CASE y # c
      <3> HIDE DEF c
      <3>1. R \ {c} \in Good /\ R \ {y} \in Good
        BY <1>1, <2>1
      <3>2. y \in R \ {c} /\ c \in R \ {y} /\ (R \ {c}) \ {y} = (R \ {y}) \ {c}
        BY <2>1, <2>3
      <3>3. Sum(R \ {c}) = f[y] + Sum((R \ {c}) \ {y})
        BY <3>1, <3>2
      <3>4. Sum(R \ {y}) = f[c] + Sum((R \ {c}) \ {y})
        BY <3>1, <3>2
      <3>5. f[y] \in Nat /\ f[c] \in Nat /\ Sum((R \ {c}) \ {y}) \in Nat
        BY <1>0, <2>1 DEF Counting
      <3> HIDE DEF Sum
      <3> QED BY <2>1, <3>3, <3>4, <3>5
    <2> QED BY <2>2, <2>3
  <1>2. SUBSET S \subseteq Good
    <2> HIDE DEF Good
    <2> QED BY <1>1, FiniteInduct DEF Counting
  <1> QED BY <1>2

LEMMA SumLess ==
    ASSUME NEW f, NEW g, NEW S, Counting(f, S), Counting(g, S),
           \A x \in S : f[x] <= g[x]
    PROVE  SumFunctionOnSet(f, S) <= SumFunctionOnSet(g, S)
  <1> DEFINE F(R) == SumFunctionOnSet(f, R)
             G(R) == SumFunctionOnSet(g, R)
             Good == {R \in SUBSET S : F(R) <= G(R)}
  <1>0. \A R \in SUBSET S : Counting(f, R) /\ F(R) \in Nat /\ Counting(g, R) /\ G(R) \in Nat
    BY FS_Subset, SumType DEF Counting
  <1>1. ASSUME NEW R \in SUBSET S, \A y \in R : R \ {y} \in Good PROVE R \in Good
    <2>1. CASE R = {}
      BY <2>1, SumNone
    <2>2. CASE R # {}
      <3>1. PICK y \in R : TRUE
        BY <2>2
      <3>2. F(R) = f[y] + F(R \ {y}) /\ G(R) = g[y] + G(R \ {y})
        BY <1>0, SumTake
      <3>3. F(R \ {y}) <= G(R \ {y})
        BY <1>1
      <3>4. /\ f[y] \in Nat /\ g[y] \in Nat /\ f[y] <= g[y]
            /\ F(R \ {y}) \in Nat /\ G(R \ {y}) \in Nat
        BY <1>0 DEF Counting
      <3> HIDE DEF F, G
      <3> QED BY <3>2, <3>3, <3>4
    <2> QED BY <2>1, <2>2
  <1>2. SUBSET S \subseteq Good
    <2> HIDE DEF Good
    <2> QED BY <1>1, FiniteInduct DEF Counting
  <1> QED BY <1>2

LEMMA SumSame ==
    ASSUME NEW f, NEW g, NEW S, Counting(f, S), \A x \in S : f[x] = g[x]
    PROVE  SumFunctionOnSet(f, S) = SumFunctionOnSet(g, S)
  <1>1. Counting(g, S) /\ \A x \in S : f[x] <= g[x] /\ g[x] <= f[x]
    BY DEF Counting
  <1>2. /\ SumFunctionOnSet(f, S) <= SumFunctionOnSet(g, S)
        /\ SumFunctionOnSet(g, S) <= SumFunctionOnSet(f, S)
    BY <1>1, SumLess
  <1> QED BY <1>1, <1>2, SumType

\* A set and the rest add up to the whole.
LEMMA SumParts ==
    ASSUME NEW f, NEW S, Counting(f, S), NEW R \in SUBSET S
    PROVE  SumFunctionOnSet(f, S) = SumFunctionOnSet(f, R) + SumFunctionOnSet(f, S \ R)
  <1> DEFINE Sum(Q) == SumFunctionOnSet(f, Q)
             Good == {Q \in SUBSET R : Sum((S \ R) \cup Q) = Sum(Q) + Sum(S \ R)}
  <1>0. \A Q \in SUBSET S : Counting(f, Q) /\ Sum(Q) \in Nat
    BY FS_Subset, SumType DEF Counting
  <1>1. ASSUME NEW Q \in SUBSET R, \A y \in Q : Q \ {y} \in Good PROVE Q \in Good
    <2>1. CASE Q = {}
      <3>1. (S \ R) \cup Q = S \ R
        BY <2>1
      <3>2. Sum((S \ R) \cup Q) = Sum(S \ R)
        BY <3>1, Zenon
      <3>3. Sum(Q) = 0 /\ Sum(S \ R) \in Nat
        BY <1>0, <2>1, SumNone
      <3>4. Sum((S \ R) \cup Q) = Sum(Q) + Sum(S \ R)
        <4> HIDE DEF Sum
        <4> QED BY <3>2, <3>3
      <3> QED BY <3>4
    <2>2. CASE Q # {}
      <3>1. PICK y \in Q : TRUE
        BY <2>2
      <3> DEFINE A == (S \ R) \cup Q
      <3>2. y \in A /\ A \in SUBSET S /\ A \ {y} = (S \ R) \cup (Q \ {y})
        OBVIOUS
      <3>3. Sum(Q) = f[y] + Sum(Q \ {y}) /\ Sum(A) = f[y] + Sum(A \ {y})
        BY <1>0, <3>2, SumTake
      <3>4. Sum(A \ {y}) = Sum(Q \ {y}) + Sum(S \ R)
        BY <1>1, <3>2
      <3>5. f[y] \in Nat /\ Sum(Q \ {y}) \in Nat /\ Sum(S \ R) \in Nat
        BY <1>0 DEF Counting
      <3>6. Sum(A) = Sum(Q) + Sum(S \ R)
        <4> HIDE DEF Sum, A
        <4> QED BY <3>3, <3>4, <3>5
      <3> QED BY <3>6
    <2> QED BY <2>1, <2>2
  <1>2. SUBSET R \subseteq Good
    <2>1. IsFiniteSet(R)
      BY FS_Subset DEF Counting
    <2> HIDE DEF Good
    <2> QED BY <1>1, <2>1, FiniteInduct
  <1>3. (S \ R) \cup R = S
    OBVIOUS
  <1> QED BY <1>2, <1>3

LEMMA SumZero ==
    ASSUME NEW f, NEW S, IsFiniteSet(S), \A x \in S : f[x] = 0
    PROVE  SumFunctionOnSet(f, S) = 0
  <1> DEFINE Good == {R \in SUBSET S : SumFunctionOnSet(f, R) = 0}
  <1>0. \A R \in SUBSET S : Counting(f, R)
    BY FS_Subset DEF Counting
  <1>1. ASSUME NEW R \in SUBSET S, \A y \in R : R \ {y} \in Good PROVE R \in Good
    <2>1. CASE R = {}
      BY <2>1, SumNone
    <2>2. CASE R # {}
      <3>1. /\ First(R) \in R
            /\ SumFunctionOnSet(f, R)
                   = f[First(R)] + SumFunctionOnSet(f, R \ {First(R)})
        BY <1>0, <2>2, SumFirst
      <3>2. SumFunctionOnSet(f, R \ {First(R)}) = 0 /\ f[First(R)] = 0
        BY <1>1, <3>1
      <3> QED BY <3>1, <3>2
    <2> QED BY <2>1, <2>2
  <1>2. SUBSET S \subseteq Good
    <2> HIDE DEF Good
    <2> QED BY <1>1, FiniteInduct
  <1> QED BY <1>2

\* One of the values grows.
LEMMA SumGrows ==
    ASSUME NEW f, NEW g, NEW S, Counting(f, S), NEW x \in S, NEW n \in Nat,
           g[x] = f[x] + n, \A y \in S \ {x} : g[y] = f[y]
    PROVE  SumFunctionOnSet(g, S) = SumFunctionOnSet(f, S) + n
  <1>1. Counting(g, S) /\ Counting(f, S \ {x})
    BY FS_Subset DEF Counting
  <1>2. SumFunctionOnSet(f, S \ {x}) = SumFunctionOnSet(g, S \ {x})
    BY <1>1, SumSame
  <1>3. /\ SumFunctionOnSet(f, S) = f[x] + SumFunctionOnSet(f, S \ {x})
        /\ SumFunctionOnSet(g, S) = g[x] + SumFunctionOnSet(g, S \ {x})
    BY <1>1, SumTake
  <1>4. f[x] \in Nat /\ SumFunctionOnSet(f, S \ {x}) \in Nat
    BY <1>1, SumType DEF Counting
  <1> QED BY <1>2, <1>3, <1>4
=============================================================================
