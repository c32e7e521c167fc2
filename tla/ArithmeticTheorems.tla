------------------------- MODULE ArithmeticTheorems -------------------------
(***************************************************************************)
(* What SumFunctionOnSet and SumFunction of the community modules compute  *)
(* for finite sets of integers.  Their definition folds a set in an order  *)
(* CHOOSE picks, so that it says nothing at once about taking out another  *)
(* element, about changing one entry or about a larger set.                *)
(*                                                                         *)
(* The library's induction principles take the claim as an operator, which *)
(* the backends cannot instantiate.  The proofs here take the least        *)
(* counterexample of a set of naturals in its place (LeastNatural), which  *)
(* is WFMin for the order on the naturals: a set is an ordinary parameter. *)
(*                                                                         *)
(* And what the rounding of \div keeps: the bounds that the reward and the *)
(* share accounting of the contracts rest on.                              *)
(***************************************************************************)
EXTENDS Integers, FiniteSets, Functions, FiniteSetTheorems, WellFoundedInduction, TLAPS

NatLess == {pair \in Nat \X Nat : pair[1] < pair[2]}

\* Every set of naturals that is not empty has a least element.
LEMMA LeastNatural ==
  ASSUME NEW T \in SUBSET Nat, T # {}
  PROVE  \E n \in T : \A m \in T : n <= m
<1>1. IsWellFoundedOn(NatLess, Nat)
  BY NatLessThanWellFounded DEF OpToRel, NatLess
<1>2. PICK n \in T : \A m \in T : <<m, n>> \notin NatLess
  BY <1>1, WFMin
<1>3. ASSUME NEW m \in T, ~ n <= m  PROVE FALSE
  <2>1. m \in Nat /\ n \in Nat /\ m < n
    BY <1>3
  <2>2. <<m, n>> \in NatLess
    BY <2>1 DEF NatLess
  <2>. QED  BY <2>2, <1>2
<1>. QED  BY <1>3

\* Every set of finite sets that is not empty has a member of least cardinality.
LEMMA LeastFiniteSet ==
  ASSUME NEW C, C # {}, \A s \in C : IsFiniteSet(s)
  PROVE  \E s \in C : \A t \in C : Cardinality(s) <= Cardinality(t)
<1>. DEFINE T == {Cardinality(s) : s \in C}
<1>1. T \in SUBSET Nat /\ T # {}
  BY FS_CardinalityType
<1>2. PICK n \in T : \A m \in T : n <= m
  BY <1>1, LeastNatural
<1>3. PICK s \in C : n = Cardinality(s)
  OBVIOUS
<1>. QED  BY <1>2, <1>3

\* A set of integers with an upper bound has a greatest element.
LEMMA GreatestInteger ==
  ASSUME NEW T \in SUBSET Int, T # {}, NEW b \in Int, \A m \in T : m <= b
  PROVE  \E n \in T : \A m \in T : m <= n
<1>. DEFINE D == {b - m : m \in T}
<1>1. \A m \in T : b - m \in Nat
  OBVIOUS
<1>2. PICK d \in D : \A e \in D : d <= e
  <2>1. D \in SUBSET Nat /\ D # {}
    BY <1>1
  <2>. QED  BY <2>1, LeastNatural
<1>3. PICK n \in T : d = b - n
  OBVIOUS
<1>4. ASSUME NEW m \in T  PROVE m <= n
  <2>1. b - m \in D
    OBVIOUS
  <2>2. d <= b - m
    BY <1>2, <2>1
  <2>. QED  BY <1>3, <2>2, n \in Int, m \in Int, b \in Int
<1>. QED  BY <1>4
\* Two loops of which each turn is alike when the one before was are alike at
\* every turn.
LEMMA SameAtEveryTurn ==
  ASSUME NEW n \in Int, NEW f, NEW g,
         \A k \in 0..n : (k > 0 => f[k - 1] = g[k - 1]) => f[k] = g[k]
  PROVE  \A k \in 0..n : f[k] = g[k]
<1> DEFINE Wrong == {k \in 0..n : f[k] # g[k]}
<1>1. SUFFICES ASSUME Wrong # {} PROVE FALSE
  OBVIOUS
<1>2. PICK k \in Wrong : \A m \in Wrong : k <= m
  BY <1>1, LeastNatural, Wrong \in SUBSET Nat
<1>3. k \in 0..n /\ f[k] # g[k]
  OBVIOUS
<1>4. ASSUME k > 0 PROVE f[k - 1] = g[k - 1]
  <2>1. k - 1 \in 0..n /\ ~(k <= k - 1)
    BY <1>3, <1>4
  <2>2. k - 1 \notin Wrong
    <3> HIDE DEF Wrong
    <3> QED  BY <1>2, <2>1
  <2> QED  BY <2>1, <2>2
<1> QED  BY <1>3, <1>4

-----------------------------------------------------------------------------
(* The recursive function behind a sum.                                    *)

Pick(s) == CHOOSE x \in s : TRUE

\* g is the sum of f on every subset of S, taken in the order Pick gives.
Unfolds(f, S, g) ==
  g = [s \in SUBSET S |-> IF s = {} THEN 0 ELSE f[Pick(s)] + g[s \ {Pick(s)}]]

\* The definition of the community modules, unfolded.
LEMMA SumIsChosen ==
  ASSUME NEW f, NEW S
  PROVE  SumFunctionOnSet(f, S) = (CHOOSE g : Unfolds(f, S, g))[S]
BY DEF SumFunctionOnSet, FoldFunctionOnSet, MapThenFoldSet, Unfolds, Pick

\* The element that is chosen is one of the set.
LEMMA PickIn ==
  ASSUME NEW s, s # {}
  PROVE  Pick(s) \in s
BY DEF Pick

\* Taking an element out of a finite set leaves a smaller one.
LEMMA Smaller ==
  ASSUME NEW s, IsFiniteSet(s), NEW x \in s
  PROVE  /\ IsFiniteSet(s \ {x})
         /\ Cardinality(s) \in Nat /\ Cardinality(s \ {x}) \in Nat
         /\ Cardinality(s \ {x}) = Cardinality(s) - 1
BY FS_RemoveElement, FS_CardinalityType

\* There is such a function: one that is right for the subsets of at most n
\* elements gives one that is right for those of n + 1.
LEMMA UnfoldsExists ==
  ASSUME NEW f, NEW S, IsFiniteSet(S), \A x \in S : f[x] \in Int
  PROVE  \E g \in [SUBSET S -> Int] : Unfolds(f, S, g)
<1>. DEFINE Right(n, g) ==
       \A s \in SUBSET S : Cardinality(s) <= n =>
         g[s] = IF s = {} THEN 0 ELSE f[Pick(s)] + g[s \ {Pick(s)}]
     Wrong == {n \in Nat : ~ \E g \in [SUBSET S -> Int] : Right(n, g)}
<1>1. \A s \in SUBSET S : /\ IsFiniteSet(s) /\ Cardinality(s) \in Nat
                          /\ Cardinality(s) <= Cardinality(S)
                          /\ Cardinality(s) = 0 <=> s = {}
  BY FS_Subset, FS_CardinalityType, FS_EmptySet
<1>2. Wrong = {}
  <2>. SUFFICES ASSUME Wrong # {}  PROVE FALSE
    OBVIOUS
  <2>1. PICK n \in Wrong : \A m \in Wrong : n <= m
    BY LeastNatural
  <2>2. n \in Nat /\ ~ \E g \in [SUBSET S -> Int] : Right(n, g)
    OBVIOUS
  <2>3. n # 0
    <3>. DEFINE zero == [s \in SUBSET S |-> 0]
    <3>1. zero \in [SUBSET S -> Int]
      OBVIOUS
    <3>2. Right(0, zero)
      BY <1>1
    <3>. QED  BY <2>2, <3>1, <3>2
  <2>4. n - 1 \in Nat /\ n - 1 \notin Wrong
    <3>1. n - 1 \in Nat /\ ~ n <= n - 1
      BY <2>2, <2>3
    <3>. HIDE DEF Wrong
    <3>. QED  BY <2>1, <3>1
  <2>5. PICK g \in [SUBSET S -> Int] : Right(n - 1, g)
    BY <2>4
  <2>. DEFINE h == [s \in SUBSET S |-> IF Cardinality(s) <= n - 1 THEN g[s]
                                       ELSE f[Pick(s)] + g[s \ {Pick(s)}]]
  <2>6. \A s \in SUBSET S : s # {} =>
          /\ Pick(s) \in s /\ f[Pick(s)] \in Int
          /\ s \ {Pick(s)} \in SUBSET S
          /\ Cardinality(s \ {Pick(s)}) = Cardinality(s) - 1
    BY <1>1, PickIn, Smaller
  <2>7. h \in [SUBSET S -> Int]
    <3>. SUFFICES ASSUME NEW s \in SUBSET S
                  PROVE  (IF Cardinality(s) <= n - 1 THEN g[s]
                          ELSE f[Pick(s)] + g[s \ {Pick(s)}]) \in Int
      OBVIOUS
    <3>1. g[s] \in Int
      BY <2>5
    <3>2. CASE Cardinality(s) <= n - 1
      BY <3>1, <3>2
    <3>3. CASE ~ Cardinality(s) <= n - 1
      <4>1. s # {}
        BY <1>1, <2>2, <2>4, <3>3
      <4>2. f[Pick(s)] \in Int /\ g[s \ {Pick(s)}] \in Int
        BY <2>5, <2>6, <4>1
      <4>. QED  BY <3>3, <4>2
    <3>. QED  BY <3>2, <3>3
  <2>8. Right(n, h)
    <3>. SUFFICES ASSUME NEW s \in SUBSET S, Cardinality(s) <= n
                  PROVE  h[s] = IF s = {} THEN 0 ELSE f[Pick(s)] + h[s \ {Pick(s)}]
      OBVIOUS
    <3>1. CASE s = {}
      <4>1. Cardinality(s) <= n - 1
        BY <1>1, <2>4, <3>1
      <4>2. h[s] = g[s]
        BY <4>1
      <4>3. g[s] = 0
        BY <2>5, <3>1, <4>1
      <4>. QED  BY <3>1, <4>2, <4>3
    <3>2. CASE s # {}
      <4>. DEFINE r == s \ {Pick(s)}
      <4>1. r \in SUBSET S /\ Cardinality(r) <= n - 1
        BY <1>1, <2>2, <2>6, <3>2
      <4>2. h[r] = g[r]
        BY <4>1
      <4>3. h[s] = f[Pick(s)] + g[r]
        <5>1. CASE Cardinality(s) <= n - 1
          BY <5>1, <2>5, <3>2
        <5>2. CASE ~ Cardinality(s) <= n - 1
          BY <5>2
        <5>. QED  BY <5>1, <5>2
      <4>. QED  BY <3>2, <4>2, <4>3
    <3>. QED  BY <3>1, <3>2
  <2>. QED  BY <2>2, <2>7, <2>8
<1>3. Cardinality(S) \in Nat
  BY <1>1
<1>4. PICK g \in [SUBSET S -> Int] : Right(Cardinality(S), g)
  BY <1>2, <1>3
<1>5. \A s \in SUBSET S : g[s] = IF s = {} THEN 0 ELSE f[Pick(s)] + g[s \ {Pick(s)}]
  BY <1>1, <1>4
<1>6. Unfolds(f, S, g)
  BY <1>5 DEF Unfolds
<1>. QED  BY <1>6

\* Two such functions, of functions that agree on a set, agree on it.
LEMMA UnfoldsUnique ==
  ASSUME NEW f1, NEW S1, NEW g1, Unfolds(f1, S1, g1),
         NEW f2, NEW S2, NEW g2, Unfolds(f2, S2, g2),
         NEW S, IsFiniteSet(S), S \subseteq S1, S \subseteq S2, \A x \in S : f1[x] = f2[x]
  PROVE  g1[S] = g2[S]
<1>. DEFINE Differ == {s \in SUBSET S : g1[s] # g2[s]}
<1>1. \A s \in SUBSET S : IsFiniteSet(s)
  BY FS_Subset
<1>2. Differ = {}
  <2>. SUFFICES ASSUME Differ # {}  PROVE FALSE
    OBVIOUS
  <2>1. PICK s \in Differ : \A t \in Differ : Cardinality(s) <= Cardinality(t)
    BY <1>1, LeastFiniteSet
  <2>2. s \in SUBSET S1 /\ s \in SUBSET S2 /\ s \in SUBSET S /\ IsFiniteSet(s)
    BY <1>1
  <2>3. /\ g1[s] = IF s = {} THEN 0 ELSE f1[Pick(s)] + g1[s \ {Pick(s)}]
        /\ g2[s] = IF s = {} THEN 0 ELSE f2[Pick(s)] + g2[s \ {Pick(s)}]
    BY <2>2 DEF Unfolds
  <2>4. s # {}
    BY <2>3
  <2>5. Pick(s) \in s /\ f1[Pick(s)] = f2[Pick(s)]
    BY <2>2, <2>4, PickIn
  <2>6. s \ {Pick(s)} \in SUBSET S /\ s \ {Pick(s)} \notin Differ
    BY <2>1, <2>2, <2>5, Smaller
  <2>. QED  BY <2>3, <2>4, <2>5, <2>6
<1>. QED  BY <1>2
-----------------------------------------------------------------------------
(* What a sum is.                                                          *)

\* The sum over a finite set is an integer, and the definition's own equation
\* holds: 0 for the empty set, otherwise one element and the sum of the rest.
LEMMA SumEquation ==
  ASSUME NEW f, NEW S, IsFiniteSet(S), \A x \in S : f[x] \in Int
  PROVE  /\ SumFunctionOnSet(f, S) \in Int
         /\ SumFunctionOnSet(f, S) =
              IF S = {} THEN 0 ELSE f[Pick(S)] + SumFunctionOnSet(f, S \ {Pick(S)})
<1>1. PICK g \in [SUBSET S -> Int] : Unfolds(f, S, g)
  BY UnfoldsExists
<1>2. Unfolds(f, S, CHOOSE h : Unfolds(f, S, h))
  BY <1>1
<1>3. SumFunctionOnSet(f, S) = g[S]
  BY <1>1, <1>2, SumIsChosen, UnfoldsUnique, S \subseteq S
<1>4. CASE S = {}
  BY <1>1, <1>3, <1>4 DEF Unfolds
<1>5. CASE S # {}
  <2>. DEFINE R == S \ {Pick(S)}
  <2>1. R \subseteq S /\ IsFiniteSet(R)
    BY FS_Subset
  <2>2. PICK h \in [SUBSET R -> Int] : Unfolds(f, R, h)
    BY <2>1, UnfoldsExists
  <2>3. Unfolds(f, R, CHOOSE k : Unfolds(f, R, k))
    BY <2>2
  <2>4. SumFunctionOnSet(f, R) = g[R]
    BY <1>1, <2>1, <2>3, SumIsChosen, UnfoldsUnique, R \subseteq R
  <2>5. g[S] = f[Pick(S)] + g[R]
    BY <1>1, <1>5, S \in SUBSET S DEF Unfolds
  <2>. QED  BY <1>1, <1>3, <1>5, <2>4, <2>5
<1>. QED  BY <1>4, <1>5

\* The sum over no elements.
LEMMA SumOfNothing ==
  ASSUME NEW f
  PROVE  SumFunctionOnSet(f, {}) = 0
BY SumEquation, FS_EmptySet

\* Sums of functions that agree on the set are equal.
LEMMA SumAgrees ==
  ASSUME NEW f, NEW g, NEW S, IsFiniteSet(S),
         \A x \in S : f[x] \in Int, \A x \in S : f[x] = g[x]
  PROVE  SumFunctionOnSet(f, S) = SumFunctionOnSet(g, S)
<1>1. \A x \in S : g[x] \in Int
  OBVIOUS
<1>2. Unfolds(f, S, CHOOSE h : Unfolds(f, S, h))
  BY UnfoldsExists
<1>3. Unfolds(g, S, CHOOSE h : Unfolds(g, S, h))
  BY <1>1, UnfoldsExists
<1>. QED  BY <1>2, <1>3, SumIsChosen, UnfoldsUnique, S \subseteq S

\* Any element may be taken out first.
LEMMA SumTakeOut ==
  ASSUME NEW f, NEW S, IsFiniteSet(S), \A x \in S : f[x] \in Int, NEW x \in S
  PROVE  SumFunctionOnSet(f, S) = f[x] + SumFunctionOnSet(f, S \ {x})
<1>. DEFINE TakesOut(s) ==
       \A y \in s : SumFunctionOnSet(f, s) = f[y] + SumFunctionOnSet(f, s \ {y})
     Wrong == {s \in SUBSET S : ~ TakesOut(s)}
<1>1. \A s \in SUBSET S : IsFiniteSet(s)
  BY FS_Subset
<1>2. Wrong = {}
  <2>. SUFFICES ASSUME Wrong # {}  PROVE FALSE
    OBVIOUS
  <2>1. PICK s \in Wrong : \A t \in Wrong : Cardinality(s) <= Cardinality(t)
    BY <1>1, LeastFiniteSet
  <2>2. PICK y \in s : SumFunctionOnSet(f, s) # f[y] + SumFunctionOnSet(f, s \ {y})
    OBVIOUS
  <2>. DEFINE p == Pick(s)  both == s \ {p, y}
  <2>3. /\ s \in SUBSET S /\ IsFiniteSet(s) /\ p \in s
        /\ f[p] \in Int /\ f[y] \in Int
    BY <1>1, PickIn
  <2>4. SumFunctionOnSet(f, s) = f[p] + SumFunctionOnSet(f, s \ {p})
    BY <2>3, SumEquation
  <2>5. p # y
    BY <2>2, <2>4
  <2>6. ASSUME NEW z \in s  PROVE s \ {z} \in SUBSET S /\ TakesOut(s \ {z})
    <3>1. s \ {z} \in SUBSET S /\ ~ Cardinality(s) <= Cardinality(s \ {z})
      BY <2>3, Smaller
    <3>2. s \ {z} \notin Wrong
      BY <2>1, <3>1
    <3>. QED  BY <3>1, <3>2
  <2>7. /\ y \in s \ {p} /\ (s \ {p}) \ {y} = both
        /\ p \in s \ {y} /\ (s \ {y}) \ {p} = both
    BY <2>3, <2>5
  <2>8. SumFunctionOnSet(f, s \ {p}) = f[y] + SumFunctionOnSet(f, both)
    BY <2>3, <2>6, <2>7
  <2>9. SumFunctionOnSet(f, s \ {y}) = f[p] + SumFunctionOnSet(f, both)
    BY <2>3, <2>6, <2>7
  <2>10. SumFunctionOnSet(f, both) \in Int
    <3>1. both \in SUBSET S
      BY <2>3
    <3>. QED  BY <1>1, <3>1, SumEquation
  <2>. HIDE DEF p, both
  <2>. QED  BY <2>2, <2>3, <2>4, <2>8, <2>9, <2>10
<1>. QED  BY <1>2

\* Where two functions differ in one entry, their sums differ by as much.
LEMMA SumOneChanged ==
  ASSUME NEW f, NEW g, NEW S, IsFiniteSet(S), NEW x \in S,
         \A y \in S : f[y] \in Int, g[x] \in Int, \A y \in S \ {x} : g[y] = f[y]
  PROVE  SumFunctionOnSet(g, S) = SumFunctionOnSet(f, S) + (g[x] - f[x])
<1>1. IsFiniteSet(S \ {x}) /\ \A y \in S \ {x} : f[y] \in Int
  BY FS_Subset
<1>2. \A y \in S : g[y] \in Int
  OBVIOUS
<1>3. SumFunctionOnSet(f, S) = f[x] + SumFunctionOnSet(f, S \ {x})
  BY SumTakeOut
<1>4. SumFunctionOnSet(g, S) = g[x] + SumFunctionOnSet(g, S \ {x})
  BY <1>2, SumTakeOut
<1>5. SumFunctionOnSet(f, S \ {x}) = SumFunctionOnSet(g, S \ {x})
  BY <1>1, SumAgrees
<1>6. SumFunctionOnSet(f, S \ {x}) \in Int
  BY <1>1, SumEquation
<1>. QED  BY <1>3, <1>4, <1>5, <1>6

\* One new element adds its entry.
LEMMA SumAdded ==
  ASSUME NEW f, NEW S, IsFiniteSet(S), NEW x, x \notin S,
         \A y \in S \cup {x} : f[y] \in Int
  PROVE  SumFunctionOnSet(f, S \cup {x}) = SumFunctionOnSet(f, S) + f[x]
<1>1. IsFiniteSet(S \cup {x}) /\ (S \cup {x}) \ {x} = S
  BY FS_AddElement
<1>2. SumFunctionOnSet(f, S \cup {x}) = f[x] + SumFunctionOnSet(f, S)
  BY <1>1, SumTakeOut, x \in S \cup {x}
<1>3. SumFunctionOnSet(f, S) \in Int
  BY SumEquation
<1>. QED  BY <1>2, <1>3

\* A sum of zeros.
LEMMA SumOfZeros ==
  ASSUME NEW f, NEW S, IsFiniteSet(S), \A x \in S : f[x] = 0
  PROVE  SumFunctionOnSet(f, S) = 0
<1>. DEFINE Wrong == {s \in SUBSET S : SumFunctionOnSet(f, s) # 0}
<1>1. \A s \in SUBSET S : IsFiniteSet(s)
  BY FS_Subset
<1>2. Wrong = {}
  <2>. SUFFICES ASSUME Wrong # {}  PROVE FALSE
    OBVIOUS
  <2>1. PICK s \in Wrong : \A t \in Wrong : Cardinality(s) <= Cardinality(t)
    BY <1>1, LeastFiniteSet
  <2>2. IsFiniteSet(s) /\ \A x \in s : f[x] = 0 /\ f[x] \in Int
    BY <1>1
  <2>3. PICK x \in s : TRUE
    BY SumOfNothing
  <2>4. SumFunctionOnSet(f, s) = f[x] + SumFunctionOnSet(f, s \ {x})
    BY <2>2, SumTakeOut
  <2>5. s \ {x} \notin Wrong /\ s \ {x} \in SUBSET S
    BY <2>1, <2>2, Smaller
  <2>. QED  BY <2>2, <2>4, <2>5
<1>. QED  BY <1>2

\* A sum of naturals is a natural.
LEMMA SumIsNatural ==
  ASSUME NEW f, NEW S, IsFiniteSet(S), \A x \in S : f[x] \in Nat
  PROVE  SumFunctionOnSet(f, S) \in Nat
<1>. DEFINE Wrong == {s \in SUBSET S : SumFunctionOnSet(f, s) \notin Nat}
<1>1. \A s \in SUBSET S : IsFiniteSet(s)
  BY FS_Subset
<1>2. Wrong = {}
  <2>. SUFFICES ASSUME Wrong # {}  PROVE FALSE
    OBVIOUS
  <2>1. PICK s \in Wrong : \A t \in Wrong : Cardinality(s) <= Cardinality(t)
    BY <1>1, LeastFiniteSet
  <2>2. /\ IsFiniteSet(s) /\ \A x \in s : f[x] \in Int
        /\ SumFunctionOnSet(f, s) \notin Nat
    BY <1>1
  <2>3. s # {}
    BY <2>2, SumOfNothing
  <2>4. PICK x \in s : TRUE
    BY <2>3
  <2>5. SumFunctionOnSet(f, s) = f[x] + SumFunctionOnSet(f, s \ {x})
    BY <2>2, SumTakeOut
  <2>6. s \ {x} \notin Wrong /\ s \ {x} \in SUBSET S /\ f[x] \in Nat
    BY <2>1, <2>2, Smaller
  <2>. QED  BY <2>2, <2>5, <2>6
<1>. QED  BY <1>2

\* The sum over a part of the set is no greater, when nothing is negative.
LEMMA SumOfPart ==
  ASSUME NEW f, NEW S, IsFiniteSet(S), \A x \in S : f[x] \in Nat, NEW P \in SUBSET S
  PROVE  SumFunctionOnSet(f, P) <= SumFunctionOnSet(f, S)
<1>. DEFINE Above == {s \in SUBSET S : P \subseteq s /\
                          ~ SumFunctionOnSet(f, P) <= SumFunctionOnSet(f, s)}
<1>1. \A s \in SUBSET S : IsFiniteSet(s)
  BY FS_Subset
<1>2. \A s \in SUBSET S : SumFunctionOnSet(f, s) \in Nat
  BY <1>1, SumIsNatural
<1>3. Above = {}
  <2>. SUFFICES ASSUME Above # {}  PROVE FALSE
    OBVIOUS
  <2>1. PICK s \in Above : \A t \in Above : Cardinality(s) <= Cardinality(t)
    BY <1>1, LeastFiniteSet
  <2>2. IsFiniteSet(s) /\ \A x \in s : f[x] \in Int /\ f[x] \in Nat
    BY <1>1
  <2>3. s # P
    BY <1>2
  <2>4. PICK x \in s : x \notin P
    BY <2>3
  <2>5. SumFunctionOnSet(f, s) = f[x] + SumFunctionOnSet(f, s \ {x})
    BY <2>2, SumTakeOut
  <2>6. s \ {x} \notin Above /\ s \ {x} \in SUBSET S /\ P \subseteq s \ {x}
    BY <2>1, <2>2, <2>4, Smaller
  <2>7. SumFunctionOnSet(f, P) <= SumFunctionOnSet(f, s \ {x})
    BY <2>6
  <2>8. f[x] \in Nat /\ SumFunctionOnSet(f, s \ {x}) \in Nat /\ SumFunctionOnSet(f, P) \in Nat
    BY <1>2, <2>2, <2>6
  <2>9. SumFunctionOnSet(f, P) <= SumFunctionOnSet(f, s)
    BY <2>5, <2>7, <2>8
  <2>. QED  BY <2>9
<1>. QED  BY <1>3

\* Smaller entries, smaller sum.
LEMMA SumMonotone ==
  ASSUME NEW f, NEW g, NEW S, IsFiniteSet(S),
         \A x \in S : f[x] \in Int /\ g[x] \in Int /\ f[x] <= g[x]
  PROVE  SumFunctionOnSet(f, S) <= SumFunctionOnSet(g, S)
<1>. DEFINE Above == {s \in SUBSET S : ~ SumFunctionOnSet(f, s) <= SumFunctionOnSet(g, s)}
<1>1. \A s \in SUBSET S : IsFiniteSet(s)
  BY FS_Subset
<1>2. Above = {}
  <2>. SUFFICES ASSUME Above # {}  PROVE FALSE
    OBVIOUS
  <2>1. PICK s \in Above : \A t \in Above : Cardinality(s) <= Cardinality(t)
    BY <1>1, LeastFiniteSet
  <2>2. IsFiniteSet(s) /\ \A x \in s : f[x] \in Int /\ g[x] \in Int /\ f[x] <= g[x]
    BY <1>1
  <2>3. s # {}
    BY SumOfNothing
  <2>4. PICK x \in s : TRUE
    BY <2>3
  <2>5. /\ SumFunctionOnSet(f, s) = f[x] + SumFunctionOnSet(f, s \ {x})
        /\ SumFunctionOnSet(g, s) = g[x] + SumFunctionOnSet(g, s \ {x})
    BY <2>2, SumTakeOut
  <2>6. s \ {x} \notin Above /\ s \ {x} \in SUBSET S
    BY <2>1, <2>2, Smaller
  <2>7. /\ SumFunctionOnSet(f, s \ {x}) \in Int /\ SumFunctionOnSet(g, s \ {x}) \in Int
        /\ SumFunctionOnSet(f, s \ {x}) <= SumFunctionOnSet(g, s \ {x})
    BY <1>1, <2>2, <2>6, SumEquation
  <2>8. SumFunctionOnSet(f, s) <= SumFunctionOnSet(g, s)
    BY <2>2, <2>5, <2>7
  <2>. QED  BY <2>8
<1>. QED  BY <1>2

\* The sum of the differences is the difference of the sums.
LEMMA SumOfDifference ==
  ASSUME NEW f, NEW g, NEW h, NEW S, IsFiniteSet(S),
         \A x \in S : f[x] \in Int /\ g[x] \in Int /\ h[x] = f[x] - g[x]
  PROVE  SumFunctionOnSet(h, S) = SumFunctionOnSet(f, S) - SumFunctionOnSet(g, S)
<1>. DEFINE Wrong == {s \in SUBSET S :
       SumFunctionOnSet(h, s) # SumFunctionOnSet(f, s) - SumFunctionOnSet(g, s)}
<1>1. \A s \in SUBSET S : IsFiniteSet(s)
  BY FS_Subset
<1>2. Wrong = {}
  <2>. SUFFICES ASSUME Wrong # {}  PROVE FALSE
    OBVIOUS
  <2>1. PICK s \in Wrong : \A t \in Wrong : Cardinality(s) <= Cardinality(t)
    BY <1>1, LeastFiniteSet
  <2>2. /\ s \in SUBSET S /\ IsFiniteSet(s)
        /\ \A x \in s : f[x] \in Int /\ g[x] \in Int /\ h[x] \in Int /\ h[x] = f[x] - g[x]
    BY <1>1
  <2>3. PICK x \in s : TRUE
    BY SumOfNothing
  <2>4. /\ SumFunctionOnSet(f, s) = f[x] + SumFunctionOnSet(f, s \ {x})
        /\ SumFunctionOnSet(g, s) = g[x] + SumFunctionOnSet(g, s \ {x})
        /\ SumFunctionOnSet(h, s) = h[x] + SumFunctionOnSet(h, s \ {x})
    BY <2>2, SumTakeOut
  <2>5. s \ {x} \notin Wrong /\ s \ {x} \in SUBSET S
    <3>. HIDE DEF Wrong
    <3>1. s \in SUBSET S /\ IsFiniteSet(s)
      BY <2>2
    <3>2. Cardinality(s) \in Nat /\ Cardinality(s \ {x}) = Cardinality(s) - 1
      BY <3>1, Smaller
    <3>3. ~ Cardinality(s) <= Cardinality(s \ {x})
      BY <3>2
    <3>. QED  BY <2>1, <3>1, <3>3
  <2>6. SumFunctionOnSet(f, s \ {x}) \in Int /\ SumFunctionOnSet(g, s \ {x}) \in Int
    BY <1>1, <2>2, <2>5, SumEquation
  <2>7. SumFunctionOnSet(h, s) = SumFunctionOnSet(f, s) - SumFunctionOnSet(g, s)
    BY <2>2, <2>4, <2>5, <2>6
  <2>. QED  BY <2>7
<1>. QED  BY <1>2

\* Sums are linear: a multiple of a function adds the multiple of its sum.
LEMMA SumOfMultiple ==
  ASSUME NEW f, NEW g, NEW h, NEW S, IsFiniteSet(S), NEW c \in Int,
         \A x \in S : f[x] \in Int /\ g[x] \in Int /\ h[x] = f[x] + c * g[x]
  PROVE  SumFunctionOnSet(h, S) = SumFunctionOnSet(f, S) + c * SumFunctionOnSet(g, S)
<1>. DEFINE Wrong == {s \in SUBSET S :
       SumFunctionOnSet(h, s) # SumFunctionOnSet(f, s) + c * SumFunctionOnSet(g, s)}
<1>1. \A s \in SUBSET S : IsFiniteSet(s)
  BY FS_Subset
<1>2. Wrong = {}
  <2>. SUFFICES ASSUME Wrong # {}  PROVE FALSE
    OBVIOUS
  <2>1. PICK s \in Wrong : \A t \in Wrong : Cardinality(s) <= Cardinality(t)
    BY <1>1, LeastFiniteSet
  <2>2. /\ s \in SUBSET S /\ IsFiniteSet(s)
        /\ \A x \in s : f[x] \in Int /\ g[x] \in Int /\ h[x] \in Int /\ h[x] = f[x] + c * g[x]
    <3>1. \A a, b \in Int : a + c * b \in Int
      OBVIOUS
    <3>. QED  BY <1>1, <3>1
  <2>3. PICK x \in s : TRUE
    <3>1. SumFunctionOnSet(h, {}) = 0 /\ SumFunctionOnSet(f, {}) + c * SumFunctionOnSet(g, {}) = 0
      <4>1. 0 + c * 0 = 0
        OBVIOUS
      <4>. QED  BY <4>1, SumOfNothing
    <3>. QED  BY <3>1
  <2>4. /\ SumFunctionOnSet(f, s) = f[x] + SumFunctionOnSet(f, s \ {x})
        /\ SumFunctionOnSet(g, s) = g[x] + SumFunctionOnSet(g, s \ {x})
        /\ SumFunctionOnSet(h, s) = h[x] + SumFunctionOnSet(h, s \ {x})
    BY <2>2, SumTakeOut
  <2>5. s \ {x} \notin Wrong /\ s \ {x} \in SUBSET S
    <3>. HIDE DEF Wrong
    <3>1. s \in SUBSET S /\ IsFiniteSet(s)
      BY <2>2
    <3>2. Cardinality(s) \in Nat /\ Cardinality(s \ {x}) = Cardinality(s) - 1
      BY <3>1, Smaller
    <3>3. ~ Cardinality(s) <= Cardinality(s \ {x})
      BY <3>2
    <3>. QED  BY <2>1, <3>1, <3>3
  <2>6. SumFunctionOnSet(f, s \ {x}) \in Int /\ SumFunctionOnSet(g, s \ {x}) \in Int
    BY <1>1, <2>2, <2>5, SumEquation
  <2>7. \A a, b, d, e \in Int : (a + c * b) + (d + c * e) = (a + d) + c * (b + e)
    OBVIOUS
  <2>8. SumFunctionOnSet(h, s \ {x})
          = SumFunctionOnSet(f, s \ {x}) + c * SumFunctionOnSet(g, s \ {x})
    BY <2>5
  <2>9. SumFunctionOnSet(h, s) = SumFunctionOnSet(f, s) + c * SumFunctionOnSet(g, s)
    <3>. HIDE DEF Wrong
    <3>. QED  BY <2>2, <2>4, <2>6, <2>7, <2>8
  <2>. QED  BY <2>9
<1>. QED  BY <1>2

\* Elements outside a part whose entries are 0 do not count.
LEMMA SumOfSelected ==
  ASSUME NEW f, NEW g, NEW S, IsFiniteSet(S), NEW P \in SUBSET S,
         \A x \in P : f[x] \in Int /\ g[x] = f[x], \A x \in S \ P : g[x] = 0
  PROVE  SumFunctionOnSet(g, S) = SumFunctionOnSet(f, P)
<1>. DEFINE Wrong == {s \in SUBSET S :
       P \subseteq s /\ SumFunctionOnSet(g, s) # SumFunctionOnSet(f, P)}
<1>1. \A s \in SUBSET S : IsFiniteSet(s)
  BY FS_Subset
<1>2. SumFunctionOnSet(f, P) = SumFunctionOnSet(g, P)
  BY <1>1, SumAgrees
<1>3. Wrong = {}
  <2>. SUFFICES ASSUME Wrong # {}  PROVE FALSE
    OBVIOUS
  <2>1. PICK s \in Wrong : \A t \in Wrong : Cardinality(s) <= Cardinality(t)
    BY <1>1, LeastFiniteSet
  <2>2. IsFiniteSet(s) /\ \A x \in s : g[x] \in Int
    BY <1>1
  <2>3. PICK x \in s : x \notin P
    BY <1>2
  <2>4. SumFunctionOnSet(g, s) = g[x] + SumFunctionOnSet(g, s \ {x})
    BY <2>2, SumTakeOut
  <2>5. s \ {x} \notin Wrong /\ s \ {x} \in SUBSET S /\ P \subseteq s \ {x} /\ g[x] = 0
    BY <2>1, <2>2, <2>3, Smaller
  <2>6. SumFunctionOnSet(g, s \ {x}) \in Int
    BY <1>1, <2>2, <2>5, SumEquation
  <2>7. SumFunctionOnSet(g, s) = SumFunctionOnSet(f, P)
    BY <2>4, <2>5, <2>6
  <2>. QED  BY <2>7
<1>. QED  BY <1>3

\* One entry is at most the sum.
LEMMA EntryInSum ==
  ASSUME NEW f, NEW S, IsFiniteSet(S), \A x \in S : f[x] \in Nat, NEW x \in S
  PROVE  f[x] <= SumFunctionOnSet(f, S)
<1>1. IsFiniteSet(S \ {x}) /\ \A y \in S \ {x} : f[y] \in Nat
  BY FS_Subset
<1>2. SumFunctionOnSet(f, S) = f[x] + SumFunctionOnSet(f, S \ {x})
  BY SumTakeOut
<1>3. SumFunctionOnSet(f, S \ {x}) \in Nat
  BY <1>1, SumIsNatural
<1>. QED  BY <1>2, <1>3
\* A sum does not change when its set is shifted by one.
LEMMA SumShifted ==
  ASSUME NEW f, NEW g, NEW S, IsFiniteSet(S), S \subseteq Int,
         \A t \in S : f[t] \in Int /\ g[t + 1] = f[t]
  PROVE  SumFunctionOnSet(g, {t + 1 : t \in S}) = SumFunctionOnSet(f, S)
<1>. DEFINE Shift(s) == {t + 1 : t \in s}
            Wrong == {s \in SUBSET S : SumFunctionOnSet(g, Shift(s)) # SumFunctionOnSet(f, s)}
<1>1. \A s \in SUBSET S : IsFiniteSet(s) /\ IsFiniteSet(Shift(s))
  <2>1. ASSUME NEW s \in SUBSET S
        PROVE  IsFiniteSet(s) /\ IsFiniteSet(Shift(s))
    <3>1. IsFiniteSet(s)
      BY FS_Subset
    <3>2. [t \in s |-> t + 1] \in Surjection(s, Shift(s))
      BY DEF Surjection
    <3>3. IsFiniteSet(Shift(s))
      BY <3>1, <3>2, FS_Surjection
    <3>. QED  BY <3>1, <3>3
  <2>. QED  BY <2>1
<1>2. Wrong = {}
  <2>. SUFFICES ASSUME Wrong # {}  PROVE FALSE
    OBVIOUS
  <2>1. PICK s \in Wrong : \A t \in Wrong : Cardinality(s) <= Cardinality(t)
    BY <1>1, LeastFiniteSet
  <2>2. s \in SUBSET S /\ IsFiniteSet(s)
    BY <1>1
  <2>3. PICK x \in s : TRUE
    <3>1. Shift({}) = {}
      OBVIOUS
    <3>2. SumFunctionOnSet(g, Shift({})) = 0 /\ SumFunctionOnSet(f, {}) = 0
      BY <3>1, SumOfNothing
    <3>. QED  BY <3>2
  <2>4. s \ {x} \notin Wrong /\ s \ {x} \in SUBSET S
    <3>. HIDE DEF Wrong
    <3>1. Cardinality(s) \in Nat /\ Cardinality(s \ {x}) = Cardinality(s) - 1
      BY <2>2, Smaller
    <3>2. ~ Cardinality(s) <= Cardinality(s \ {x})
      BY <3>1
    <3>. QED  BY <2>1, <2>2, <3>2
  <2>5. SumFunctionOnSet(g, Shift(s \ {x})) = SumFunctionOnSet(f, s \ {x})
    BY <2>4
  <2>6. SumFunctionOnSet(g, Shift(s)) # SumFunctionOnSet(f, s)
    OBVIOUS
  <2>. HIDE DEF Wrong
  <2>7. SumFunctionOnSet(f, s) = f[x] + SumFunctionOnSet(f, s \ {x})
    BY <2>2, SumTakeOut
  <2>8. /\ x \in Int /\ f[x] \in Int /\ g[x + 1] = f[x]
        /\ \A t \in s : t \in Int /\ f[t] \in Int /\ g[t + 1] = f[t]
    BY <2>2
  <2>9. /\ Shift(s) \ {x + 1} = Shift(s \ {x}) /\ x + 1 \in Shift(s)
        /\ \A t \in Shift(s) : g[t] \in Int
    <3>1. \A t \in s : t + 1 = x + 1 => t = x
      BY <2>8
    <3>. QED  BY <2>8, <3>1
  <2>10. IsFiniteSet(Shift(s))
    BY <1>1, <2>2
  <2>. HIDE DEF Shift
  <2>11. SumFunctionOnSet(g, Shift(s)) = g[x + 1] + SumFunctionOnSet(g, Shift(s) \ {x + 1})
    BY <2>9, <2>10, SumTakeOut
  <2>. QED  BY <2>5, <2>6, <2>7, <2>8, <2>9, <2>11
<1>3. S \notin Wrong
  BY <1>2
<1>. QED  BY <1>3

\* The sum over two disjoint sets is that of their sums.
LEMMA SumOfUnion ==
  ASSUME NEW f, NEW A, NEW B, IsFiniteSet(A), IsFiniteSet(B), A \cap B = {},
         \A x \in A \cup B : f[x] \in Int
  PROVE  SumFunctionOnSet(f, A \cup B) = SumFunctionOnSet(f, A) + SumFunctionOnSet(f, B)
<1> DEFINE S == A \cup B
           inA == [x \in S |-> IF x \in A THEN f[x] ELSE 0]
           inB == [x \in S |-> IF x \in B THEN f[x] ELSE 0]
<1>1. IsFiniteSet(S)
  BY FS_Union
<1>2. \A x \in S : inA[x] \in Int /\ inB[x] \in Int /\ f[x] = inA[x] + 1 * inB[x]
  OBVIOUS
<1>3. SumFunctionOnSet(inA, S) = SumFunctionOnSet(f, A)
  <2>1. /\ \A x \in A : f[x] \in Int /\ inA[x] = f[x]
        /\ \A x \in S \ A : inA[x] = 0
    OBVIOUS
  <2> HIDE DEF inA
  <2> QED  BY <1>1, <2>1, SumOfSelected, A \in SUBSET S
<1>4. SumFunctionOnSet(inB, S) = SumFunctionOnSet(f, B)
  <2>1. /\ \A x \in B : f[x] \in Int /\ inB[x] = f[x]
        /\ \A x \in S \ B : inB[x] = 0
    OBVIOUS
  <2> HIDE DEF inB
  <2> QED  BY <1>1, <2>1, SumOfSelected, B \in SUBSET S
<1> HIDE DEF inA, inB
<1>5. SumFunctionOnSet(f, S) = SumFunctionOnSet(inA, S) + 1 * SumFunctionOnSet(inB, S)
  BY <1>1, <1>2, SumOfMultiple, 1 \in Int
<1>6. SumFunctionOnSet(f, B) \in Int
  BY SumEquation
<1> QED  BY <1>3, <1>4, <1>5, <1>6

\* p pairs the elements of one set with those of another.
Pairs(p, S, T) ==
  /\ \A x, y \in S : x # y => p[x] # p[y]
  /\ \A x \in S : p[x] \in T
  /\ \A y \in T : \E x \in S : p[x] = y

\* Sums over paired elements of the same values are equal.
LEMMA SumOfImage ==
  ASSUME NEW f, NEW g, NEW S, IsFiniteSet(S), NEW p, NEW T, Pairs(p, S, T),
         \A x \in S : f[x] \in Int /\ g[p[x]] = f[x]
  PROVE  /\ IsFiniteSet(T) /\ Cardinality(T) = Cardinality(S)
         /\ SumFunctionOnSet(g, T) = SumFunctionOnSet(f, S)
<1> DEFINE Image(s) == {p[x] : x \in s}
           Wrong == {s \in SUBSET S : SumFunctionOnSet(g, Image(s)) # SumFunctionOnSet(f, s)}
<1>0. /\ \A x, y \in S : x # y => p[x] # p[y]
      /\ \A x \in S : p[x] \in T
      /\ \A y \in T : \E x \in S : p[x] = y
  BY DEF Pairs
<1>1. ASSUME NEW s \in SUBSET S
      PROVE  IsFiniteSet(s) /\ IsFiniteSet(Image(s))
  <2>1. IsFiniteSet(s)
    BY FS_Subset
  <2>2. [x \in s |-> p[x]] \in Surjection(s, Image(s))
    BY DEF Surjection
  <2> QED  BY <2>1, <2>2, FS_Surjection
<1>2. Wrong = {}
  <2> SUFFICES ASSUME Wrong # {} PROVE FALSE
    OBVIOUS
  <2>1. PICK s \in Wrong : \A t \in Wrong : Cardinality(s) <= Cardinality(t)
    BY <1>1, LeastFiniteSet
  <2>2. s \in SUBSET S /\ IsFiniteSet(s) /\ IsFiniteSet(Image(s))
    BY <1>1
  <2>3. s # {}
    <3>1. Image({}) = {}
      OBVIOUS
    <3> QED  BY <3>1, SumOfNothing
  <2>4. PICK x \in s : TRUE
    BY <2>3
  <2>5. s \ {x} \notin Wrong
    <3>1. /\ Cardinality(s) \in Nat /\ Cardinality(s \ {x}) \in Nat
          /\ Cardinality(s \ {x}) = Cardinality(s) - 1
      BY <2>2, Smaller
    <3> HIDE DEF Wrong
    <3> QED  BY <2>1, <3>1
  <2>6. SumFunctionOnSet(g, Image(s \ {x})) = SumFunctionOnSet(f, s \ {x})
    BY <2>2, <2>5
  <2>7. SumFunctionOnSet(f, s) = f[x] + SumFunctionOnSet(f, s \ {x})
    BY <2>2, SumTakeOut
  <2>8. Image(s \ {x}) = Image(s) \ {p[x]} /\ p[x] \in Image(s) /\ g[p[x]] = f[x]
    BY <1>0, <2>2
  <2>9. \A y \in Image(s) : g[y] \in Int
    BY <2>2
  <2>10. SumFunctionOnSet(g, Image(s)) = g[p[x]] + SumFunctionOnSet(g, Image(s) \ {p[x]})
    BY <2>2, <2>8, <2>9, SumTakeOut
  <2>11. SumFunctionOnSet(g, Image(s)) = SumFunctionOnSet(f, s)
    BY <2>6, <2>7, <2>8, <2>10
  <2> QED  BY <2>11
<1>3. T = Image(S)
  BY <1>0
<1>4. Cardinality(T) = Cardinality(S)
  <2>1. [x \in S |-> p[x]] \in Bijection(S, T)
    BY <1>0 DEF Bijection, Injection, Surjection, IsInjective
  <2> QED  BY <2>1, FS_Bijection DEF ExistsBijection
<1>5. SumFunctionOnSet(g, Image(S)) = SumFunctionOnSet(f, S)
  <2> HIDE DEF Image
  <2> QED  BY <1>2, S \in SUBSET S
<1> QED  BY <1>1, <1>3, <1>4, <1>5, S \in SUBSET S

-----------------------------------------------------------------------------
(* Products and divisions of natural numbers.                              *)

\* Division of natural numbers rounds down.
LEMMA DivisionRoundsDown ==
  ASSUME NEW a \in Nat, NEW b \in Nat \ {0}
  PROVE  /\ a \div b \in Nat
         /\ (a \div b) * b \in Nat
         /\ (a \div b) * b <= a
<1>1. /\ a \div b \in Int
      /\ a = b * (a \div b) + (a % b)
      /\ a % b \in 0..b - 1
  OBVIOUS
<1>2. a \div b >= 0
  OBVIOUS
<1> DEFINE q == a \div b
<1>3. q \in Nat
  BY <1>1, <1>2
<1> HIDE DEF q
<1>4. q * b \in Nat /\ b * q = q * b
  BY <1>3
<1> QED  BY <1>1, <1>3, <1>4 DEF q

\* SMT does not see by itself that a product is a natural number.
LEMMA ProductNat == ASSUME NEW a \in Nat, NEW b \in Nat PROVE a * b \in Nat
OBVIOUS

\* Division is monotone.
LEMMA DivisionMonotone ==
  ASSUME NEW a \in Nat, NEW b \in Nat, a <= b, NEW n \in Nat \ {0}
  PROVE  a \div n <= b \div n
<1> DEFINE p == a \div n
           q == b \div n
<1>1. /\ p \in Int /\ q \in Int /\ a % n \in 0..n - 1 /\ b % n \in 0..n - 1
      /\ a = n * p + (a % n) /\ b = n * q + (b % n)
  OBVIOUS
<1> DEFINE r == a % n
           s == b % n
<1>2. r \in Int /\ s \in Int /\ 0 <= r /\ s < n /\ a = n * p + r /\ b = n * q + s
  BY <1>1
<1> HIDE DEF p, q, r, s
<1>3. SUFFICES ASSUME p > q PROVE FALSE
  BY <1>1 DEF p, q
<1>4. p >= q + 1 /\ p \in Int /\ q \in Int
  BY <1>1, <1>3
<1>5. \A x, y \in Int : x <= y => n * x <= n * y
  OBVIOUS
<1>6. n * (q + 1) <= n * p /\ n * (q + 1) = n * q + n /\ n * p \in Int /\ n * q \in Int
  BY <1>4, <1>5
<1> QED  BY <1>2, <1>6

\* The greatest natural number whose product is at most the dividend.
LEMMA DivisionAtLeast ==
  ASSUME NEW a \in Nat, NEW b \in Nat \ {0}, NEW n \in Nat, n * b <= a
  PROVE  n <= a \div b
<1> DEFINE q == a \div b
           r == a % b
<1>1. q \in Int /\ r \in Int /\ r < b /\ a = b * q + r
  OBVIOUS
<1> HIDE DEF q, r
<1>2. SUFFICES ASSUME n > q PROVE FALSE
  BY <1>1 DEF q
<1>3. b * (q + 1) <= b * n
  <2>1. \A x, y \in Int : x <= y => b * x <= b * y
    OBVIOUS
  <2> QED  BY <1>1, <1>2, <2>1
<1>4. b * (q + 1) = b * q + b /\ b * n = n * b /\ b * q \in Int /\ b * n \in Int
  BY <1>1
<1> QED  BY <1>1, <1>3, <1>4

\* Cross-multiplied fractions compare as their integer parts.
LEMMA FractionMonotone ==
  ASSUME NEW a \in Nat, NEW b \in Nat \ {0}, NEW c \in Nat, NEW d \in Nat \ {0},
         a * d <= c * b
  PROVE  a \div b <= c \div d
<1> DEFINE n == a \div b
<1>1. n \in Nat /\ n * b \in Nat /\ n * b <= a
  BY DivisionRoundsDown
<1> HIDE DEF n
<1>2. (n * b) * d <= a * d
  <2>1. \A x, y \in Nat : x <= y => x * d <= y * d
    OBVIOUS
  <2> QED  BY <1>1, <2>1
<1>3. (n * d) * b <= c * b
  <2>1. (n * b) * d = (n * d) * b
    BY <1>1
  <2>2. (n * d) * b \in Int /\ a * d \in Int /\ c * b \in Int
    BY <1>1
  <2> QED  BY <1>2, <2>1, <2>2
<1>4. n * d \in Nat /\ n * d <= c
  <2>1. n * d \in Nat
    BY <1>1, ProductNat
  <2>2. \A x, y \in Nat : x * b <= y * b => x <= y
    OBVIOUS
  <2> QED  BY <1>3, <2>1, <2>2
<1> QED  BY <1>1, <1>4, DivisionAtLeast DEF n

\* Rounding down loses less than one unit of the divisor.
LEMMA RemainderBelow ==
  ASSUME NEW a \in Nat, NEW b \in Nat \ {0}
  PROVE  a \div b \in Nat /\ (a \div b) * b \in Nat /\ (a \div b) * b + b > a
<1>1. /\ a \div b \in Int
      /\ a = b * (a \div b) + (a % b)
      /\ a % b \in 0..b - 1
  OBVIOUS
<1>2. a \div b \in Nat /\ (a \div b) * b \in Nat
  BY DivisionRoundsDown
<1>3. b * (a \div b) = (a \div b) * b
  BY <1>2
<1> QED  BY <1>1, <1>2, <1>3

\* Rounding up adds less than one.
LEMMA DivisionRoundsUp ==
  ASSUME NEW n \in Nat, NEW b \in Nat \ {0}
  PROVE  /\ (n + b - 1) \div b \in Nat
         /\ n <= ((n + b - 1) \div b) * b
         /\ ((n + b - 1) \div b) * b < n + b
<1> DEFINE a == (n + b - 1) \div b
<1>1. n + b - 1 \in Nat
  OBVIOUS
<1>2. /\ a \in Nat /\ a * b \in Nat /\ a * b <= n + b - 1
      /\ a * b + b > n + b - 1
  BY <1>1, DivisionRoundsDown, RemainderBelow
<1> HIDE DEF a
<1>3. n <= a * b /\ a * b < n + b
  BY <1>2
<1> QED  BY <1>2, <1>3 DEF a

\* What is worth less than the whole, by its price, is at most the whole.
LEMMA PartOfWhole ==
  ASSUME NEW a \in Nat, NEW b \in Nat, NEW s \in Nat, NEW t \in Nat,
         s < b, a * b <= s * (t + 1)
  PROVE  a <= t
<1> SUFFICES ASSUME a >= t + 1 PROVE FALSE
  OBVIOUS
<1>1. PICK p \in Nat : a = (t + 1) + p
  BY a - (t + 1) \in Nat
<1>2. PICK q \in Nat : b = s + (1 + q)
  BY b - (s + 1) \in Nat
<1>3. p * b \in Nat /\ t * (1 + q) \in Nat /\ s * (t + 1) \in Nat
  BY ProductNat, 1 + q \in Nat, t + 1 \in Nat
<1>4. a * b = (t + 1) * b + p * b
  BY <1>1
<1>5. (t + 1) * b = s * (t + 1) + (t + 1) * (1 + q)
  BY <1>2
<1>6. (t + 1) * (1 + q) = (1 + q) + t * (1 + q)
  OBVIOUS
<1> QED  BY <1>3, <1>4, <1>5, <1>6

\* Products are monotone in both factors.
LEMMA ProductMonotone ==
  ASSUME NEW x \in Nat, NEW y \in Nat, NEW p \in Nat, NEW q \in Nat, x <= y, p <= q
  PROVE  x * p <= y * q
<1>1. PICK m \in Nat : y = x + m
  BY y - x \in Nat
<1>2. PICK n \in Nat : q = p + n
  BY q - p \in Nat
<1>3. y * q = x * p + x * n + m * q
  BY <1>1, <1>2
<1>4. x * p \in Nat /\ x * n \in Nat /\ m * q \in Nat
  BY ProductNat
<1> QED  BY <1>3, <1>4

\* More pieces at a price that is no lower are worth no less, rounded too.
LEMMA ValueMonotone ==
  ASSUME NEW m \in Nat, NEW n \in Nat, m <= n
  PROVE  \A t, w \in Nat, b, d \in Nat \ {0} :
           t * d <= w * b => (m * t) \div b <= (n * w) \div d
<1> SUFFICES ASSUME NEW t \in Nat, NEW w \in Nat, NEW b \in Nat \ {0}, NEW d \in Nat \ {0},
                    t * d <= w * b
             PROVE  (m * t) \div b <= (n * w) \div d
  OBVIOUS
<1>1. t * d \in Nat /\ w * b \in Nat /\ m * t \in Nat /\ n * w \in Nat
  BY ProductNat
<1>2. m * (t * d) <= n * (w * b)
  BY <1>1, ProductMonotone
<1>3. \A x, y, z \in Nat : (x * y) * z = x * (y * z)
  OBVIOUS
<1>4. (m * t) * d = m * (t * d) /\ (n * w) * b = n * (w * b)
  BY <1>3
<1>5. (m * t) * d <= (n * w) * b
  BY <1>2, <1>4
<1> QED  BY <1>1, <1>5, FractionMonotone
\* What is divided by its own factor.
LEMMA WholeQuotient ==
  ASSUME NEW m \in Int, NEW b \in Nat \ {0}
  PROVE  (m * b) \div b = m
<1> DEFINE q == (m * b) \div b
           r == (m * b) % b
<1>1. q \in Int /\ r \in 0..b - 1 /\ m * b = b * q + r
  OBVIOUS
<1> HIDE DEF q, r
<1>2. b * (m - q) = r
  BY <1>1
<1>3. CASE m - q >= 1
  <2>1. b * (m - q) >= b
    BY <1>1, <1>3
  <2> QED  BY <1>1, <1>2, <2>1
<1>4. CASE m - q <= -1
  <2>1. b * (m - q) <= -b
    BY <1>1, <1>4
  <2> QED  BY <1>1, <1>2, <2>1
<1>5. CASE m - q = 0
  BY <1>1, <1>5 DEF q
<1> QED  BY <1>1, <1>3, <1>4, <1>5

-----------------------------------------------------------------------------
(* The sum of a whole function.                                            *)

\* It is the sum over its domain.
LEMMA SumOfFunction ==
  ASSUME NEW f
  PROVE  SumFunction(f) = SumFunctionOnSet(f, DOMAIN f)
BY DEF SumFunction, SumFunctionOnSet, FoldFunction
=============================================================================
