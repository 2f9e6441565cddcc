------------------------------- MODULE SalesProofs -------------------------------
(***************************************************************************)
(* What the store promises about money and goods outside the checkout:     *)
(* returns, counter sales, cashback, the book, the score of the reviews,   *)
(* the charges of the PSPs and what Alice says of a job, for any number of *)
(* orders, returns, carts, documents, authors, calls and materials, and    *)
(* the course that every order keeps. Most of these promises are about     *)
(* sums, so the module begins with what is needed of the sums of the       *)
(* community modules.                                                      *)
(***************************************************************************)
EXTENDS AfterSales, CounterSale, Promotions, Ledger, Reviews, Gateways, Alice,
        OrderTransactions,
        FiniteSetTheorems, WellFoundedInduction, TLAPS

-----------------------------------------------------------------------------
(* Sums over finite sets *)

\* The element that the folds of the community modules take first.
First(s) == CHOOSE x \in s : TRUE
\* A function that sums f over every subset of S.
Unfolds(g, f, S) ==
    g = [s \in SUBSET S |-> IF s = {} THEN 0 ELSE f[First(s)] + g[s \ {First(s)}]]

\* What a number has when all smaller ones have it, every number has. (P is a set: the
\* induction theorems of the library take an operator, which the provers cannot instantiate.)
LEMMA Everywhere ==
    ASSUME NEW P, \A n \in Nat : (\A m \in Nat : m < n => m \in P) => n \in P
    PROVE  \A n \in Nat : n \in P
<1> SUFFICES ASSUME Nat \ P # {} PROVE FALSE
    OBVIOUS
<1> DEFINE R == {p \in Nat \X Nat : p[1] < p[2]}
<1>1. IsWellFoundedOn(R, Nat)
    BY NatLessThanWellFounded DEF OpToRel
<1>2. PICK n \in Nat \ P : \A m \in Nat \ P : ~(<<m, n>> \in R)
  <2> HIDE DEF R
  <2> QED
    BY <1>1, WFMin
<1>3. \A m \in Nat : m < n => m \in P
    BY <1>2
<1> QED
    BY <1>3

\* The parts of a finite set.
LEMMA Parts ==
    ASSUME NEW S, IsFiniteSet(S), NEW s \in SUBSET S
    PROVE  /\ IsFiniteSet(s) /\ Cardinality(s) \in Nat
           /\ s # {} => First(s) \in s
           /\ \A x \in s : /\ s \ {x} \in SUBSET S
                           /\ Cardinality(s \ {x}) \in Nat
                           /\ Cardinality(s \ {x}) = Cardinality(s) - 1
                           /\ Cardinality(s \ {x}) < Cardinality(s)
<1>1. IsFiniteSet(s) /\ Cardinality(s) \in Nat
    BY FS_Subset, FS_CardinalityType
<1>2. s # {} => First(s) \in s
    BY DEF First
<1>3. \A x \in s : /\ s \ {x} \in SUBSET S
                   /\ Cardinality(s \ {x}) \in Nat
                   /\ Cardinality(s \ {x}) = Cardinality(s) - 1
    BY <1>1, FS_RemoveElement, FS_CardinalityType
<1> QED
    BY <1>1, <1>2, <1>3

\* Such a function exists: the sums over the sets of at most n elements, one n after the
\* other.
LEMMA SumsExist ==
    ASSUME NEW f, NEW S, IsFiniteSet(S)
    PROVE  \E g : Unfolds(g, f, S)
<1> DEFINE UpTo(n) == {s \in SUBSET S : Cardinality(s) <= n}
           UnfoldsTo(g, n) ==
               g = [s \in UpTo(n) |-> IF s = {} THEN 0 ELSE f[First(s)] + g[s \ {First(s)}]]
           P == {n \in Nat : \E g : UnfoldsTo(g, n)}
<1>1. ASSUME NEW n \in Nat, \A m \in Nat : m < n => m \in P
      PROVE  n \in P
  <2>1. CASE n = 0
    <3>1. \A s \in UpTo(0) : s = {}
      <4>1. ASSUME NEW s \in UpTo(0), s # {} PROVE FALSE
        <5>1. Cardinality(s) <= 0 /\ Cardinality(s) \in Nat /\ IsFiniteSet(s)
          BY <4>1, Parts
        <5> QED
          BY <4>1, <5>1, FS_EmptySet
      <4> QED
        BY <4>1
    <3>2. UnfoldsTo([s \in UpTo(0) |-> 0], 0)
      BY <3>1
    <3> QED
      BY <2>1, <3>2
  <2>2. CASE n > 0
    <3>1. n - 1 \in P
      <4>1. n - 1 \in Nat /\ n - 1 < n
        BY <2>2
      <4> HIDE DEF P
      <4> QED
        BY <1>1, <4>1
    <3>2. PICK g : UnfoldsTo(g, n - 1)
      BY <3>1
    <3> DEFINE h == [s \in UpTo(n) |-> IF s \in UpTo(n - 1) THEN g[s]
                                       ELSE f[First(s)] + g[s \ {First(s)}]]
    <3>3. \A s \in UpTo(n) : s # {} => s \ {First(s)} \in UpTo(n - 1)
      <4>1. ASSUME NEW s \in UpTo(n), s # {} PROVE s \ {First(s)} \in UpTo(n - 1)
        <5>1. /\ s \ {First(s)} \in SUBSET S /\ Cardinality(s \ {First(s)}) \in Nat
              /\ Cardinality(s \ {First(s)}) = Cardinality(s) - 1 /\ Cardinality(s) \in Nat
          BY <4>1, Parts
        <5> QED
          BY <4>1, <5>1
      <4> QED
        BY <4>1
    <3>4. \A s \in UpTo(n - 1) : s \in UpTo(n)
      <4>1. \A s \in SUBSET S : Cardinality(s) \in Nat
        BY Parts
      <4> QED
        BY <4>1
    <3>5. \A s \in UpTo(n - 1) : g[s] = IF s = {} THEN 0 ELSE f[First(s)] + g[s \ {First(s)}]
      BY <3>2
    <3>6. \A s \in UpTo(n - 1) : h[s] = g[s]
      BY <3>4
    <3>7. {} \in UpTo(n - 1)
      BY <2>2, FS_EmptySet
    <3>8. \A s \in UpTo(n) : h[s] = IF s = {} THEN 0 ELSE f[First(s)] + h[s \ {First(s)}]
      <4>1. ASSUME NEW s \in UpTo(n), s # {} PROVE h[s] = f[First(s)] + h[s \ {First(s)}]
        <5>1. h[s \ {First(s)}] = g[s \ {First(s)}]
          BY <3>3, <3>6, <4>1
        <5>2. h[s] = f[First(s)] + g[s \ {First(s)}]
          BY <3>5, <4>1
        <5> QED
          BY <5>1, <5>2
      <4>2. h[{}] = 0
        BY <3>5, <3>6, <3>7
      <4> QED
        BY <4>1, <4>2
    <3>9. UnfoldsTo(h, n)
      BY <3>8
    <3> HIDE DEF h, UnfoldsTo
    <3> QED
      BY <3>9
  <2> HIDE DEF P
  <2> QED
    BY <2>1, <2>2
<1>2. \A n \in Nat : n \in P
  <2> HIDE DEF P
  <2> QED
    BY <1>1, Everywhere
<1>3. Cardinality(S) \in Nat /\ UpTo(Cardinality(S)) = SUBSET S
    BY FS_CardinalityType, FS_Subset
<1>4. PICK g : UnfoldsTo(g, Cardinality(S))
    BY <1>2, <1>3
<1>5. Unfolds(g, f, S)
    BY <1>3, <1>4 DEF Unfolds
<1> QED
    BY <1>5

\* What such functions agree on does not depend on the set they were made for.
LEMMA SumsAgree ==
    ASSUME NEW f, NEW S, IsFiniteSet(S), NEW T \in SUBSET S, NEW g, NEW h,
           Unfolds(g, f, S), Unfolds(h, f, T)
    PROVE  \A s \in SUBSET T : g[s] = h[s]
<1> DEFINE P == {n \in Nat : \A s \in SUBSET T : Cardinality(s) = n => g[s] = h[s]}
<1>0. IsFiniteSet(T)
    BY FS_Subset
<1>1. ASSUME NEW n \in Nat, \A m \in Nat : m < n => m \in P
      PROVE  n \in P
  <2> SUFFICES ASSUME NEW s \in SUBSET T, Cardinality(s) = n PROVE g[s] = h[s]
      OBVIOUS
  <2>1. CASE s = {}
    BY <2>1 DEF Unfolds
  <2>2. CASE s # {}
    <3> DEFINE r == s \ {First(s)}
    <3>1. r \in SUBSET T /\ Cardinality(r) \in Nat /\ Cardinality(r) < n
      BY <1>0, <2>2, Parts
    <3>2. g[r] = h[r]
      BY <1>1, <3>1
    <3>3. g[s] = f[First(s)] + g[r] /\ h[s] = f[First(s)] + h[r]
      BY <2>2 DEF Unfolds
    <3> QED
      BY <3>2, <3>3
  <2> QED
    BY <2>1, <2>2
<1>2. \A n \in Nat : n \in P
  <2> HIDE DEF P
  <2> QED
    BY <1>1, Everywhere
<1>3. \A s \in SUBSET T : Cardinality(s) \in Nat
    BY <1>0, Parts
<1> QED
    BY <1>2, <1>3

\* The sum of the community modules is the value of any such function.
LEMMA SumIs ==
    ASSUME NEW f, NEW S, IsFiniteSet(S), NEW T \in SUBSET S, NEW g, Unfolds(g, f, S)
    PROVE  SumOver(f, T) = g[T]
<1>1. IsFiniteSet(T)
    BY FS_Subset
<1>2. \E h : Unfolds(h, f, T)
    BY <1>1, SumsExist
<1>3. \E h : Unfolds(h, f, T) /\ SumOver(f, T) = h[T]
    BY <1>2 DEF Unfolds, SumOver, MapThenSumSet, MapThenFoldSet, First
<1> QED
    BY <1>3, SumsAgree

\* Nothing, and the first element with the rest.
LEMMA SumFirst ==
    ASSUME NEW f, NEW S, IsFiniteSet(S)
    PROVE  /\ SumOver(f, {}) = 0
           /\ S # {} => SumOver(f, S) = f[First(S)] + SumOver(f, S \ {First(S)})
<1>1. PICK g : Unfolds(g, f, S)
    BY SumsExist
<1>2. SumOver(f, {}) = g[{}] /\ SumOver(f, S) = g[S]
      /\ SumOver(f, S \ {First(S)}) = g[S \ {First(S)}]
    BY <1>1, SumIs
<1> QED
    BY <1>1, <1>2 DEF Unfolds

\* The sum of integers is one.
LEMMA SumType ==
    ASSUME NEW S, IsFiniteSet(S), NEW f, \A x \in S : f[x] \in Int
    PROVE  SumOver(f, S) \in Int
<1> DEFINE P == {n \in Nat : \A s \in SUBSET S : Cardinality(s) = n => SumOver(f, s) \in Int}
<1>1. ASSUME NEW n \in Nat, \A m \in Nat : m < n => m \in P
      PROVE  n \in P
  <2> SUFFICES ASSUME NEW s \in SUBSET S, Cardinality(s) = n PROVE SumOver(f, s) \in Int
      OBVIOUS
  <2>1. CASE s = {}
    <3>1. SumOver(f, {}) = 0
      BY SumFirst
    <3> QED
      BY <2>1, <3>1
  <2>2. CASE s # {}
    <3> DEFINE r == s \ {First(s)}
    <3>1. /\ r \in SUBSET S /\ Cardinality(r) \in Nat /\ Cardinality(r) < n
          /\ First(s) \in s /\ IsFiniteSet(s)
      BY <2>2, Parts
    <3>2. SumOver(f, r) \in Int
      BY <1>1, <3>1
    <3>3. SumOver(f, s) = f[First(s)] + SumOver(f, r)
      BY <2>2, <3>1, SumFirst
    <3> QED
      BY <3>1, <3>2, <3>3
  <2> QED
    BY <2>1, <2>2
<1>2. \A n \in Nat : n \in P
  <2> HIDE DEF P
  <2> QED
    BY <1>1, Everywhere
<1> QED
    BY <1>2, FS_CardinalityType

\* Any element may be taken first.
LEMMA SumTake ==
    ASSUME NEW S, IsFiniteSet(S), NEW f, \A x \in S : f[x] \in Int, NEW y \in S
    PROVE  SumOver(f, S) = f[y] + SumOver(f, S \ {y})
<1> DEFINE P == {n \in Nat : \A s \in SUBSET S : Cardinality(s) = n =>
                     \A x \in s : SumOver(f, s) = f[x] + SumOver(f, s \ {x})}
<1>1. ASSUME NEW n \in Nat, \A m \in Nat : m < n => m \in P
      PROVE  n \in P
  <2> SUFFICES ASSUME NEW s \in SUBSET S, Cardinality(s) = n, NEW x \in s
               PROVE  SumOver(f, s) = f[x] + SumOver(f, s \ {x})
      OBVIOUS
  <2> DEFINE c == First(s)
  <2>1. c \in s /\ IsFiniteSet(s) /\ SumOver(f, s) = f[c] + SumOver(f, s \ {c})
    BY Parts, SumFirst
  <2>2. CASE x = c
    BY <2>1, <2>2
  <2>3. CASE x # c
    <3>1. /\ s \ {c} \in SUBSET S /\ Cardinality(s \ {c}) \in Nat /\ Cardinality(s \ {c}) < n
          /\ s \ {x} \in SUBSET S /\ Cardinality(s \ {x}) \in Nat /\ Cardinality(s \ {x}) < n
      BY <2>1, Parts
    <3>2. SumOver(f, s \ {c}) = f[x] + SumOver(f, (s \ {c}) \ {x})
      BY <1>1, <2>1, <2>3, <3>1
    <3>3. SumOver(f, s \ {x}) = f[c] + SumOver(f, (s \ {x}) \ {c})
      BY <1>1, <2>1, <2>3, <3>1
    <3>4. (s \ {x}) \ {c} = (s \ {c}) \ {x} /\ IsFiniteSet((s \ {c}) \ {x})
      BY <2>1, FS_Subset
    <3>5. SumOver(f, (s \ {c}) \ {x}) \in Int /\ f[x] \in Int /\ f[c] \in Int
      BY <2>1, <3>4, SumType
    <3>6. SumOver(f, s \ {x}) = f[c] + SumOver(f, (s \ {c}) \ {x})
      BY <3>3, <3>4
    <3>7. SumOver(f, s) = f[c] + (f[x] + SumOver(f, (s \ {c}) \ {x}))
      BY <2>1, <3>2
    <3> HIDE DEF c
    <3> QED
      BY <3>5, <3>6, <3>7
  <2> QED
    BY <2>2, <2>3
<1>2. \A n \in Nat : n \in P
  <2> HIDE DEF P
  <2> QED
    BY <1>1, Everywhere
<1> QED
    BY <1>2, FS_CardinalityType

\* Equal values give equal sums.
LEMMA SumSame ==
    ASSUME NEW S, IsFiniteSet(S), NEW f, NEW g, \A x \in S : f[x] = g[x]
    PROVE  SumOver(f, S) = SumOver(g, S)
<1>1. PICK h : Unfolds(h, f, S)
    BY SumsExist
<1>2. \A s \in SUBSET S : s # {} => f[First(s)] = g[First(s)]
    BY Parts
<1>3. Unfolds(h, g, S)
  <2> DEFINE u(s) == IF s = {} THEN 0 ELSE f[First(s)] + h[s \ {First(s)}]
             v(s) == IF s = {} THEN 0 ELSE g[First(s)] + h[s \ {First(s)}]
  <2>1. \A s \in SUBSET S : u(s) = v(s)
    BY <1>2
  <2>2. h = [s \in SUBSET S |-> u(s)]
    BY <1>1 DEF Unfolds
  <2>3. h = [s \in SUBSET S |-> v(s)]
    <3> HIDE DEF u, v
    <3> QED
      BY <2>1, <2>2
  <2> QED
    BY <2>3 DEF Unfolds
<1> QED
    BY <1>1, <1>3, SumIs

\* A set is summed in two parts.
LEMMA SumParts ==
    ASSUME NEW S, IsFiniteSet(S), NEW f, \A x \in S : f[x] \in Int, NEW T \in SUBSET S
    PROVE  SumOver(f, S) = SumOver(f, T) + SumOver(f, S \ T)
<1> DEFINE P == {n \in Nat : \A s \in SUBSET T : Cardinality(s) = n =>
                     SumOver(f, S) = SumOver(f, s) + SumOver(f, S \ s)}
<1>0. IsFiniteSet(T) /\ Cardinality(T) \in Nat /\ SumOver(f, {}) = 0 /\ SumOver(f, S) \in Int
    BY FS_Subset, FS_CardinalityType, SumFirst, SumType
<1>1. ASSUME NEW n \in Nat, \A m \in Nat : m < n => m \in P
      PROVE  n \in P
  <2> SUFFICES ASSUME NEW s \in SUBSET T, Cardinality(s) = n
               PROVE  SumOver(f, S) = SumOver(f, s) + SumOver(f, S \ s)
      OBVIOUS
  <2>1. CASE s = {}
    BY <1>0, <2>1
  <2>2. CASE s # {}
    <3>1. PICK x \in s : TRUE
      BY <2>2
    <3> DEFINE r == s \ {x}
    <3>2. r \in SUBSET T /\ Cardinality(r) \in Nat /\ Cardinality(r) < n /\ IsFiniteSet(s)
      BY <1>0, <3>1, Parts
    <3>3. SumOver(f, S) = SumOver(f, r) + SumOver(f, S \ r)
      BY <1>1, <3>2
    <3>4. SumOver(f, s) = f[x] + SumOver(f, r)
      BY <3>1, <3>2, SumTake
    <3>5. SumOver(f, S \ r) = f[x] + SumOver(f, (S \ r) \ {x}) /\ (S \ r) \ {x} = S \ s
      <4>1. x \in S \ r /\ (S \ r) \ {x} = S \ s /\ IsFiniteSet(S \ r)
        BY <3>1, FS_Subset
      <4> QED
        BY <4>1, SumTake
    <3>6. f[x] \in Int /\ SumOver(f, r) \in Int /\ SumOver(f, S \ s) \in Int
      <4>1. IsFiniteSet(r) /\ IsFiniteSet(S \ s)
        BY FS_Subset
      <4> QED
        BY <3>1, <4>1, SumType
    <3>7. SumOver(f, S \ r) = f[x] + SumOver(f, S \ s)
      BY <3>5
    <3> HIDE DEF r
    <3> QED
      BY <3>3, <3>4, <3>6, <3>7
  <2> QED
    BY <2>1, <2>2
<1>2. \A n \in Nat : n \in P
  <2> HIDE DEF P
  <2> QED
    BY <1>1, Everywhere
<1> QED
    BY <1>0, <1>2

\* Smaller values give a smaller sum.
LEMMA SumGrows ==
    ASSUME NEW S, IsFiniteSet(S), NEW f, NEW g,
           \A x \in S : f[x] \in Int /\ g[x] \in Int /\ f[x] <= g[x]
    PROVE  SumOver(f, S) <= SumOver(g, S)
<1> DEFINE P == {n \in Nat : \A s \in SUBSET S : Cardinality(s) = n =>
                     SumOver(f, s) <= SumOver(g, s)}
<1>0. SumOver(f, {}) = 0 /\ SumOver(g, {}) = 0
    BY SumFirst
<1>1. ASSUME NEW n \in Nat, \A m \in Nat : m < n => m \in P
      PROVE  n \in P
  <2> SUFFICES ASSUME NEW s \in SUBSET S, Cardinality(s) = n
               PROVE  SumOver(f, s) <= SumOver(g, s)
      OBVIOUS
  <2>1. CASE s = {}
    BY <1>0, <2>1
  <2>2. CASE s # {}
    <3>1. PICK x \in s : TRUE
      BY <2>2
    <3> DEFINE r == s \ {x}
    <3>2. /\ r \in SUBSET S /\ Cardinality(r) \in Nat /\ Cardinality(r) < n /\ IsFiniteSet(s)
          /\ IsFiniteSet(r)
      BY <3>1, Parts, FS_Subset
    <3>3. SumOver(f, r) <= SumOver(g, r)
      BY <1>1, <3>2
    <3>4. SumOver(f, s) = f[x] + SumOver(f, r) /\ SumOver(g, s) = g[x] + SumOver(g, r)
      BY <3>1, <3>2, SumTake
    <3>5. /\ f[x] \in Int /\ SumOver(f, r) \in Int /\ g[x] \in Int /\ SumOver(g, r) \in Int
          /\ f[x] <= g[x]
      BY <3>1, <3>2, SumType
    <3> HIDE DEF r
    <3> QED
      BY <3>3, <3>4, <3>5
  <2> QED
    BY <2>1, <2>2
<1>2. \A n \in Nat : n \in P
  <2> HIDE DEF P
  <2> QED
    BY <1>1, Everywhere
<1> QED
    BY <1>2, FS_CardinalityType

\* Nothing adds up to nothing; what is not negative adds up to more in a larger set.
LEMMA SumOfNothing ==
    ASSUME NEW S, IsFiniteSet(S), NEW f, \A x \in S : f[x] = 0
    PROVE  SumOver(f, S) = 0
<1> DEFINE P == {n \in Nat : \A s \in SUBSET S : Cardinality(s) = n => SumOver(f, s) = 0}
<1>0. SumOver(f, {}) = 0
    BY SumFirst
<1>1. ASSUME NEW n \in Nat, \A m \in Nat : m < n => m \in P
      PROVE  n \in P
  <2> SUFFICES ASSUME NEW s \in SUBSET S, Cardinality(s) = n PROVE SumOver(f, s) = 0
      OBVIOUS
  <2>1. CASE s = {}
    BY <1>0, <2>1
  <2>2. CASE s # {}
    <3>1. /\ s \ {First(s)} \in SUBSET S /\ Cardinality(s \ {First(s)}) \in Nat
          /\ Cardinality(s \ {First(s)}) < n /\ IsFiniteSet(s) /\ First(s) \in s
      BY <2>2, Parts
    <3>2. SumOver(f, s \ {First(s)}) = 0 /\ f[First(s)] = 0
      BY <1>1, <3>1
    <3> QED
      BY <2>2, <3>1, <3>2, SumFirst
  <2> QED
    BY <2>1, <2>2
<1>2. \A n \in Nat : n \in P
  <2> HIDE DEF P
  <2> QED
    BY <1>1, Everywhere
<1> QED
    BY <1>2, FS_CardinalityType

\* The sum of what is not negative, over a set and over a part of it.
LEMMA SumOfPart ==
    ASSUME NEW S, IsFiniteSet(S), NEW f, \A x \in S : f[x] \in Nat, NEW T \in SUBSET S
    PROVE  SumOver(f, S) \in Nat /\ SumOver(f, T) \in Nat /\ SumOver(f, T) <= SumOver(f, S)
<1> DEFINE zero == [x \in S |-> 0]
<1>1. ASSUME NEW s \in SUBSET S PROVE SumOver(f, s) \in Nat
  <2>1. IsFiniteSet(s)
    BY FS_Subset
  <2>2. SumOver(zero, s) = 0
    BY <2>1, SumOfNothing
  <2>3. SumOver(zero, s) <= SumOver(f, s) /\ SumOver(f, s) \in Int
    BY <2>1, SumGrows, SumType
  <2> QED
    BY <2>2, <2>3
<1>2. SumOver(f, S) = SumOver(f, T) + SumOver(f, S \ T)
    BY SumParts
<1>3. SumOver(f, S) \in Nat /\ SumOver(f, T) \in Nat /\ SumOver(f, S \ T) \in Nat
    BY <1>1
<1> QED
    BY <1>2, <1>3

\* One value changes.
LEMMA SumChange ==
    ASSUME NEW S, IsFiniteSet(S), NEW f, NEW g, NEW y \in S,
           \A x \in S : f[x] \in Int /\ g[x] \in Int,
           \A x \in S \ {y} : g[x] = f[x]
    PROVE  SumOver(g, S) = SumOver(f, S) + g[y] - f[y]
<1>1. IsFiniteSet(S \ {y})
    BY FS_Subset
<1>2. SumOver(f, S \ {y}) = SumOver(g, S \ {y})
    BY <1>1, SumSame
<1>3. SumOver(f, S) = f[y] + SumOver(f, S \ {y}) /\ SumOver(g, S) = g[y] + SumOver(g, S \ {y})
    BY SumTake
<1>4. SumOver(f, S \ {y}) \in Int /\ f[y] \in Int /\ g[y] \in Int
    BY <1>1, SumType
<1> QED
    BY <1>2, <1>3, <1>4

\* The sum of differences.
LEMMA SumOfDifference ==
    ASSUME NEW S, IsFiniteSet(S), NEW f, NEW g, NEW h,
           \A x \in S : f[x] \in Int /\ g[x] \in Int /\ h[x] = f[x] - g[x]
    PROVE  SumOver(h, S) = SumOver(f, S) - SumOver(g, S)
<1> DEFINE P == {n \in Nat : \A s \in SUBSET S : Cardinality(s) = n =>
                     SumOver(h, s) = SumOver(f, s) - SumOver(g, s)}
<1>0. SumOver(f, {}) = 0 /\ SumOver(g, {}) = 0 /\ SumOver(h, {}) = 0
    BY SumFirst
<1>1. ASSUME NEW n \in Nat, \A m \in Nat : m < n => m \in P
      PROVE  n \in P
  <2> SUFFICES ASSUME NEW s \in SUBSET S, Cardinality(s) = n
               PROVE  SumOver(h, s) = SumOver(f, s) - SumOver(g, s)
      OBVIOUS
  <2>1. CASE s = {}
    BY <1>0, <2>1
  <2>2. CASE s # {}
    <3>1. PICK x \in s : TRUE
      BY <2>2
    <3> DEFINE r == s \ {x}
    <3>2. /\ r \in SUBSET S /\ Cardinality(r) \in Nat /\ Cardinality(r) < n /\ IsFiniteSet(s)
          /\ IsFiniteSet(r)
      BY <3>1, Parts, FS_Subset
    <3>3. SumOver(h, r) = SumOver(f, r) - SumOver(g, r)
      BY <1>1, <3>2
    <3>4. /\ SumOver(f, s) = f[x] + SumOver(f, r) /\ SumOver(g, s) = g[x] + SumOver(g, r)
          /\ SumOver(h, s) = h[x] + SumOver(h, r)
      BY <3>1, <3>2, SumTake
    <3>5. /\ f[x] \in Int /\ SumOver(f, r) \in Int /\ g[x] \in Int /\ SumOver(g, r) \in Int
          /\ h[x] = f[x] - g[x]
      BY <3>1, <3>2, SumType
    <3> HIDE DEF r
    <3> QED
      BY <3>3, <3>4, <3>5
  <2> QED
    BY <2>1, <2>2
<1>2. \A n \in Nat : n \in P
  <2> HIDE DEF P
  <2> QED
    BY <1>1, Everywhere
<1> QED
    BY <1>2, FS_CardinalityType

\* What is zero elsewhere is summed where it is not.
LEMMA SumWithin ==
    ASSUME NEW S, IsFiniteSet(S), NEW f, \A x \in S : f[x] \in Int, NEW T \in SUBSET S,
           \A x \in S \ T : f[x] = 0
    PROVE  SumOver(f, S) = SumOver(f, T)
<1>1. IsFiniteSet(T) /\ IsFiniteSet(S \ T)
    BY FS_Subset
<1>2. SumOver(f, S \ T) = 0 /\ SumOver(f, T) \in Int
    BY <1>1, SumOfNothing, SumType
<1>3. SumOver(f, S) = SumOver(f, T) + SumOver(f, S \ T)
    BY SumParts
<1> QED
    BY <1>2, <1>3

-----------------------------------------------------------------------------
(* Returns *)

\* The units of a parcel, a row of order_returns with its items, and what a desk may be at.
Parcels == [Items -> Nat]
ReturnRow == [items : Parcels,
              status : {"none", "requested", "approved", "rejected", "in_transit",
                        "received", "refunded", "cancelled"},
              kind : {"regret", "defect"}, shipping : Nat, stock : BOOLEAN, posted : BOOLEAN]
DeskState == {IdleDesk} \union [step : {"restock"}, ret : Returns, items : Parcels]
             \union [step : {"ask", "psp"}, ret : Returns, all : BOOLEAN, amount : Nat]
             \union [step : {"mark", "book"}, ret : Returns]
AfterTypes ==
    /\ ret \in [Returns -> ReturnRow]
    /\ desk \in [Desks -> DeskState]
    /\ restocked \in [Returns -> Parcels]
Inspected == {"received", "refunded"}
\* A desk that puts goods back, asks for the money or enters it is at a return that came
\* that far, whatever other desks did to it since it looked.
InTime(rows, e) ==
    /\ e.step = "restock" => \A i \in Items : e.items[i] <= rows[e.ret].items[i]
    /\ e.step \in {"restock", "ask", "psp", "mark"} => rows[e.ret].status \in Inspected
    /\ e.step = "book" => rows[e.ret].status = "refunded"
DesksAreInTime == \A d \in Desks : InTime(ret, desk[d])
\* What was put back had been counted in.
ShelvedWasInspected ==
    \A r \in Returns : /\ \A i \in Items : restocked[r][i] <= ret[r].items[i]
                       /\ ret[r].status \notin Inspected => \A i \in Items : restocked[r][i] = 0
\* The units of a line that each return holds, unless it was turned down.
Taken(rows, i) == [r \in Returns |-> IF rows[r].status \in {"rejected", "cancelled"} THEN 0
                                     ELSE rows[r].items[i]]
NoUnitTwice ==
    /\ \A r \in Returns : ret[r].status = "none" => \A i \in Items : ret[r].items[i] = 0
    /\ \A i \in Items : SumOver(Taken(ret, i), Returns) <= Bought[i]
AfterInv == AfterTypes /\ DesksAreInTime /\ ShelvedWasInspected /\ NoUnitTwice

\* The lines and the returns are finitely many.
LEMMA OrderNumbers ==
    IsFiniteSet(Items) /\ IsFiniteSet(Returns) /\ Bought \in [Items -> Nat] /\ Shipping \in Nat
    BY OrderAssumption

\* The units of a parcel are a number.
LEMMA UnitsAreCounted == \A q \in Parcels : UnitsIn(q) \in Nat
<1>1. ASSUME NEW q \in Parcels PROVE UnitsIn(q) \in Nat
  <2>1. DOMAIN q = Items
    BY DEF Parcels
  <2>2. UnitsIn(q) = SumOver(q, DOMAIN q)
    BY DEF UnitsIn
  <2>3. SumOver(q, Items) \in Nat
    BY OrderNumbers, SumOfPart DEF Parcels
  <2> QED
    BY <2>1, <2>2, <2>3
<1> QED
    BY <1>1

\* Units in all live returns, as the inventory of a request counts them.
LEMMA ReturnedIs ==
    ASSUME AfterTypes, NoUnitTwice, NEW i \in Items
    PROVE  Returned(i) = SumOver(Taken(ret, i), Returns) /\ Returned(i) \in Nat
<1> DEFINE T == LiveReturns
           F == [r \in Returns |-> ret[r].items[i]]
<1>1. T \in SUBSET Returns /\ IsFiniteSet(T)
    BY OrderNumbers, FS_Subset DEF LiveReturns
<1>3. Returned(i) = SumOver(F, T)
    BY DEF Returned
<1>4. \A r \in Returns : Taken(ret, i)[r] \in Nat
    BY DEF Taken, AfterTypes, ReturnRow, Parcels
<1>5. \A r \in Returns \ T : Taken(ret, i)[r] = 0
    BY DEF Taken, LiveReturns, NoUnitTwice
<1>6. \A r \in T : F[r] = Taken(ret, i)[r]
    BY DEF Taken, LiveReturns
<1>7. SumOver(Taken(ret, i), Returns) \in Nat
    BY <1>4, OrderNumbers, SumOfPart
<1>8. SumOver(Taken(ret, i), Returns) = SumOver(Taken(ret, i), T)
  <2> HIDE DEF T
  <2> QED
    BY <1>1, <1>4, <1>5, OrderNumbers, SumWithin
<1>9. SumOver(F, T) = SumOver(Taken(ret, i), T)
  <2> HIDE DEF F, T
  <2> QED
    BY <1>1, <1>6, SumSame
<1> QED
    BY <1>3, <1>7, <1>8, <1>9

\* Nothing has been asked for.
LEMMA InitAfter == AfterInit => AfterInv
<1> SUFFICES ASSUME AfterInit PROVE AfterInv
    OBVIOUS
<1>1. [i \in Items |-> 0] \in Parcels
    BY DEF Parcels
<1>2. AfterTypes
    BY <1>1 DEF AfterInit, AfterTypes, NoOne, ReturnRow, DeskState
<1>3. DesksAreInTime /\ ShelvedWasInspected
    BY <1>1 DEF AfterInit, DesksAreInTime, InTime, IdleDesk, ShelvedWasInspected, NoOne
<1>4. \A i \in Items : SumOver(Taken(ret, i), Returns) = 0
  <2>1. \A i \in Items, r \in Returns : Taken(ret, i)[r] = 0
    BY DEF AfterInit, Taken, NoOne
  <2> QED
    BY <2>1, OrderNumbers, SumOfNothing
<1>5. NoUnitTwice
  <2>1. \A i \in Items : SumOver(Taken(ret, i), Returns) <= Bought[i]
    BY <1>4, OrderNumbers
  <2>2. \A r \in Returns, i \in Items : ret[r].items[i] = 0
    BY DEF AfterInit, NoOne
  <2> QED
    BY <2>1, <2>2 DEF NoUnitTwice
<1> QED
    BY <1>2, <1>3, <1>5 DEF AfterInv

\* A return changes: what it holds of each line may become less, or more by what no live
\* return holds.
LEMMA RowKeepsUnits ==
    ASSUME AfterTypes, NoUnitTwice, NEW r \in Returns, NEW row \in ReturnRow,
           ret' = [ret EXCEPT ![r] = row],
           row.status = "none" => \A i \in Items : row.items[i] = 0,
           \A i \in Items : \/ row.status \in {"rejected", "cancelled"}
                            \/ /\ row.items[i] = ret[r].items[i]
                               /\ ret[r].status \notin {"rejected", "cancelled"}
                            \/ /\ ret[r].status = "none"
                               /\ row.items[i] <= UnitsLeft(i)
    PROVE  NoUnitTwice'
<1>2. ASSUME NEW i \in Items PROVE SumOver(Taken(ret', i), Returns) <= Bought[i]
  <2> DEFINE old == Taken(ret, i)
             new == Taken(ret', i)
  <2>1. /\ \A k \in Returns : old[k] \in Nat /\ new[k] \in Nat
        /\ \A k \in Returns \ {r} : new[k] = old[k]
        /\ old[r] \in Nat /\ new[r] \in Nat
        /\ new[r] = IF row.status \in {"rejected", "cancelled"} THEN 0 ELSE row.items[i]
        /\ old[r] = IF ret[r].status \in {"rejected", "cancelled"} THEN 0 ELSE ret[r].items[i]
    BY DEF AfterTypes, Taken, ReturnRow, Parcels
  <2>2. SumOver(old, Returns) <= Bought[i] /\ Bought[i] \in Nat /\ SumOver(old, Returns) \in Nat
        /\ UnitsLeft(i) = Bought[i] - SumOver(old, Returns)
    BY OrderNumbers, ReturnedIs DEF NoUnitTwice, UnitsLeft
  <2>3. ret[r].status = "none" => ret[r].items[i] = 0
    BY DEF NoUnitTwice
  <2> HIDE DEF old, new
  <2>4. SumOver(new, Returns) = SumOver(old, Returns) + new[r] - old[r]
    <3>1. \A k \in Returns : old[k] \in Int /\ new[k] \in Int
      BY <2>1
    <3> QED
      BY <2>1, <3>1, OrderNumbers, SumChange
  <2>5. new[r] <= old[r] \/ (old[r] = 0 /\ new[r] <= UnitsLeft(i))
    BY <2>1, <2>3
  <2>6. SumOver(new, Returns) <= Bought[i]
    BY <2>1, <2>2, <2>4, <2>5
  <2> QED
    BY <2>6 DEF new
<1>3. \A k \in Returns : ret'[k].status = "none" => \A i \in Items : ret'[k].items[i] = 0
    BY DEF AfterTypes, NoUnitTwice
<1> QED
    BY <1>2, <1>3 DEF NoUnitTwice

\* A row that keeps its goods and its status keeps all that is counted.
LEMMA SameRowKeepsUnits ==
    ASSUME NoUnitTwice, \A r \in Returns : /\ ret'[r].status = ret[r].status
                                           /\ ret'[r].items = ret[r].items
    PROVE  NoUnitTwice'
<1>1. \A i \in Items : Taken(ret', i) = Taken(ret, i)
    BY DEF Taken
<1> QED
    BY <1>1 DEF NoUnitTwice

\* A row moves on: nobody's work on the return, and nothing on the shelf, is disturbed.
LEMMA RowMoves ==
    ASSUME AfterInv, NEW r \in Returns, NEW row \in ReturnRow,
           ret' = [ret EXCEPT ![r] = row],
           row.items = ret[r].items \/ ret[r].status \notin Inspected,
           ret[r].status \in Inspected => row.status \in Inspected,
           ret[r].status = "refunded" => row.status = "refunded"
    PROVE  /\ ret' \in [Returns -> ReturnRow]
           /\ \A d \in Desks : InTime(ret', desk[d])
           /\ UNCHANGED restocked => ShelvedWasInspected'
<1>1. ret \in [Returns -> ReturnRow] /\ desk \in [Desks -> DeskState]
    BY DEF AfterInv, AfterTypes
<1>2. \A k \in Returns : /\ ret'[k].items = ret[k].items \/ ret[k].status \notin Inspected
                         /\ ret[k].status \in Inspected => ret'[k].status \in Inspected
                         /\ ret[k].status = "refunded" => ret'[k].status = "refunded"
    BY <1>1
<1>3. ASSUME NEW d \in Desks PROVE InTime(ret', desk[d])
  <2>1. InTime(ret, desk[d])
    BY DEF AfterInv, DesksAreInTime
  <2>2. desk[d].step \in {"restock", "ask", "psp", "mark", "book"} => desk[d].ret \in Returns
    BY <1>1 DEF DeskState, IdleDesk
  <2> QED
    BY <1>2, <2>1, <2>2 DEF InTime
<1>4. ASSUME UNCHANGED restocked PROVE ShelvedWasInspected'
  <2> SUFFICES ASSUME NEW k \in Returns, NEW i \in Items
               PROVE  /\ restocked[k][i] <= ret'[k].items[i]
                      /\ ret'[k].status \notin Inspected => restocked[k][i] = 0
      BY <1>4 DEF ShelvedWasInspected
  <2>1. /\ restocked[k][i] <= ret[k].items[i]
        /\ ret[k].status \notin Inspected => restocked[k][i] = 0
    BY DEF AfterInv, ShelvedWasInspected
  <2>2. ret'[k].items[i] \in Nat
    BY <1>1 DEF ReturnRow, Parcels
  <2> QED
    BY <1>2, <2>1, <2>2
<1> QED
    BY <1>1, <1>3, <1>4

\* A desk moves on, and nothing else.
LEMMA DeskMoves ==
    ASSUME AfterInv, NEW d \in Desks, NEW e \in DeskState, desk' = [desk EXCEPT ![d] = e],
           UNCHANGED <<ret, restocked>>, InTime(ret, e)
    PROVE  AfterInv'
<1>1. AfterTypes'
    BY DEF AfterInv, AfterTypes
<1>2. DesksAreInTime'
    BY DEF AfterInv, AfterTypes, DesksAreInTime
<1>3. ShelvedWasInspected' /\ NoUnitTwice'
  <2>1. ret' = ret /\ restocked' = restocked
    OBVIOUS
  <2> QED
    BY <2>1, SameRowKeepsUnits DEF AfterInv, ShelvedWasInspected
<1> QED
    BY <1>1, <1>2, <1>3 DEF AfterInv

\* A flag of a return is set, or is not, and the desk goes idle.
LEMMA FlagKeeps ==
    ASSUME AfterInv, NEW d \in Desks, NEW r \in Returns, NEW row \in ReturnRow,
           row.items = ret[r].items, row.status = ret[r].status,
           SetFlag([ret EXCEPT ![r] = row]), desk' = [desk EXCEPT ![d] = IdleDesk]
    PROVE  /\ restocked' \in [Returns -> Parcels] => AfterTypes'
           /\ DesksAreInTime' /\ NoUnitTwice'
           /\ \A k \in Returns : /\ ret'[k].status = ret[k].status
                                 /\ ret'[k].items = ret[k].items
           /\ UNCHANGED restocked => ShelvedWasInspected'
<1>1. ret \in [Returns -> ReturnRow] /\ desk \in [Desks -> DeskState] /\ IdleDesk \in DeskState
    BY DEF AfterInv, AfterTypes, DeskState
<1>2. ret' \in [Returns -> ReturnRow]
      /\ \A k \in Returns : ret'[k].status = ret[k].status /\ ret'[k].items = ret[k].items
    BY <1>1 DEF SetFlag
<1>3. desk' \in [Desks -> DeskState] /\ \A k \in Desks : desk'[k] = desk[k] \/ desk'[k] = IdleDesk
    BY <1>1
<1>4. DesksAreInTime'
  <2> SUFFICES ASSUME NEW k \in Desks PROVE InTime(ret', desk'[k])
      BY DEF DesksAreInTime
  <2>1. CASE desk'[k] = IdleDesk
    BY <2>1 DEF InTime, IdleDesk
  <2>2. CASE desk'[k] = desk[k]
    <3>1. InTime(ret, desk[k])
      BY DEF AfterInv, DesksAreInTime
    <3>2. desk[k].step \in {"restock", "ask", "psp", "mark", "book"} => desk[k].ret \in Returns
      BY <1>1 DEF DeskState, IdleDesk
    <3> QED
      BY <1>2, <2>2, <3>1, <3>2 DEF InTime
  <2> QED
    BY <1>3, <2>1, <2>2
<1>5. NoUnitTwice'
    BY <1>2, SameRowKeepsUnits DEF AfterInv
<1>6. UNCHANGED restocked => ShelvedWasInspected'
    BY <1>2 DEF AfterInv, ShelvedWasInspected
<1> QED
    BY <1>2, <1>3, <1>4, <1>5, <1>6 DEF AfterTypes

\* A row is another one with four of its fields set.
NewRow(N, q, k, s, h) == [N EXCEPT !.items = q, !.kind = k, !.status = s, !.shipping = h]
\* What such a row is, written out.
LEMMA FourFields ==
    ASSUME NEW z, NEW n, NEW r, NEW o, NEW f, NEW g, NEW q, NEW k, NEW s, NEW h, NEW N,
           N = [items |-> z, status |-> n, kind |-> r, shipping |-> o, stock |-> f, posted |-> g]
    PROVE  NewRow(N, q, k, s, h) =
           [items |-> q, status |-> s, kind |-> k, shipping |-> h, stock |-> f, posted |-> g]
<1> DEFINE b == [N EXCEPT !.items = q]
           c == [b EXCEPT !.kind = k]
           d == [c EXCEPT !.status = s]
<1>1. b = [items |-> q, status |-> n, kind |-> r, shipping |-> o, stock |-> f, posted |-> g]
    OBVIOUS
<1> HIDE DEF b
<1>2. c = [items |-> q, status |-> n, kind |-> k, shipping |-> o, stock |-> f, posted |-> g]
    BY <1>1
<1> HIDE DEF c
<1>3. d = [items |-> q, status |-> s, kind |-> k, shipping |-> o, stock |-> f, posted |-> g]
    BY <1>2
<1> HIDE DEF d
<1>4. [d EXCEPT !.shipping = h] =
      [items |-> q, status |-> s, kind |-> k, shipping |-> h, stock |-> f, posted |-> g]
    BY <1>3
<1>5. [d EXCEPT !.shipping = h] = NewRow(N, q, k, s, h)
    BY DEF b, c, d, NewRow
<1> QED
    BY <1>4, <1>5

\* Quantities up to a cap are quantities.
LEMMA UpToACap ==
    ASSUME NEW m, NEW q \in [Items -> 0..m]
    PROVE  q \in Parcels
<1>1. \A x \in 0..m : x \in Nat
    OBVIOUS
<1> QED
    BY <1>1 DEF Parcels

\* The row of a return that is opened.
LEMMA OpenedRow ==
    ASSUME NEW r \in Returns, NEW q \in Parcels, NEW actor, NEW reason,
           OpenReturn(r, q, actor, reason)
    PROVE  \E row \in ReturnRow :
               /\ ret' = [ret EXCEPT ![r] = row] /\ row.items = q
               /\ row.status = IF RegretOpen THEN "approved" ELSE "requested"
<1> DEFINE kind == IF RegretOpen THEN "regret" ELSE "defect"
           status == IF RegretOpen THEN "approved" ELSE "requested"
           shipping == IF RegretOpen /\ TakesAllThatIsLeft(q) THEN Shipping ELSE 0
           row == NewRow(NoOne, q, kind, status, shipping)
<1>0. /\ kind \in {"regret", "defect"} /\ status \in {"approved", "requested"}
      /\ shipping \in Nat
    BY OrderNumbers
<1>4. ret' = [ret EXCEPT ![r] = row]
    BY DEF OpenReturn, NewRow
<1> HIDE DEF kind, status, shipping
<1>2. row = [items |-> q, status |-> status, kind |-> kind, shipping |-> shipping,
             stock |-> FALSE, posted |-> FALSE]
  <2> DEFINE nothing == [i \in Items |-> 0]
             no == FALSE
  <2>1. NoOne = [items |-> nothing, status |-> "none", kind |-> "regret", shipping |-> 0,
                 stock |-> no, posted |-> no]
    BY DEF NoOne
  <2> HIDE DEF nothing, no
  <2>2. row = [items |-> q, status |-> status, kind |-> kind, shipping |-> shipping,
               stock |-> no, posted |-> no]
    BY <2>1, FourFields
  <2> QED
    BY <2>2 DEF no
<1>3. row \in ReturnRow /\ row.items = q /\ row.status = status
    BY <1>0, <1>2 DEF ReturnRow
<1> HIDE DEF row
<1> QED
    BY <1>3, <1>4 DEF status

\* Every step of a request keeps the invariant: one lemma for the rows, one for the desks
\* that only move on, one for each of the others.
LEMMA OpenKeeps ==
    ASSUME AfterInv, NEW r \in Returns, NEW q \in Wanted, NEW actor, NEW reason,
           OpenReturn(r, q, actor, reason)
    PROVE  AfterInv'
<1>1. q \in Parcels
    BY UpToACap DEF Wanted
<1>2. PICK row \in ReturnRow : /\ ret' = [ret EXCEPT ![r] = row] /\ row.items = q
                              /\ row.status = IF RegretOpen THEN "approved" ELSE "requested"
    BY <1>1, OpenedRow
<1>3. row.items = q /\ row.status \in {"approved", "requested"}
    BY <1>2
<1>4. ret' = [ret EXCEPT ![r] = row] /\ UNCHANGED <<desk, restocked>> /\ ret[r].status = "none"
    BY <1>2 DEF OpenReturn
<1>5. \A i \in Items : row.items[i] <= UnitsLeft(i)
    BY <1>3 DEF OpenReturn, Evaluate, Resolvable
<1>6. ret[r].status \notin Inspected
    BY <1>4 DEF Inspected
<1>7. /\ ret' \in [Returns -> ReturnRow] /\ \A d \in Desks : InTime(ret', desk[d])
      /\ ShelvedWasInspected'
    BY <1>3, <1>4, <1>6, RowMoves
<1>8. NoUnitTwice'
    BY <1>3, <1>4, <1>5, RowKeepsUnits DEF AfterInv
<1> QED
    BY <1>4, <1>7, <1>8 DEF AfterInv, AfterTypes, DesksAreInTime

\* A return is decided on, counted in, or marked refunded: its goods stay what they are.
LEMMA StatusKeeps ==
    ASSUME AfterInv, NEW r \in Returns, NEW to, ret' = [ret EXCEPT ![r].status = to],
           CanTransition(ret[r].status, to)
    PROVE  /\ ret' \in [Returns -> ReturnRow] /\ ret'[r].status = to
           /\ \A d \in Desks : InTime(ret', desk[d])
           /\ UNCHANGED restocked => ShelvedWasInspected'
           /\ NoUnitTwice'
<1> DEFINE row == [ret[r] EXCEPT !.status = to]
<1>1. ret[r] \in ReturnRow /\ ret \in [Returns -> ReturnRow]
    BY DEF AfterInv, AfterTypes
<1>2. row \in ReturnRow /\ row.items = ret[r].items /\ row.status = to
    BY <1>1 DEF CanTransition, ReturnRow
<1>3. ret' = [ret EXCEPT ![r] = row]
    OBVIOUS
<1>4. /\ ret[r].status \in Inspected => to \in Inspected
      /\ ret[r].status # "refunded" /\ to # "none"
      /\ ret[r].status \notin {"rejected", "cancelled"}
    BY DEF CanTransition, Inspected
<1> HIDE DEF row
<1>5. /\ ret' \in [Returns -> ReturnRow] /\ \A d \in Desks : InTime(ret', desk[d])
      /\ UNCHANGED restocked => ShelvedWasInspected'
    BY <1>2, <1>3, <1>4, RowMoves
<1>6. NoUnitTwice'
    BY <1>2, <1>3, <1>4, RowKeepsUnits DEF AfterInv
<1> QED
    BY <1>1, <1>2, <1>3, <1>5, <1>6

\* The goods are counted in and a desk takes the usable ones to the shelf.
LEMMA ReceiveKeeps ==
    ASSUME AfterInv, NEW d \in Desks, NEW r \in Returns, NEW q \in UsableUnits(r),
           ReceiveReturn(d, r, q)
    PROVE  AfterInv'
<1>1. q \in Parcels /\ \A i \in Items : q[i] <= ret[r].items[i]
    BY UpToACap DEF UsableUnits
<1> DEFINE e == IF UnitsIn(q) = 0 THEN IdleDesk
                ELSE [step |-> "restock", ret |-> r, items |-> q]
<1>2. /\ ret' = [ret EXCEPT ![r].status = "received"] /\ CanTransition(ret[r].status, "received")
      /\ desk' = [desk EXCEPT ![d] = e] /\ UNCHANGED restocked
    BY DEF ReceiveReturn
<1>3. /\ ret' \in [Returns -> ReturnRow] /\ ret'[r].status = "received"
      /\ \A k \in Desks : InTime(ret', desk[k])
      /\ ShelvedWasInspected' /\ NoUnitTwice'
    BY <1>2, StatusKeeps
<1>4. ret'[r].items = ret[r].items
    BY <1>2 DEF AfterInv, AfterTypes
<1>5. e \in DeskState /\ InTime(ret', e)
    BY <1>1, <1>3, <1>4 DEF DeskState, InTime, IdleDesk, Inspected
<1> HIDE DEF e
<1>6. desk \in [Desks -> DeskState] /\ restocked \in [Returns -> Parcels]
    BY DEF AfterInv, AfterTypes
<1> QED
    BY <1>2, <1>3, <1>5, <1>6 DEF AfterInv, AfterTypes, DesksAreInTime

\* The goods are put back, unless they had been.
LEMMA RestockKeeps ==
    ASSUME AfterInv, NEW d \in Desks, RestockReturn(d)
    PROVE  AfterInv'
<1> DEFINE r == desk[d].ret
           row == [ret[r] EXCEPT !.stock = TRUE]
<1>1. /\ r \in Returns /\ desk[d].items \in Parcels /\ InTime(ret, desk[d])
      /\ desk[d].step = "restock" /\ ret[r] \in ReturnRow
      /\ restocked \in [Returns -> Parcels]
    BY DEF RestockReturn, AfterInv, AfterTypes, DesksAreInTime, DeskState, IdleDesk
<1>2. row \in ReturnRow /\ row.items = ret[r].items /\ row.status = ret[r].status
    BY <1>1 DEF ReturnRow
<1>3. /\ SetFlag([ret EXCEPT ![r] = row]) /\ desk' = [desk EXCEPT ![d] = IdleDesk]
      /\ restocked' = restocked \/ restocked' = [restocked EXCEPT ![r] = desk[d].items]
    BY DEF RestockReturn, PutBack
<1>4. /\ restocked' \in [Returns -> Parcels] => AfterTypes'
      /\ DesksAreInTime' /\ NoUnitTwice'
      /\ \A k \in Returns : ret'[k].status = ret[k].status /\ ret'[k].items = ret[k].items
      /\ UNCHANGED restocked => ShelvedWasInspected'
  <2> HIDE DEF row, r
  <2> QED
    BY <1>1, <1>2, <1>3, FlagKeeps
<1>5. restocked' \in [Returns -> Parcels]
    BY <1>1, <1>3
<1>6. CASE restocked' = [restocked EXCEPT ![r] = desk[d].items]
  <2>1. /\ \A i \in Items : restocked'[r][i] <= ret[r].items[i]
        /\ ret[r].status \in Inspected
        /\ \A k \in Returns \ {r} : restocked'[k] = restocked[k]
    BY <1>1, <1>6 DEF InTime
  <2>2. ShelvedWasInspected'
    BY <1>4, <2>1 DEF AfterInv, ShelvedWasInspected
  <2> QED
    BY <1>4, <1>5, <2>2 DEF AfterInv
<1>7. CASE UNCHANGED restocked
    BY <1>4, <1>5, <1>7 DEF AfterInv
<1> QED
    BY <1>3, <1>6, <1>7

\* The refund is asked for, refused, lost or given up, and the money is paid.
LEMMA RefundDesksKeep ==
    ASSUME AfterInv, NEW d \in Desks,
           \/ \E r \in Returns : BeginRefund(d, r)
           \/ ReserveRefund(d) \/ PspRefunds(d) \/ PspRefuses(d)
           \/ StepFails(d) \/ PspAnswerLost(d) \/ PaymentDies(d)
    PROVE  AfterInv'
<1>0. /\ desk[d] \in DeskState /\ InTime(ret, desk[d]) /\ IdleDesk \in DeskState
      /\ InTime(ret, IdleDesk)
    BY DEF AfterInv, AfterTypes, DesksAreInTime, DeskState, InTime, IdleDesk
<1>1. ASSUME NEW r \in Returns, BeginRefund(d, r) PROVE AfterInv'
  <2>1. CASE ret[r].status = "refunded" /\ desk' = [desk EXCEPT ![d] = [step |-> "book", ret |-> r]]
    <3>1. [step |-> "book", ret |-> r] \in DeskState /\ InTime(ret, [step |-> "book", ret |-> r])
      BY <2>1 DEF DeskState, InTime
    <3> QED
      BY <1>1, <2>1, <3>1, DeskMoves DEF BeginRefund
  <2>2. CASE /\ CanTransition(ret[r].status, "refunded")
             /\ desk' = [desk EXCEPT ![d] = [step |-> "ask", ret |-> r, all |-> FullReturn,
                                             amount |-> RefundValue(r)]]
    <3> DEFINE e == [step |-> "ask", ret |-> r, all |-> FullReturn, amount |-> RefundValue(r)]
    <3>1. RefundValue(r) \in Nat
      <4>1. ret[r].items \in Parcels /\ ret[r].shipping \in Nat
        BY DEF AfterInv, AfterTypes, ReturnRow
      <4>2. UnitsIn(ret[r].items) \in Nat
        BY <4>1, UnitsAreCounted
      <4> QED
        BY <4>1, <4>2 DEF RefundValue
    <3>2. FullReturn \in BOOLEAN
      BY DEF FullReturn
    <3>3. e \in DeskState /\ InTime(ret, e)
      BY <2>2, <3>1, <3>2 DEF DeskState, InTime, CanTransition, Inspected
    <3> HIDE DEF e
    <3> QED
      BY <1>1, <2>2, <3>3, DeskMoves DEF BeginRefund, e
  <2> QED
    BY <1>1, <2>1, <2>2 DEF BeginRefund
<1>2. CASE ReserveRefund(d)
  <2>1. PICK r \in Returns, all \in BOOLEAN, n \in Nat, t \in {"ask"} :
            desk[d] = [step |-> t, ret |-> r, all |-> all, amount |-> n]
    BY <1>0, <1>2 DEF ReserveRefund, DeskState, IdleDesk
  <2> DEFINE e == [step |-> "mark", ret |-> r]
             f == [step |-> "psp", ret |-> r, all |-> all, amount |-> n]
  <2>2. e \in DeskState /\ f \in DeskState /\ InTime(ret, e) /\ InTime(ret, f)
    BY <1>0, <2>1 DEF DeskState, InTime
  <2>3. [desk[d] EXCEPT !.step = "psp"] = f
    BY <2>1
  <2>4. (desk' = [desk EXCEPT ![d] = e] \/ desk' = [desk EXCEPT ![d] = f])
        /\ UNCHANGED <<ret, restocked>>
    BY <1>2, <2>1, <2>3 DEF ReserveRefund
  <2> HIDE DEF e, f
  <2> QED
    BY <2>2, <2>4, DeskMoves
<1>3. CASE PspRefunds(d)
  <2> DEFINE e == [step |-> "mark", ret |-> desk[d].ret]
  <2>1. e \in DeskState /\ InTime(ret, e)
    BY <1>0, <1>3 DEF PspRefunds, DeskState, IdleDesk, InTime
  <2>2. desk' = [desk EXCEPT ![d] = e] /\ UNCHANGED <<ret, restocked>>
    BY <1>3 DEF PspRefunds
  <2> HIDE DEF e
  <2> QED
    BY <2>1, <2>2, DeskMoves
<1>4. CASE PspRefuses(d) \/ StepFails(d) \/ PspAnswerLost(d) \/ PaymentDies(d)
  <2>1. desk' = [desk EXCEPT ![d] = IdleDesk] /\ UNCHANGED <<ret, restocked>>
    BY <1>4 DEF PspRefuses, StepFails, PspAnswerLost, PaymentDies
  <2> QED
    BY <1>0, <2>1, DeskMoves
<1> QED
    BY <1>1, <1>2, <1>3, <1>4

\* The return is marked refunded, unless another desk did.
LEMMA MarkKeeps ==
    ASSUME AfterInv, NEW d \in Desks, MarkRefunded(d)
    PROVE  AfterInv'
<1> DEFINE r == desk[d].ret
           e == [step |-> "book", ret |-> r]
<1>1. /\ desk[d] = [step |-> "mark", ret |-> r] /\ r \in Returns /\ ret[r].status \in Inspected
      /\ desk \in [Desks -> DeskState] /\ restocked \in [Returns -> Parcels]
    BY DEF MarkRefunded, AfterInv, AfterTypes, DesksAreInTime, InTime, DeskState, IdleDesk
<1>2. desk' = [desk EXCEPT ![d] = e] /\ UNCHANGED restocked /\ e \in DeskState
  <2>1. [desk[d] EXCEPT !.step = "book"] = e
    BY <1>1
  <2> QED
    BY <1>1, <2>1 DEF MarkRefunded, DeskState
<1>3. CASE ret[r].status = "refunded" /\ UNCHANGED ret
  <2>1. InTime(ret, e)
    BY <1>3 DEF InTime
  <2> HIDE DEF e, r
  <2> QED
    BY <1>2, <1>3, <2>1, DeskMoves
<1>4. CASE ret[r].status # "refunded" /\ ret' = [ret EXCEPT ![r].status = "refunded"]
  <2>1. CanTransition(ret[r].status, "refunded")
    BY <1>1, <1>4 DEF Inspected, CanTransition
  <2>2. /\ ret' \in [Returns -> ReturnRow] /\ ret'[r].status = "refunded"
        /\ \A k \in Desks : InTime(ret', desk[k])
        /\ ShelvedWasInspected' /\ NoUnitTwice'
    BY <1>1, <1>2, <1>4, <2>1, StatusKeeps
  <2>3. InTime(ret', e)
    BY <2>2 DEF InTime
  <2> HIDE DEF e, r
  <2> QED
    BY <1>1, <1>2, <2>2, <2>3 DEF AfterInv, AfterTypes, DesksAreInTime
<1> QED
    BY <1>3, <1>4 DEF MarkRefunded

\* The refund is entered in the ledger, and the flag set.
LEMMA PostKeeps ==
    ASSUME AfterInv, NEW d \in Desks, PostRefund(d)
    PROVE  AfterInv'
<1> DEFINE r == desk[d].ret
           row == [ret[r] EXCEPT !.posted = TRUE]
<1>1. r \in Returns /\ ret[r] \in ReturnRow /\ restocked \in [Returns -> Parcels]
    BY DEF PostRefund, AfterInv, AfterTypes, DeskState, IdleDesk
<1>2. row \in ReturnRow /\ row.items = ret[r].items /\ row.status = ret[r].status
    BY <1>1 DEF ReturnRow
<1>3. /\ SetFlag([ret EXCEPT ![r] = row]) /\ desk' = [desk EXCEPT ![d] = IdleDesk]
      /\ restocked' = restocked
    BY DEF PostRefund
<1> HIDE DEF row, r
<1> QED
    BY <1>1, <1>2, <1>3, FlagKeeps DEF AfterInv

\* Every step keeps the invariant.
LEMMA AfterStep ==
    ASSUME AfterInv, [AfterNext]_afterVars
    PROVE  AfterInv'
<1>1. ASSUME NEW r \in Returns, NEW q \in Wanted, NEW actor, NEW reason,
             OpenReturn(r, q, actor, reason)
      PROVE  AfterInv'
    BY <1>1, OpenKeeps
<1>2. ASSUME NEW r \in Returns, NEW to, NEW note, DecideReturn(r, to, note)
      PROVE  AfterInv'
  <2>1. /\ ret' = [ret EXCEPT ![r].status = to] /\ CanTransition(ret[r].status, to)
        /\ UNCHANGED <<desk, restocked>>
    BY <1>2 DEF DecideReturn
  <2>2. /\ ret' \in [Returns -> ReturnRow] /\ \A d \in Desks : InTime(ret', desk[d])
        /\ ShelvedWasInspected' /\ NoUnitTwice'
    BY <2>1, StatusKeeps
  <2> QED
    BY <2>1, <2>2 DEF AfterInv, AfterTypes, DesksAreInTime
<1>3. ASSUME NEW d \in Desks, NEW r \in Returns, NEW q \in UsableUnits(r),
             ReceiveReturn(d, r, q)
      PROVE  AfterInv'
    BY <1>3, ReceiveKeeps
<1>4. ASSUME NEW d \in Desks,
             \/ RestockReturn(d) \/ ReserveRefund(d) \/ PspRefunds(d) \/ PspRefuses(d)
             \/ MarkRefunded(d) \/ PostRefund(d)
             \/ StepFails(d) \/ PspAnswerLost(d) \/ PaymentDies(d)
      PROVE  AfterInv'
    BY <1>4, RestockKeeps, MarkKeeps, PostKeeps, RefundDesksKeep
<1>5. ASSUME NEW d \in Desks, NEW r \in Returns, BeginRefund(d, r)
      PROVE  AfterInv'
    BY <1>5, RefundDesksKeep
<1>6. CASE NextDay \/ UNCHANGED afterVars
  <2>1. ret' = ret /\ desk' = desk /\ restocked' = restocked
    BY <1>6 DEF NextDay, afterVars
  <2>2. NoUnitTwice'
    BY <2>1, SameRowKeepsUnits DEF AfterInv
  <2> QED
    BY <2>1, <2>2 DEF AfterInv, AfterTypes, DesksAreInTime, ShelvedWasInspected
<1> QED
    BY <1>1, <1>2, <1>3, <1>4, <1>5, <1>6 DEF AfterNext

\* The invariant holds in every state of an order's returns.
LEMMA AfterInvAlways == AfterSpec => []AfterInv
<1>1. AfterInit => AfterInv
    BY InitAfter
<1>2. AfterInv /\ [AfterNext]_afterVars => AfterInv'
    BY AfterStep
<1> QED
    BY <1>1, <1>2, PTL DEF AfterSpec

\* No unit of the order is in two live returns, and none is put back for sale twice or before
\* somebody counted it in (the sum of internal/returns.UnitsLeft and the restock of the
\* catalogue, whatever requests run side by side).
THEOREM NoUnitComesBackTwice == AfterSpec => []NothingComesBackTwice
<1>1. ASSUME AfterInv, NEW i \in Items
      PROVE  LET taken == [r \in Returns |-> ret[r].items[i]]
                 shelved == [r \in Returns |-> restocked[r][i]]
             IN /\ SumOver(taken, {r \in Returns : ret[r].status \notin {"rejected", "cancelled"}})
                   <= Bought[i]
                /\ SumOver(shelved, Returns) <=
                   SumOver(taken, {r \in Returns : ret[r].status \in {"received", "refunded"}})
  <2> DEFINE T == {r \in Returns : ret[r].status \notin {"rejected", "cancelled"}}
             H == {r \in Returns : ret[r].status \in {"received", "refunded"}}
             F == [r \in Returns |-> ret[r].items[i]]
             G == [r \in Returns |-> restocked[r][i]]
  <2>1. /\ T \in SUBSET Returns /\ H \in SUBSET Returns
        /\ IsFiniteSet(T) /\ IsFiniteSet(H) /\ IsFiniteSet(Returns)
    BY OrderNumbers, FS_Subset
  <2>2. /\ \A r \in Returns : Taken(ret, i)[r] \in Int
        /\ \A r \in Returns \ T : Taken(ret, i)[r] = 0
        /\ \A r \in T : F[r] = Taken(ret, i)[r]
    BY <1>1 DEF Taken, AfterInv, AfterTypes, ReturnRow, Parcels
  <2>3. /\ \A r \in Returns : G[r] \in Int
        /\ \A r \in Returns \ H : G[r] = 0
        /\ \A r \in H : G[r] \in Int /\ F[r] \in Int /\ G[r] <= F[r]
    BY <1>1 DEF AfterInv, AfterTypes, ReturnRow, Parcels, ShelvedWasInspected, Inspected
  <2>4. SumOver(Taken(ret, i), Returns) <= Bought[i]
    BY <1>1 DEF AfterInv, NoUnitTwice
  <2> SUFFICES SumOver(F, T) <= Bought[i] /\ SumOver(G, Returns) <= SumOver(F, H)
      OBVIOUS
  <2> HIDE DEF F, G, T, H
  <2>5. SumOver(F, T) = SumOver(Taken(ret, i), T)
    BY <2>1, <2>2, SumSame
  <2>6. SumOver(Taken(ret, i), Returns) = SumOver(Taken(ret, i), T)
    BY <2>1, <2>2, SumWithin
  <2>7. SumOver(G, Returns) = SumOver(G, H)
    BY <2>1, <2>3, SumWithin
  <2>8. SumOver(G, H) <= SumOver(F, H)
    BY <2>1, <2>3, SumGrows
  <2> QED
    BY <2>4, <2>5, <2>6, <2>7, <2>8
<1>3. AfterInv => NothingComesBackTwice
    BY <1>1 DEF NothingComesBackTwice
<1> QED
    BY <1>3, AfterInvAlways, PTL

\* What of the services ReturnJourney sees.
Stage(rows) == [r \in Returns |-> rows[r].status]
OnTheShelf(shelf) == {r \in Returns : UnitsIn(shelf[r]) > 0}
InTheBook(posted) == {r \in Returns : posted[r] > 0}
LedgerType == ledger \in [Returns -> Nat]

\* The status of a return moves on along the table.
LEMMA StatusMaps ==
    ASSUME ret \in [Returns -> ReturnRow], NEW r \in Returns, NEW to,
           ret' = [ret EXCEPT ![r].status = to], CanTransition(ret[r].status, to),
           UNCHANGED <<restocked, ledger>>
    PROVE  Journey!JourneyNext
<1>1. \A k \in Returns : ret'[k].status = IF k = r THEN to ELSE ret[k].status
    BY DEF ReturnRow
<1>2. Stage(ret') = [Stage(ret) EXCEPT ![r] = to] /\ Stage(ret)[r] = ret[r].status
    BY <1>1 DEF Stage
<1>3. to \in Journey!ReturnStatuses /\ Journey!CanMove(Stage(ret)[r], to)
    BY <1>2 DEF CanTransition, Journey!CanMove, Journey!AllowedMoves, Journey!ReturnStatuses
<1>4. Journey!Move(r)
    BY <1>2, <1>3 DEF Journey!Move, Stage
<1> QED
    BY <1>4 DEF Journey!JourneyNext

\* A return is opened.
LEMMA OpenMaps ==
    ASSUME AfterInv, NEW r \in Returns, NEW q \in Wanted, NEW actor, NEW reason,
           OpenReturn(r, q, actor, reason)
    PROVE  Journey!JourneyNext
<1> DEFINE status == IF RegretOpen THEN "approved" ELSE "requested"
<1>1. /\ Stage(ret') = [Stage(ret) EXCEPT ![r] = status]
      /\ Stage(ret)[r] = "none" /\ status \in {"requested", "approved"}
      /\ UNCHANGED <<restocked, ledger>>
  <2>0. ret \in [Returns -> ReturnRow] /\ q \in Parcels
    BY UpToACap DEF AfterInv, AfterTypes, Wanted
  <2>1. PICK row \in ReturnRow : ret' = [ret EXCEPT ![r] = row] /\ row.status = status
    BY <2>0, OpenedRow
  <2>2. ret[r].status = "none" /\ UNCHANGED <<restocked, ledger>>
    BY DEF OpenReturn
  <2> HIDE DEF status
  <2>3. \A k \in Returns : ret'[k].status = IF k = r THEN status ELSE ret[k].status
    BY <2>0, <2>1
  <2> QED
    BY <2>2, <2>3 DEF Stage, status
<1>2. Journey!Open(r)
  <2> HIDE DEF status
  <2> QED
    BY <1>1 DEF Journey!Open, Stage
<1> QED
    BY <1>2 DEF Journey!JourneyNext

\* The goods of an inspected return are put back, once.
LEMMA RestockMaps ==
    ASSUME AfterInv, NEW d \in Desks, RestockReturn(d)
    PROVE  Journey!JourneyNext \/ UNCHANGED Journey!journeyVars
<1> DEFINE r == desk[d].ret
<1>1. /\ r \in Returns /\ desk[d].items \in Parcels /\ ret[r].status \in Inspected
      /\ ret \in [Returns -> ReturnRow] /\ restocked \in [Returns -> Parcels]
    BY DEF RestockReturn, AfterInv, AfterTypes, DesksAreInTime, InTime, DeskState, IdleDesk
<1>2. \A k \in Returns : ret'[k].status = ret[k].status
    BY <1>1 DEF RestockReturn, SetFlag, ReturnRow
<1>3. Stage(ret') = Stage(ret) /\ ledger' = ledger
    BY <1>2 DEF Stage, RestockReturn
<1>4. CASE restocked' = restocked
    BY <1>3, <1>4 DEF Journey!journeyVars, Stage
<1>5. CASE /\ ~(UnitsIn(restocked[r]) > 0)
           /\ restocked' = [restocked EXCEPT ![r] = desk[d].items]
  <2>1. \A k \in Returns \ {r} : restocked'[k] = restocked[k]
    BY <1>1, <1>5
  <2>2. restocked'[r] = desk[d].items
    BY <1>1, <1>5
  <2>3. CASE UnitsIn(desk[d].items) > 0
    <3>1. OnTheShelf(restocked') = OnTheShelf(restocked) \union {r} /\ r \notin OnTheShelf(restocked)
      BY <1>1, <1>5, <2>1, <2>2, <2>3 DEF OnTheShelf
    <3>2. r \in Journey!Inspected
      BY <1>1 DEF Journey!Inspected, Inspected
    <3>3. Journey!Shelve(r)
      BY <1>3, <3>1, <3>2 DEF Journey!Shelve, OnTheShelf, Stage
    <3> QED
      BY <1>1, <3>3 DEF Journey!JourneyNext
  <2>4. CASE ~(UnitsIn(desk[d].items) > 0)
    <3>1. OnTheShelf(restocked') = OnTheShelf(restocked)
      BY <1>1, <1>5, <2>1, <2>2, <2>4 DEF OnTheShelf
    <3> QED
      BY <1>3, <3>1 DEF Journey!journeyVars, OnTheShelf, Stage
  <2> QED
    BY <2>3, <2>4
<1> QED
    BY <1>4, <1>5 DEF RestockReturn, PutBack

\* The refund of a return that was refunded is entered, once.
LEMMA PostMaps ==
    ASSUME AfterInv, LedgerType, NEW d \in Desks, PostRefund(d)
    PROVE  LedgerType' /\ (Journey!JourneyNext \/ UNCHANGED Journey!journeyVars)
<1>0. desk[d].ret \in Returns
    BY DEF PostRefund, AfterInv, AfterTypes, DeskState, IdleDesk
<1> PICK r \in Returns : r = desk[d].ret
    BY <1>0
<1>1. /\ r \in Returns /\ ret[r].status = "refunded" /\ ret \in [Returns -> ReturnRow]
      /\ ledger \in [Returns -> Nat]
    BY DEF PostRefund, AfterInv, AfterTypes, DesksAreInTime, InTime, DeskState, IdleDesk, LedgerType
<1>2. \A k \in Returns : ret'[k].status = ret[k].status
    BY <1>1 DEF PostRefund, SetFlag, ReturnRow
<1>3. Stage(ret') = Stage(ret) /\ restocked' = restocked
    BY <1>2 DEF Stage, PostRefund
<1>4. RefundValue(r) \in Nat
  <2>1. ret[r].items \in Parcels /\ ret[r].shipping \in Nat
    BY <1>1 DEF ReturnRow
  <2> QED
    BY <2>1, UnitsAreCounted DEF RefundValue
<1>5. /\ ledger[r] = 0 => ledger'[r] = RefundValue(r)
      /\ ledger[r] # 0 => ledger'[r] = ledger[r]
      /\ \A k \in Returns \ {r} : ledger'[k] = ledger[k]
      /\ ledger' \in [Returns -> Nat]
    BY <1>1, <1>4 DEF PostRefund, BookRefund
<1>6. CASE ledger[r] = 0 /\ RefundValue(r) > 0
  <2>1. InTheBook(ledger') = InTheBook(ledger) \union {r} /\ r \notin InTheBook(ledger)
    BY <1>1, <1>5, <1>6 DEF InTheBook
  <2>2. r \in Journey!Refunded
    BY <1>1 DEF Journey!Refunded
  <2>3. Journey!Book(r)
    BY <1>3, <2>1, <2>2 DEF Journey!Book, InTheBook, Stage
  <2>4. Journey!JourneyNext
    BY <2>3 DEF Journey!JourneyNext
  <2> QED
    BY <1>5, <2>4 DEF LedgerType
<1>7. CASE ~(ledger[r] = 0 /\ RefundValue(r) > 0)
  <2>1. InTheBook(ledger') = InTheBook(ledger)
    BY <1>1, <1>4, <1>5, <1>7 DEF InTheBook
  <2> QED
    BY <1>3, <1>5, <2>1 DEF Journey!journeyVars, InTheBook, Stage, LedgerType
<1> QED
    BY <1>6, <1>7

\* A parcel of nothing has no units.
LEMMA NothingIsNoUnits == UnitsIn([i \in Items |-> 0]) = 0
<1> DEFINE q == [i \in Items |-> 0]
<1>1. DOMAIN q = Items /\ \A i \in Items : q[i] = 0
    OBVIOUS
<1> HIDE DEF q
<1>2. UnitsIn(q) = SumOver(q, DOMAIN q)
    BY DEF UnitsIn
<1>3. SumOver(q, Items) = 0
    BY <1>1, OrderNumbers, SumOfNothing
<1> QED
    BY <1>1, <1>2, <1>3 DEF q

\* What the services do to a return, step by step, is what ReturnJourney promises of it: the
\* table of returns/transition.go, goods back on the shelf at most once and after somebody
\* counted them in, one refund entry per return.
THEOREM ServicesKeepTheJourney == AfterSpec => ImplementsReturnJourney
<1>1. AfterInit => Journey!JourneyInit /\ LedgerType
  <2> SUFFICES ASSUME AfterInit PROVE Journey!JourneyInit /\ LedgerType
      OBVIOUS
  <2>1. Stage(ret) = [r \in Returns |-> "none"]
    BY DEF AfterInit, NoOne, Stage
  <2>2. OnTheShelf(restocked) = {} /\ InTheBook(ledger) = {}
    BY NothingIsNoUnits DEF AfterInit, OnTheShelf, InTheBook
  <2>3. ledger \in [Returns -> Nat]
    BY DEF AfterInit
  <2> QED
    BY <2>1, <2>2, <2>3 DEF Journey!JourneyInit, Stage, OnTheShelf, InTheBook, LedgerType
<1>2. AfterInv /\ LedgerType /\ [AfterNext]_afterVars
      => LedgerType' /\ [Journey!JourneyNext]_Journey!journeyVars
  <2> SUFFICES ASSUME AfterInv, LedgerType, [AfterNext]_afterVars
               PROVE  LedgerType' /\ (Journey!JourneyNext \/ UNCHANGED Journey!journeyVars)
      OBVIOUS
  <2>0. ret \in [Returns -> ReturnRow]
    BY DEF AfterInv, AfterTypes
  <2>1. ASSUME NEW r \in Returns, NEW q \in Wanted, NEW actor, NEW reason,
               OpenReturn(r, q, actor, reason)
        PROVE  LedgerType' /\ Journey!JourneyNext
    <3>1. ledger' = ledger
      BY <2>1 DEF OpenReturn
    <3> QED
      BY <2>1, <3>1, OpenMaps DEF LedgerType
  <2>2. ASSUME NEW r \in Returns, NEW to, NEW note, DecideReturn(r, to, note)
        PROVE  LedgerType' /\ Journey!JourneyNext
    <3>1. /\ ret' = [ret EXCEPT ![r].status = to] /\ CanTransition(ret[r].status, to)
          /\ UNCHANGED <<restocked, ledger>>
      BY <2>2 DEF DecideReturn
    <3> QED
      BY <2>0, <3>1, StatusMaps DEF LedgerType
  <2>3. ASSUME NEW d \in Desks, NEW r \in Returns, NEW q, ReceiveReturn(d, r, q)
        PROVE  LedgerType' /\ Journey!JourneyNext
    <3>1. /\ ret' = [ret EXCEPT ![r].status = "received"] /\ CanTransition(ret[r].status, "received")
          /\ UNCHANGED <<restocked, ledger>>
      BY <2>3 DEF ReceiveReturn
    <3> QED
      BY <2>0, <3>1, StatusMaps DEF LedgerType
  <2>4. ASSUME NEW d \in Desks, MarkRefunded(d)
        PROVE  LedgerType' /\ (Journey!JourneyNext \/ UNCHANGED Journey!journeyVars)
    <3> DEFINE r == desk[d].ret
    <3>1. r \in Returns /\ ret[r].status \in Inspected
      BY <2>4 DEF MarkRefunded, AfterInv, AfterTypes, DesksAreInTime, InTime, DeskState, IdleDesk
    <3>2. UNCHANGED <<restocked, ledger>>
      BY <2>4 DEF MarkRefunded
    <3>3. CASE UNCHANGED ret
      BY <3>2, <3>3 DEF LedgerType, Journey!journeyVars
    <3>4. CASE ret[r].status # "refunded" /\ ret' = [ret EXCEPT ![r].status = "refunded"]
      <4>1. CanTransition(ret[r].status, "refunded")
        BY <3>1, <3>4 DEF Inspected, CanTransition
      <4> QED
        BY <2>0, <3>1, <3>2, <3>4, <4>1, StatusMaps DEF LedgerType
    <3> QED
      BY <2>4, <3>3, <3>4 DEF MarkRefunded
  <2>5. ASSUME NEW d \in Desks, RestockReturn(d)
        PROVE  LedgerType' /\ (Journey!JourneyNext \/ UNCHANGED Journey!journeyVars)
    <3>1. ledger' = ledger
      BY <2>5 DEF RestockReturn
    <3> QED
      BY <2>5, <3>1, RestockMaps DEF LedgerType
  <2>6. ASSUME NEW d \in Desks, PostRefund(d)
        PROVE  LedgerType' /\ (Journey!JourneyNext \/ UNCHANGED Journey!journeyVars)
    BY <2>6, PostMaps
  <2>7. ASSUME NEW d \in Desks,
               \/ \E r \in Returns : BeginRefund(d, r)
               \/ ReserveRefund(d) \/ PspRefunds(d) \/ PspRefuses(d)
               \/ StepFails(d) \/ PspAnswerLost(d) \/ PaymentDies(d)
        PROVE  LedgerType' /\ UNCHANGED Journey!journeyVars
    <3>1. UNCHANGED <<ret, restocked, ledger>>
      BY <2>7 DEF BeginRefund, ReserveRefund, PspRefunds, PspRefuses, StepFails, PspAnswerLost,
                  PaymentDies
    <3> QED
      BY <3>1 DEF LedgerType, Journey!journeyVars
  <2>8. CASE NextDay \/ UNCHANGED afterVars
    BY <2>8 DEF NextDay, afterVars, LedgerType, Journey!journeyVars
  <2> QED
    BY <2>1, <2>2, <2>3, <2>4, <2>5, <2>6, <2>7, <2>8 DEF AfterNext
<1> QED
    BY <1>1, <1>2, AfterInvAlways, PTL DEF AfterSpec, ImplementsReturnJourney, Journey!JourneySpec

-----------------------------------------------------------------------------
(* Counter sales *)

\* A row of orders of the channel balcao, and what a settlement request may be at.
SaleRow == [status : {"pending_payment", "paid", "cancelled"}, store : Stores,
            operator : People, pct : 0..100, limit : 0..100,
            approval : {"not_required", "pending", "approved", "rejected"},
            approver : People \union {Nobody}, receipt : Receipts \union {Nobody},
            stock : {"reserved", "sold", "free"}]
TillState == {FreeTill} \union [step : {"locked"}, sale : CounterSales, receipt : Receipts]
             \union [step : {"post", "commit"}, sale : CounterSales, first : BOOLEAN]
CounterTypes ==
    /\ sale \in [CounterSales -> {NoSale} \union SaleRow]
    /\ till \in [Tills -> TillState]
    /\ booked \subseteq CounterSales
    /\ bond \in [People -> Bonds] /\ was \in [People -> Bonds]
\* Who approved is not who sold; a discount above the limit waits; and no row that waits, or
\* was turned down, has a receipt.
Backed(row) ==
    /\ row.approval = "approved" => row.approver \notin {Nobody, row.operator}
    /\ row.pct > row.limit => row.approval # "not_required"
    /\ row.receipt # Nobody => row.approval \notin {"pending", "rejected"}
\* What a request that holds the lock has checked, and what one that was done with it has left.
Served(row, e) ==
    /\ e.step = "locked" => /\ row # NoSale /\ row.receipt = Nobody
                            /\ row.approval \notin {"pending", "rejected"}
    /\ e.step \in {"post", "commit"} => row # NoSale /\ row.receipt # Nobody
AllBacked == \A s \in CounterSales : sale[s] # NoSale => Backed(sale[s])
AllServed == \A t \in Tills : till[t].step # "free" => Served(sale[till[t].sale], till[t])
OneLockPerSale ==
    \A t, u \in Tills : (till[t].step = "locked" /\ till[u].step = "locked"
                          /\ till[t].sale = till[u].sale) => t = u
ReceiptsAreUnique ==
    \A s, o \in CounterSales :
        (sale[s] # NoSale /\ sale[o] # NoSale /\ s # o /\ sale[s].store = sale[o].store
         /\ sale[s].receipt = sale[o].receipt) => sale[s].receipt = Nobody
TrailIsTrue ==
    \A e \in trail : e[1] = "settled" =>
        /\ e[2] \in CounterSales /\ sale[e[2]] # NoSale /\ sale[e[2]].receipt # Nobody
        /\ e = <<"settled", e[2], sale[e[2]].receipt>>
BookedWereSettled == \A s \in booked : sale[s] # NoSale /\ sale[s].receipt # Nobody
CounterInv == CounterTypes /\ AllBacked /\ AllServed /\ OneLockPerSale /\ ReceiptsAreUnique
              /\ TrailIsTrue /\ BookedWereSettled

\* A sale that changes in what a settlement does not look at leaves everything as it was.
LEMMA SaleMoves ==
    ASSUME CounterInv, NEW s \in CounterSales, NEW row \in SaleRow,
           sale[s] # NoSale, sale' = [sale EXCEPT ![s] = row],
           row.store = sale[s].store, row.operator = sale[s].operator,
           row.pct = sale[s].pct, row.limit = sale[s].limit,
           row.receipt = sale[s].receipt, Backed(row),
           \/ row.approval = sale[s].approval
           \/ \A t \in Tills : ~(till[t].step = "locked" /\ till[t].sale = s)
    PROVE  /\ sale' \in [CounterSales -> {NoSale} \union SaleRow]
           /\ AllBacked'
           /\ UNCHANGED till => AllServed'
           /\ ReceiptsAreUnique'
           /\ UNCHANGED trail => TrailIsTrue'
           /\ UNCHANGED booked => BookedWereSettled'
           /\ \A k \in CounterSales : /\ sale[k] # NoSale <=> sale'[k] # NoSale
                                      /\ sale[k] # NoSale => sale'[k].receipt = sale[k].receipt
<1>0. row # NoSale
    BY DEF SaleRow, NoSale
<1>1. sale \in [CounterSales -> {NoSale} \union SaleRow] /\ till \in [Tills -> TillState]
      /\ booked \subseteq CounterSales
    BY DEF CounterInv, CounterTypes
<1>2. sale'[s] = row /\ \A k \in CounterSales \ {s} : sale'[k] = sale[k]
    BY <1>1
<1>3. \A k \in CounterSales :
        /\ sale[k] # NoSale <=> sale'[k] # NoSale
        /\ sale[k] # NoSale => /\ sale'[k].receipt = sale[k].receipt
                               /\ sale'[k].store = sale[k].store
    BY <1>0, <1>2
<1>4. AllBacked'
    BY <1>2 DEF CounterInv, AllBacked
<1>5. ReceiptsAreUnique'
    BY <1>3 DEF CounterInv, ReceiptsAreUnique
<1>6. UNCHANGED booked => BookedWereSettled'
    BY <1>1, <1>3 DEF CounterInv, BookedWereSettled
<1>7. UNCHANGED trail => TrailIsTrue'
    BY <1>3 DEF CounterInv, TrailIsTrue
<1>8. ASSUME UNCHANGED till PROVE AllServed'
  <2> SUFFICES ASSUME NEW t \in Tills, till[t].step # "free"
               PROVE  Served(sale'[till[t].sale], till[t])
      BY <1>8 DEF AllServed
  <2>1. till[t].sale \in CounterSales /\ Served(sale[till[t].sale], till[t])
    BY <1>1 DEF CounterInv, AllServed, TillState, FreeTill
  <2>2. CASE till[t].sale = s
    BY <1>0, <1>2, <2>1, <2>2 DEF Served
  <2>3. CASE till[t].sale # s
    BY <1>2, <2>1, <2>3
  <2> QED
    BY <2>2, <2>3
<1> QED
    BY <1>1, <1>3, <1>4, <1>5, <1>6, <1>7, <1>8

\* A request moves on, and no sale does.
LEMMA TillMoves ==
    ASSUME CounterInv, NEW t \in Tills, NEW e \in TillState, till' = [till EXCEPT ![t] = e],
           sale' = sale,
           e.step # "free" => Served(sale[e.sale], e),
           e.step = "locked" => Unlocked(e.sale)
    PROVE  till' \in [Tills -> TillState] /\ AllServed' /\ OneLockPerSale'
<1>1. till \in [Tills -> TillState]
    BY DEF CounterInv, CounterTypes
<1>2. till'[t] = e /\ \A u \in Tills \ {t} : till'[u] = till[u]
    BY <1>1
<1>3. AllServed'
    BY <1>2 DEF CounterInv, AllServed
<1>4. e.step = "locked" => \A u \in Tills : ~(till[u].step = "locked" /\ till[u].sale = e.sale)
    BY DEF Unlocked, SettlingRows
<1>5. OneLockPerSale'
    BY <1>2, <1>4 DEF CounterInv, OneLockPerSale
<1> QED
    BY <1>1, <1>3, <1>5

\* Nothing has been sold.
LEMMA InitCounter == CounterInit => CounterInv
<1> SUFFICES ASSUME CounterInit PROVE CounterInv
    OBVIOUS
<1>1. bond \in [People -> Bonds] /\ was \in [People -> Bonds]
    BY CounterAssumption DEF CounterInit
<1>2. CounterTypes
    BY <1>1 DEF CounterInit, CounterTypes, TillState
<1>3. \A s \in CounterSales : sale[s] = NoSale
    BY DEF CounterInit
<1>4. \A t \in Tills : till[t].step = "free"
    BY DEF CounterInit, FreeTill
<1> QED
    BY <1>2, <1>3, <1>4 DEF CounterInit, CounterInv, AllBacked, AllServed, OneLockPerSale,
                            ReceiptsAreUnique, TrailIsTrue, BookedWereSettled

\* A sale is made, with no more discount than its seller may give, or waits.
LEMMA SaleKeeps ==
    ASSUME CounterInv, NEW p \in People, NEW s \in CounterSales, NEW store \in Stores,
           NEW pct \in Discounts, SellAtCounter(p, s, store, pct)
    PROVE  CounterInv'
<1>1. pct \in 0..100
    BY CounterAssumption
<1>2. PICK a \in Actors(p) : sale' = [sale EXCEPT ![s] =
              [status |-> "pending_payment", store |-> store, operator |-> p, pct |-> pct,
               limit |-> a.ceiling, approval |-> ApprovalOf(pct, a.ceiling),
               approver |-> Nobody, receipt |-> Nobody, stock |-> "reserved"]]
    BY DEF SellAtCounter
<1>3. a.ceiling \in 0..100
    BY CounterAssumption DEF Actors, CounterInv, CounterTypes, Unbound
<1> DEFINE row == [status |-> "pending_payment", store |-> store, operator |-> p, pct |-> pct,
                   limit |-> a.ceiling, approval |-> ApprovalOf(pct, a.ceiling),
                   approver |-> Nobody, receipt |-> Nobody, stock |-> "reserved"]
<1>4. /\ row \in SaleRow /\ row.receipt = Nobody /\ Backed(row) /\ row # NoSale
    BY <1>1, <1>3 DEF SaleRow, ApprovalOf, Backed, NoSale
<1>5. sale' = [sale EXCEPT ![s] = row] /\ sale[s] = NoSale
      /\ UNCHANGED <<bond, was, till, booked, trail>>
    BY <1>2 DEF SellAtCounter
<1> HIDE DEF row
<1>6. sale \in [CounterSales -> {NoSale} \union SaleRow] /\ till \in [Tills -> TillState]
    BY DEF CounterInv, CounterTypes
<1>7. sale'[s] = row /\ \A k \in CounterSales \ {s} : sale'[k] = sale[k]
    BY <1>5, <1>6
<1>8. CounterTypes'
    BY <1>4, <1>5, <1>6 DEF CounterInv, CounterTypes
<1>9. AllBacked' /\ ReceiptsAreUnique' /\ TrailIsTrue' /\ BookedWereSettled' /\ OneLockPerSale'
  <2>1. AllBacked'
    BY <1>4, <1>7 DEF CounterInv, AllBacked
  <2>2. ReceiptsAreUnique'
    BY <1>4, <1>7 DEF CounterInv, ReceiptsAreUnique
  <2>3. \A k \in CounterSales : sale[k] # NoSale => sale'[k] = sale[k]
    BY <1>5, <1>7
  <2>4. TrailIsTrue' /\ BookedWereSettled'
    BY <1>5, <2>3 DEF CounterInv, TrailIsTrue, BookedWereSettled, CounterTypes
  <2> QED
    BY <1>5, <2>1, <2>2, <2>4 DEF CounterInv, OneLockPerSale
<1>10. AllServed'
  <2> SUFFICES ASSUME NEW t \in Tills, till[t].step # "free"
               PROVE  Served(sale'[till[t].sale], till[t])
      BY <1>5 DEF AllServed
  <2>1. till[t].sale \in CounterSales /\ Served(sale[till[t].sale], till[t])
        /\ till[t].step \in {"locked", "post", "commit"}
    BY <1>6 DEF CounterInv, AllServed, TillState, FreeTill
  <2>2. till[t].sale # s
    BY <1>5, <2>1 DEF Served
  <2> QED
    BY <1>7, <2>1, <2>2
<1> QED
    BY <1>8, <1>9, <1>10 DEF CounterInv

\* Somebody other than the seller decides about the discount.
LEMMA ApprovalKeeps ==
    ASSUME CounterInv, NEW p \in People, NEW s \in CounterSales,
           NEW decision \in {"approved", "rejected"}, DecideApproval(p, s, decision)
    PROVE  CounterInv'
<1> DEFINE row == [sale[s] EXCEPT !.approval = decision, !.approver = p]
<1>1. /\ sale' = [sale EXCEPT ![s] = row] /\ UNCHANGED <<bond, was, till, booked, trail>>
      /\ sale[s] \in SaleRow /\ sale[s].approval = "pending" /\ sale[s].operator # p
      /\ \A t \in Tills : ~(till[t].step = "locked" /\ till[t].sale = s)
      /\ Backed(sale[s]) /\ sale[s] # NoSale
    BY DEF DecideApproval, CanApprove, CounterInv, CounterTypes, AllBacked, Unlocked, SettlingRows
<1>2. /\ row.store = sale[s].store /\ row.operator = sale[s].operator /\ row.pct = sale[s].pct
      /\ row.limit = sale[s].limit /\ row.receipt = sale[s].receipt
      /\ row.approval = decision /\ row.approver = p /\ row \in SaleRow
    BY <1>1 DEF SaleRow
<1>3. Backed(row)
  <2> HIDE DEF row
  <2>1. p # Nobody /\ sale[s].receipt = Nobody
    BY <1>1, CounterAssumption DEF Backed
  <2> QED
    BY <1>1, <1>2, <2>1 DEF Backed
<1> HIDE DEF row
<1>4. /\ sale' \in [CounterSales -> {NoSale} \union SaleRow]
      /\ AllBacked' /\ AllServed' /\ ReceiptsAreUnique' /\ TrailIsTrue' /\ BookedWereSettled'
    BY <1>1, <1>2, <1>3, SaleMoves
<1> QED
    BY <1>1, <1>4 DEF CounterInv, CounterTypes, OneLockPerSale

\* A sale is confirmed, cancelled, swept, or its goods leave.
LEMMA OtherSalesKeep ==
    ASSUME CounterInv, NEW s \in CounterSales,
           \/ ConfirmByPSP(s) \/ CancelSale(s) \/ SweepSale(s)
           \/ \E t \in Tills : CommitStock(t) /\ till[t].sale = s
    PROVE  CounterInv'
<1>1. PICK st \in {"pending_payment", "paid", "cancelled"}, k \in {"reserved", "sold", "free"} :
          /\ sale[s] # NoSale /\ sale[s] \in SaleRow
          /\ \/ sale' = [sale EXCEPT ![s].status = st, ![s].stock = k]
             \/ sale' = [sale EXCEPT ![s].stock = k] /\ sale[s].status = st
  <2>1. sale[s] # NoSale /\ sale[s] \in SaleRow
    <3>1. CASE ConfirmByPSP(s) \/ CancelSale(s) \/ SweepSale(s)
      BY <3>1 DEF ConfirmByPSP, CancelSale, SweepSale, NoSale, CounterInv, CounterTypes
    <3>2. CASE \E t \in Tills : CommitStock(t) /\ till[t].sale = s
      BY <3>2 DEF CommitStock, CounterInv, CounterTypes, AllServed, Served
    <3> QED
      BY <3>1, <3>2
  <2>2. /\ sale[s].status \in {"pending_payment", "paid", "cancelled"}
        /\ sale[s].stock \in {"reserved", "sold", "free"}
    BY <2>1 DEF SaleRow
  <2>3. CASE ConfirmByPSP(s)
    BY <2>1, <2>2, <2>3 DEF ConfirmByPSP
  <2>4. CASE CancelSale(s)
    BY <2>1, <2>2, <2>4 DEF CancelSale
  <2>5. CASE SweepSale(s)
    BY <2>1, <2>2, <2>5 DEF SweepSale
  <2>6. CASE \E t \in Tills : CommitStock(t) /\ till[t].sale = s
    BY <2>1, <2>2, <2>6 DEF CommitStock
  <2> QED
    BY <2>3, <2>4, <2>5, <2>6
<1> DEFINE row == [sale[s] EXCEPT !.status = st, !.stock = k]
<1>2. /\ row.store = sale[s].store /\ row.operator = sale[s].operator /\ row.pct = sale[s].pct
      /\ row.limit = sale[s].limit /\ row.receipt = sale[s].receipt
      /\ row.approval = sale[s].approval /\ row.approver = sale[s].approver /\ row \in SaleRow
    BY <1>1 DEF SaleRow
<1>3. sale' = [sale EXCEPT ![s] = row]
  <2>1. sale \in [CounterSales -> {NoSale} \union SaleRow]
    BY DEF CounterInv, CounterTypes
  <2>2. CASE sale' = [sale EXCEPT ![s].status = st, ![s].stock = k]
    BY <2>1, <2>2
  <2>3. CASE sale' = [sale EXCEPT ![s].stock = k] /\ sale[s].status = st
    <3>1. [sale[s] EXCEPT !.stock = k] = row
      BY <1>1, <2>3 DEF SaleRow
    <3> QED
      BY <2>1, <2>3, <3>1
  <2> QED
    BY <1>1, <2>2, <2>3
<1>4. Backed(row)
  <2> HIDE DEF row
  <2> QED
    BY <1>1, <1>2 DEF CounterInv, AllBacked, Backed
<1> HIDE DEF row
<1>5. /\ sale' \in [CounterSales -> {NoSale} \union SaleRow]
      /\ AllBacked' /\ ReceiptsAreUnique' /\ (UNCHANGED till => AllServed')
      /\ UNCHANGED trail => TrailIsTrue'
      /\ UNCHANGED booked => BookedWereSettled'
      /\ \A q \in CounterSales : /\ sale[q] # NoSale <=> sale'[q] # NoSale
                                 /\ sale[q] # NoSale => sale'[q].receipt = sale[q].receipt
    BY <1>1, <1>2, <1>3, <1>4, SaleMoves
<1>6. CASE ConfirmByPSP(s) \/ CancelSale(s) \/ SweepSale(s)
  <2>1. UNCHANGED <<bond, was, till, booked, trail>>
    BY <1>6 DEF ConfirmByPSP, CancelSale, SweepSale
  <2> QED
    BY <1>5, <2>1 DEF CounterInv, CounterTypes, OneLockPerSale
<1>7. ASSUME NEW t \in Tills, CommitStock(t), till[t].sale = s PROVE CounterInv'
  <2>1. till' = [till EXCEPT ![t] = FreeTill] /\ UNCHANGED <<bond, was, booked, trail>>
    BY <1>7 DEF CommitStock
  <2>2. till \in [Tills -> TillState] /\ FreeTill \in TillState
    BY DEF CounterInv, CounterTypes, TillState
  <2>3. till'[t] = FreeTill /\ \A u \in Tills \ {t} : till'[u] = till[u]
    BY <2>1, <2>2
  <2>4. OneLockPerSale'
    BY <2>3 DEF CounterInv, OneLockPerSale, FreeTill
  <2>5. AllServed'
    <3> SUFFICES ASSUME NEW u \in Tills \ {t}, till[u].step # "free"
                 PROVE  Served(sale'[till[u].sale], till[u])
        BY <2>3 DEF AllServed, FreeTill
    <3>1. till[u].sale \in CounterSales /\ Served(sale[till[u].sale], till[u])
      BY <2>2 DEF CounterInv, AllServed, TillState, FreeTill
    <3>2. CASE till[u].step = "locked"
      <4>1. CASE till[u].sale = s
        BY <1>1, <1>2, <1>3, <3>1, <3>2, <4>1, <1>5 DEF Served, CounterInv, CounterTypes
      <4>2. CASE till[u].sale # s
        BY <1>3, <3>1, <4>2 DEF CounterInv, CounterTypes
      <4> QED
        BY <4>1, <4>2
    <3>3. CASE till[u].step # "locked"
      BY <1>5, <3>1, <3>3 DEF Served
    <3> QED
      BY <3>2, <3>3
  <2>6. CounterTypes'
    BY <1>5, <2>1, <2>2 DEF CounterInv, CounterTypes
  <2> QED
    BY <1>5, <2>1, <2>4, <2>5, <2>6 DEF CounterInv
<1> QED
    BY <1>6, <1>7

\* A settlement takes the lock of a row that may be settled, or finds it settled before.
LEMMA BeginSettleKeeps ==
    ASSUME CounterInv, NEW t \in Tills, NEW p \in People, NEW s \in CounterSales,
           NEW receipt \in Receipts, BeginSettle(t, p, s, receipt)
    PROVE  CounterInv'
<1> DEFINE e == [step |-> "post", sale |-> s, first |-> FALSE]
           f == [step |-> "locked", sale |-> s, receipt |-> receipt]
<1>1. /\ sale[s] # NoSale /\ Unlocked(s) /\ sale[s].approval \notin {"pending", "rejected"}
      /\ UNCHANGED <<bond, was, sale, booked, trail>> /\ receipt # Nobody
      /\ \/ sale[s].receipt = receipt /\ till' = [till EXCEPT ![t] = e]
         \/ sale[s].receipt = Nobody /\ till' = [till EXCEPT ![t] = f]
    BY CounterAssumption DEF BeginSettle, CanSettleExternal
<1>2. /\ e \in TillState /\ f \in TillState /\ e.step = "post" /\ e.sale = s
      /\ f.step = "locked" /\ f.sale = s
    BY DEF TillState
<1>3. till' \in [Tills -> TillState] /\ AllServed' /\ OneLockPerSale'
  <2> HIDE DEF e, f
  <2>1. CASE sale[s].receipt = receipt /\ till' = [till EXCEPT ![t] = e]
    <3>1. Served(sale[e.sale], e)
      BY <1>1, <1>2, <2>1 DEF Served
    <3> QED
      BY <1>1, <1>2, <2>1, <3>1, TillMoves
  <2>2. CASE sale[s].receipt = Nobody /\ till' = [till EXCEPT ![t] = f]
    <3>1. Served(sale[f.sale], f)
      BY <1>1, <1>2, <2>2 DEF Served
    <3> QED
      BY <1>1, <1>2, <2>2, <3>1, TillMoves
  <2> QED
    BY <1>1, <2>1, <2>2
<1> HIDE DEF e, f
<1> QED
  <2>1. UNCHANGED <<bond, was, sale, booked, trail>>
    BY <1>1
  <2> QED
    BY <1>3, <2>1 DEF CounterInv, CounterTypes, AllBacked, ReceiptsAreUnique, TrailIsTrue,
                      BookedWereSettled

\* A request posts to the ledger, or dies.
LEMMA OtherTillsKeep ==
    ASSUME CounterInv, NEW t \in Tills, PostToLedger(t) \/ TillDies(t)
    PROVE  CounterInv'
<1>1. till \in [Tills -> TillState] /\ FreeTill \in TillState /\ FreeTill.step = "free"
    BY DEF CounterInv, CounterTypes, TillState, FreeTill
<1>2. PICK e \in TillState : /\ till' = [till EXCEPT ![t] = e] /\ e.step # "locked"
                             /\ e.step # "free" => Served(sale[e.sale], e)
  <2>1. CASE TillDies(t)
    BY <1>1, <2>1 DEF TillDies
  <2>2. CASE PostToLedger(t)
    <3>1. PICK x \in CounterSales, first \in BOOLEAN, step \in {"post"} :
              till[t] = [step |-> step, sale |-> x, first |-> first]
      BY <1>1, <2>2 DEF PostToLedger, TillState, FreeTill
    <3>2. sale[x] # NoSale /\ sale[x].receipt # Nobody
      BY <3>1 DEF CounterInv, AllServed, Served
    <3> DEFINE f == [step |-> "commit", sale |-> x, first |-> first]
    <3>3. [till[t] EXCEPT !.step = "commit"] = f
      BY <3>1
    <3>4. till' = [till EXCEPT ![t] = f] \/ till' = [till EXCEPT ![t] = FreeTill]
      BY <2>2, <3>3 DEF PostToLedger
    <3>5. f \in TillState /\ f.step = "commit" /\ Served(sale[f.sale], f)
      BY <3>2 DEF TillState, Served
    <3> HIDE DEF f
    <3> QED
      BY <1>1, <3>4, <3>5
  <2> QED
    BY <2>1, <2>2
<1>3. UNCHANGED <<bond, was, sale>>
    BY DEF PostToLedger, TillDies
<1>4. till' \in [Tills -> TillState] /\ AllServed' /\ OneLockPerSale'
    BY <1>2, <1>3, TillMoves
<1>5. booked' \subseteq CounterSales /\ BookedWereSettled' /\ TrailIsTrue'
  <2>1. CASE TillDies(t)
    BY <1>3, <2>1 DEF TillDies, CounterInv, CounterTypes, BookedWereSettled, TrailIsTrue
  <2>2. CASE PostToLedger(t)
    <3>1. till[t].sale \in CounterSales /\ Served(sale[till[t].sale], till[t]) /\ till[t].step = "post"
      BY <1>1, <2>2 DEF PostToLedger, CounterInv, AllServed, TillState, FreeTill
    <3>2. CASE booked' = booked \union {till[t].sale} /\ UNCHANGED trail
      BY <1>3, <3>1, <3>2 DEF CounterInv, CounterTypes, BookedWereSettled, TrailIsTrue, Served
    <3>3. CASE trail' = trail \union {<<"post_failed", till[t].sale>>} /\ UNCHANGED booked
      BY <1>3, <3>3 DEF CounterInv, CounterTypes, BookedWereSettled, TrailIsTrue
    <3> QED
      BY <2>2, <3>2, <3>3 DEF PostToLedger
  <2> QED
    BY <2>1, <2>2
<1> QED
    BY <1>3, <1>4, <1>5 DEF CounterInv, CounterTypes, AllBacked, ReceiptsAreUnique

\* The UPDATE of a settlement meets the unique index, or the sale is paid.
LEMMA SettleKeeps ==
    ASSUME CounterInv, NEW t \in Tills, SettleSale(t)
    PROVE  CounterInv'
<1>1. PICK s \in CounterSales, receipt \in Receipts :
          till[t].step = "locked" /\ till[t].sale = s /\ till[t].receipt = receipt
    BY DEF SettleSale, CounterInv, CounterTypes, TillState, FreeTill
<1> DEFINE e == [step |-> "post", sale |-> s, first |-> TRUE]
           row == [sale[s] EXCEPT !.status = "paid", !.receipt = receipt]
<1>2. /\ till \in [Tills -> TillState] /\ sale \in [CounterSales -> {NoSale} \union SaleRow]
      /\ FreeTill \in TillState /\ FreeTill.step = "free"
    BY DEF CounterInv, CounterTypes, TillState, FreeTill
<1>3. /\ sale[s] # NoSale /\ sale[s] \in SaleRow /\ sale[s].receipt = Nobody
      /\ sale[s].approval \notin {"pending", "rejected"} /\ Backed(sale[s])
      /\ receipt # Nobody
    BY <1>1, <1>2, CounterAssumption DEF CounterInv, AllServed, Served, AllBacked
<1>4. UNCHANGED <<bond, was, booked>>
    BY DEF SettleSale
<1>5. CASE UNCHANGED <<sale, trail>> /\ till' = [till EXCEPT ![t] = FreeTill]
  <2>1. till' \in [Tills -> TillState] /\ AllServed' /\ OneLockPerSale'
    BY <1>2, <1>5, TillMoves
  <2> QED
    BY <1>4, <1>5, <2>1 DEF CounterInv, CounterTypes, AllBacked, ReceiptsAreUnique, TrailIsTrue,
                            BookedWereSettled
<1>6. ASSUME \A o \in CounterSales \ {s} : ~(/\ sale[o] # NoSale
                                             /\ sale[o].store = sale[s].store
                                             /\ sale[o].receipt = receipt),
             sale' = [sale EXCEPT ![s] = row],
             trail' = trail \union {<<"settled", s, receipt>>},
             till' = [till EXCEPT ![t] = e]
      PROVE  CounterInv'
  <2>1. /\ row \in SaleRow /\ row.receipt = receipt /\ row.store = sale[s].store
        /\ row.approval = sale[s].approval /\ row.approver = sale[s].approver
        /\ row.operator = sale[s].operator /\ row.pct = sale[s].pct /\ row.limit = sale[s].limit
    BY <1>3 DEF SaleRow
  <2> HIDE DEF row
  <2>2. row # NoSale /\ Backed(row)
    BY <1>3, <2>1 DEF SaleRow, NoSale, Backed
  <2>3. sale'[s] = row /\ \A k \in CounterSales \ {s} : sale'[k] = sale[k]
    BY <1>2, <1>6
  <2>4. till'[t] = e /\ \A u \in Tills \ {t} : till'[u] = till[u]
    BY <1>2, <1>6
  <2>5. e \in TillState /\ e.step = "post" /\ e.sale = s
    BY DEF TillState
  <2> HIDE DEF e
  <2>6. CounterTypes'
    BY <1>2, <1>4, <1>6, <2>1, <2>5 DEF CounterInv, CounterTypes
  <2>7. AllBacked' /\ OneLockPerSale' /\ BookedWereSettled'
    <3>1. AllBacked'
      BY <2>2, <2>3 DEF CounterInv, AllBacked
    <3>2. OneLockPerSale'
      BY <2>4, <2>5 DEF CounterInv, OneLockPerSale
    <3>3. BookedWereSettled'
      BY <1>3, <1>4, <2>3 DEF CounterInv, CounterTypes, BookedWereSettled
    <3> QED
      BY <3>1, <3>2, <3>3
  <2>8. ReceiptsAreUnique'
    BY <1>3, <1>6, <2>1, <2>3 DEF CounterInv, ReceiptsAreUnique
  <2>9. AllServed'
    <3> SUFFICES ASSUME NEW u \in Tills, till'[u].step # "free"
                 PROVE  Served(sale'[till'[u].sale], till'[u])
        BY DEF AllServed
    <3>1. CASE u = t
      BY <1>3, <2>1, <2>2, <2>3, <2>4, <2>5, <3>1 DEF Served
    <3>2. CASE u # t
      <4>1. till'[u] = till[u] /\ till[u].sale \in CounterSales /\ Served(sale[till[u].sale], till[u])
        BY <1>2, <2>4, <3>2 DEF CounterInv, AllServed, TillState, FreeTill
      <4>2. CASE till[u].sale = s
        <5>1. till[u].step # "locked"
          BY <1>1, <3>2, <4>2 DEF CounterInv, OneLockPerSale
        <5> QED
          BY <1>3, <2>1, <2>2, <2>3, <4>1, <4>2, <5>1 DEF Served
      <4>3. CASE till[u].sale # s
        BY <2>3, <4>1, <4>3
      <4> QED
        BY <4>2, <4>3
    <3> QED
      BY <3>1, <3>2
  <2>10. TrailIsTrue'
    <3> SUFFICES ASSUME NEW x \in trail', x[1] = "settled"
                 PROVE  /\ x[2] \in CounterSales /\ sale'[x[2]] # NoSale
                        /\ sale'[x[2]].receipt # Nobody
                        /\ x = <<"settled", x[2], sale'[x[2]].receipt>>
        BY DEF TrailIsTrue
    <3>1. CASE x = <<"settled", s, receipt>>
      BY <1>3, <2>1, <2>2, <2>3, <3>1
    <3>2. CASE x \in trail
      <4>1. /\ x[2] \in CounterSales /\ sale[x[2]] # NoSale /\ sale[x[2]].receipt # Nobody
            /\ x = <<"settled", x[2], sale[x[2]].receipt>>
        BY <3>2 DEF CounterInv, TrailIsTrue
      <4>2. x[2] # s
        BY <1>3, <4>1
      <4> QED
        BY <2>3, <4>1, <4>2
    <3> QED
      BY <1>6, <3>1, <3>2
  <2> QED
    BY <2>6, <2>7, <2>8, <2>9, <2>10 DEF CounterInv
<1> QED
  <2> DEFINE taken == \E o \in CounterSales \ {s} : /\ sale[o] # NoSale
                                                   /\ sale[o].store = sale[s].store
                                                   /\ sale[o].receipt = receipt
  <2>1. /\ taken => UNCHANGED <<sale, trail>> /\ till' = [till EXCEPT ![t] = FreeTill]
        /\ ~taken => /\ sale' = [sale EXCEPT ![s] = row]
                     /\ trail' = trail \union {<<"settled", s, receipt>>}
                     /\ till' = [till EXCEPT ![t] = e]
    BY <1>1 DEF SettleSale
  <2>2. ~taken => \A o \in CounterSales \ {s} : ~(/\ sale[o] # NoSale
                                                  /\ sale[o].store = sale[s].store
                                                  /\ sale[o].receipt = receipt)
    OBVIOUS
  <2> HIDE DEF taken, row, e
  <2> QED
    BY <1>5, <1>6, <2>1, <2>2

\* The invariant holds in every state of the counter.
LEMMA CounterInvAlways == CounterSpec => []CounterInv
<1>1. CounterInit => CounterInv
    BY InitCounter
<1>2. CounterInv /\ [CounterNext]_counterVars => CounterInv'
  <2> SUFFICES ASSUME CounterInv, [CounterNext]_counterVars PROVE CounterInv'
      OBVIOUS
  <2>1. ASSUME NEW p \in People, NEW s \in CounterSales, NEW store \in Stores,
               NEW pct \in Discounts, SellAtCounter(p, s, store, pct)
        PROVE  CounterInv'
    BY <2>1, SaleKeeps
  <2>2. ASSUME NEW p \in People, NEW s \in CounterSales, NEW d \in {"approved", "rejected"},
               DecideApproval(p, s, d)
        PROVE  CounterInv'
    BY <2>2, ApprovalKeeps
  <2>3. ASSUME NEW p \in People, NEW s \in CounterSales, NEW t \in Tills, NEW r \in Receipts,
               BeginSettle(t, p, s, r)
        PROVE  CounterInv'
    BY <2>3, BeginSettleKeeps
  <2>4. ASSUME NEW t \in Tills, SettleSale(t) \/ PostToLedger(t) \/ CommitStock(t) \/ TillDies(t)
        PROVE  CounterInv'
    <3>1. CASE CommitStock(t)
      <4>1. till[t].sale \in CounterSales
        BY <3>1 DEF CommitStock, CounterInv, CounterTypes, TillState, FreeTill
      <4> QED
        BY <3>1, <4>1, OtherSalesKeep
    <3> QED
      BY <2>4, <3>1, SettleKeeps, OtherTillsKeep
  <2>5. ASSUME NEW s \in CounterSales, ConfirmByPSP(s) \/ CancelSale(s) \/ SweepSale(s)
        PROVE  CounterInv'
    BY <2>5, OtherSalesKeep
  <2>6. ASSUME NEW p \in People, RefreshToken(p) \/ \E b \in Bonds : Rebind(p, b)
        PROVE  CounterInv'
    <3>1. UNCHANGED <<sale, till, booked, trail>>
      BY <2>6 DEF RefreshToken, Rebind
    <3>2. bond' \in [People -> Bonds] /\ was' \in [People -> Bonds]
      BY <2>6 DEF RefreshToken, Rebind, CounterInv, CounterTypes
    <3> QED
      BY <3>1, <3>2 DEF CounterInv, CounterTypes, AllBacked, AllServed, OneLockPerSale,
                        ReceiptsAreUnique, TrailIsTrue, BookedWereSettled
  <2>7. CASE UNCHANGED counterVars
    BY <2>7 DEF counterVars, CounterInv, CounterTypes, AllBacked, AllServed, OneLockPerSale,
                ReceiptsAreUnique, TrailIsTrue, BookedWereSettled
  <2> QED
    BY <2>1, <2>2, <2>3, <2>4, <2>5, <2>6, <2>7 DEF CounterNext
<1> QED
    BY <1>1, <1>2, PTL DEF CounterSpec

\* A sale declared paid on the shop's own machine has a second person behind a discount its
\* seller could not give, and a receipt of its own; the book has no revenue of a sale that was
\* not settled (CanSettleExternal and the unique index, whatever bindings change meanwhile).
THEOREM SettlementsStaySound == CounterSpec => []SettlementsAreSound
<1>1. CounterInv => SettledDiscountHadASecondPerson
  <2> SUFFICES ASSUME CounterInv, NEW s \in CounterSales, sale[s] # NoSale,
                      sale[s].receipt # Nobody, sale[s].pct > sale[s].limit
               PROVE  /\ sale[s].approval = "approved"
                      /\ sale[s].approver \notin {Nobody, sale[s].operator}
      BY DEF SettledDiscountHadASecondPerson
  <2>1. Backed(sale[s]) /\ sale[s] \in SaleRow
    BY DEF CounterInv, AllBacked, CounterTypes
  <2> QED
    BY <2>1 DEF Backed, SaleRow
<1>2. CounterInv => OneReceiptOneSale
  <2> SUFFICES ASSUME CounterInv PROVE OneReceiptOneSale
      OBVIOUS
  <2>1. ASSUME NEW s \in CounterSales
        PROVE  Cardinality({e \in trail : e[1] = "settled" /\ e[2] = s}) <= 1
    <3> DEFINE E == {e \in trail : e[1] = "settled" /\ e[2] = s}
               only == <<"settled", s, sale[s].receipt>>
    <3>1. E = {} \/ E = {only}
      BY DEF CounterInv, TrailIsTrue
    <3> HIDE DEF E, only
    <3>2. Cardinality(E) = 0 \/ Cardinality(E) = 1
      BY <3>1, FS_EmptySet, FS_Singleton
    <3> QED
      BY <3>2 DEF E
  <2>2. \A s, o \in {c \in CounterSales : sale[c] # NoSale} :
         (s # o /\ sale[s].store = sale[o].store /\ sale[s].receipt = sale[o].receipt)
            => sale[s].receipt = Nobody
    BY DEF CounterInv, ReceiptsAreUnique
  <2>3. \A s \in booked : sale[s].receipt # Nobody
    BY DEF CounterInv, BookedWereSettled
  <2> QED
    BY <2>1, <2>2, <2>3 DEF OneReceiptOneSale
<1> QED
    BY <1>1, <1>2, CounterInvAlways, PTL DEF SettlementsAreSound

-----------------------------------------------------------------------------
(* Cashback and coupons *)

\* Rows of coupons, of checkouts and orders, and of cashback_lots.
CouponRow == [code : BOOLEAN, uses : Nat, percent : BOOLEAN, value : Int, min : Int, max : Int,
              active : BOOLEAN, expired : BOOLEAN]
CartRow == [step : {"new", "quoted", "open", "dropped", "placed", "paid", "returned"},
            coupon : BOOLEAN, off : Int, want : Int, total : Int, spent : Int]
LotRow == [earned : Nat, remaining : Nat, live : BOOLEAN]
PromoTypes ==
    /\ programme \in Programmes /\ \A k \in DOMAIN rates : rates[k] \in Nat
    /\ coupon \in {NoCoupon} \union CouponRow
    /\ cart \in [Carts -> CartRow]
    /\ lots \in [Carts -> LotRow]
    /\ entries \in Int
Unwritten == {"new", "quoted", "open", "dropped"}
NotOverdrawn == \A c \in Carts : lots[c].remaining <= lots[c].earned
NothingSpentYet == \A c \in Carts : cart[c].step \in Unwritten => cart[c].spent = 0
PromoInv == PromoTypes /\ NotOverdrawn /\ NothingSpentYet /\ StatementMatchesLots

\* What a customer has of each lot, has used of it, and has paid each order with.
Left(l) == [c \in Carts |-> l[c].remaining]
Used(l) == [c \in Carts |-> l[c].earned - l[c].remaining]
Paid(k) == [c \in Carts |-> k[c].spent]
LotsAre(l) == /\ l \in [Carts -> LotRow]
              /\ \A c \in Carts : l[c].remaining <= l[c].earned

\* A division rounded to the nearest, of integers, is an integer.
LEMMA RoundedIsInt == \A n \in Int, d \in Nat \ {0} : Rounded(n, d) \in Int
  BY DEF Rounded

\* The goods of a cart have a price.
LEMMA GrossIsNat == \A c \in Carts : Gross(c) \in Nat
<1>1. ASSUME NEW c \in Carts PROVE Gross(c) \in Nat
  <2>1. IsFiniteSet(Categories) /\ \A k \in Categories : Line[c][k] \in Nat
    BY PromotionAssumption
  <2> QED
    BY <2>1, SumOfPart DEF Gross
<1> QED
    BY <1>1

\* What an order earns is an amount.
LEMMA EarnIsInt ==
    ASSUME PromoTypes, NEW c \in Carts, NEW paid \in Int
    PROVE  EarnByItems(c, paid) \in Int
<1> DEFINE W == [k \in Categories |-> Line[c][k] * RateOf(k)]
<1>1. programme.campaign \in Nat /\ programme.earn \in Nat
    BY PromotionAssumption DEF PromoTypes
<1>2. \A k \in Categories : Line[c][k] \in Int /\ RateOf(k) \in Int
    BY <1>1, PromotionAssumption DEF RateOf, EffectiveEarnRate, PromoTypes
<1>3. \A k \in Categories : W[k] \in Int
    BY <1>2
<1>4. SumOver(W, Categories) \in Int
  <2> HIDE DEF W
  <2> QED
    BY <1>3, PromotionAssumption, SumType
<1> DEFINE w == SumOver(W, Categories)
           g == Gross(c)
<1>5. g \in Nat
    BY GrossIsNat
<1>6. EarnByItems(c, paid) = 0 \/ (g # 0 /\ EarnByItems(c, paid) = Rounded(paid * w, 100 * g))
    BY DEF EarnByItems
<1> HIDE DEF w, g, W
<1>7. w \in Int
    BY <1>4 DEF w
<1>8. paid * w \in Int /\ (g # 0 => 100 * g \in Nat \ {0})
    BY <1>5, <1>7
<1> QED
    BY <1>6, <1>8, RoundedIsInt

\* What is off a cart is an amount.
LEMMA OffIsInt ==
    ASSUME PromoTypes, NEW net \in Int, coupon.code
    PROVE  Discount(coupon, net) \in Int
<1>1. coupon \in CouponRow
    BY DEF PromoTypes, NoCoupon
<1>2. net * coupon.value \in Int /\ coupon.value \in Int
    BY <1>1 DEF CouponRow
<1>3. Rounded(net * coupon.value, 100) \in Int
    BY <1>2, RoundedIsInt
<1> QED
    BY <1>2, <1>3 DEF Discount, Least

\* The balance of a customer is an amount.
LEMMA BalanceIsInt ==
    ASSUME PromoTypes
    PROVE  Balance \in Int
<1> DEFINE V == [c \in Carts |-> IF lots[c].live THEN lots[c].remaining ELSE 0]
<1>1. \A c \in Carts : V[c] \in Int
    BY DEF PromoTypes, LotRow
<1>2. Balance = SumOver(V, Carts)
    BY DEF Balance
<1> HIDE DEF V
<1> QED
    BY <1>1, <1>2, PromotionAssumption, SumType

\* What a customer may redeem is an amount.
LEMMA RedeemIsInt ==
    ASSUME PromoTypes, NEW asked \in Int, NEW net \in Int
    PROVE  ClampRedeem(asked, Balance, net) \in Int
<1>1. Balance \in Int
    BY BalanceIsInt
<1>2. programme.redeemMax \in Nat
    BY PromotionAssumption DEF PromoTypes
<1>3. net * programme.redeemMax \in Int
    BY <1>2
<1>4. Rounded(net * programme.redeemMax, 100) \in Int
    BY <1>3, RoundedIsInt
<1> QED
    BY <1>1, <1>4 DEF ClampRedeem, Least

\* The sums over the lots and the orders, as numbers.
LEMMA SumsAreInts ==
    /\ \A l : LotsAre(l) => SumOver(Left(l), Carts) \in Int /\ SumOver(Used(l), Carts) \in Int
    /\ \A k \in [Carts -> CartRow] : SumOver(Paid(k), Carts) \in Int
<1>1. ASSUME NEW l, LotsAre(l)
      PROVE  SumOver(Left(l), Carts) \in Int /\ SumOver(Used(l), Carts) \in Int
  <2>1. \A c \in Carts : Left(l)[c] \in Int /\ Used(l)[c] \in Int
    BY <1>1 DEF LotsAre, LotRow, Left, Used
  <2> QED
    BY <2>1, PromotionAssumption, SumType
<1>2. ASSUME NEW k \in [Carts -> CartRow] PROVE SumOver(Paid(k), Carts) \in Int
  <2>1. \A c \in Carts : Paid(k)[c] \in Int
    BY <1>2 DEF CartRow, Paid
  <2> QED
    BY <2>1, PromotionAssumption, SumType
<1> QED
    BY <1>1, <1>2

\* The statement, in these terms.
LEMMA StatementIs ==
    StatementMatchesLots <=> /\ entries = SumOver(Left(lots), Carts)
                             /\ SumOver(Paid(cart), Carts) <= SumOver(Used(lots), Carts)
  BY DEF StatementMatchesLots, Left, Used, Paid

\* Nothing has been earned.
LEMMA InitPromo == PromoInit => PromoInv
<1> SUFFICES ASSUME PromoInit PROVE PromoInv
    OBVIOUS
<1>1. PromoTypes /\ NotOverdrawn /\ NothingSpentYet
  <2>1. cart \in [Carts -> CartRow] /\ lots \in [Carts -> LotRow]
    BY DEF PromoInit, NewCart, NoLot, CartRow, LotRow
  <2>2. NotOverdrawn /\ NothingSpentYet
    BY DEF PromoInit, NotOverdrawn, NothingSpentYet, NewCart, NoLot
  <2> QED
    BY <2>1, <2>2 DEF PromoInit, PromoTypes
<1>2. \A c \in Carts : Left(lots)[c] = 0 /\ Used(lots)[c] = 0 /\ Paid(cart)[c] = 0
    BY DEF PromoInit, NewCart, NoLot, Left, Used, Paid
<1>3. SumOver(Left(lots), Carts) = 0 /\ SumOver(Used(lots), Carts) = 0 /\ SumOver(Paid(cart), Carts) = 0
    BY <1>2, PromotionAssumption, SumOfNothing
<1>4. entries = 0
    BY DEF PromoInit
<1> QED
    BY <1>1, <1>3, <1>4, StatementIs DEF PromoInv

\* A checkout moves on and spends nothing.
LEMMA CartMoves ==
    ASSUME PromoInv, NEW c \in Carts, NEW row \in CartRow, cart' = [cart EXCEPT ![c] = row],
           row.spent = cart[c].spent, row.step \in Unwritten => cart[c].step \in Unwritten
    PROVE  /\ cart' \in [Carts -> CartRow] /\ NothingSpentYet' /\ Paid(cart') = Paid(cart)
           /\ UNCHANGED <<lots, entries>> => NotOverdrawn' /\ StatementMatchesLots'
<1>1. cart \in [Carts -> CartRow]
    BY DEF PromoInv, PromoTypes
<1>2. cart'[c] = row /\ \A k \in Carts \ {c} : cart'[k] = cart[k]
    BY <1>1
<1>3. Paid(cart') = Paid(cart)
    BY <1>2 DEF Paid
<1>4. NothingSpentYet'
    BY <1>2 DEF PromoInv, NothingSpentYet
<1>5. UNCHANGED <<lots, entries>> => StatementMatchesLots'
  <2>1. StatementMatchesLots
    BY DEF PromoInv
  <2>2. /\ StatementMatchesLots' <=>
             /\ entries' = SumOver(Left(lots'), Carts)
             /\ SumOver(Paid(cart'), Carts) <= SumOver(Used(lots'), Carts)
    BY DEF StatementMatchesLots, Left, Used, Paid
  <2> QED
    BY <1>3, <2>1, <2>2, StatementIs
<1> QED
    BY <1>1, <1>2, <1>3, <1>4, <1>5 DEF PromoInv, NotOverdrawn

\* A cart is priced, meets the balance, or is dropped.
LEMMA CheckoutKeeps ==
    ASSUME PromoInv, NEW c \in Carts,
           \/ \E b \in BOOLEAN : Quote(c, b)
           \/ \E asked \in {0, Gross(c)} : ReadBalance(c, asked)
           \/ DropCart(c)
    PROVE  PromoInv'
<1>1. cart[c] \in CartRow /\ cart \in [Carts -> CartRow] /\ Gross(c) \in Int /\ PromoTypes
    BY GrossIsNat DEF PromoInv, PromoTypes
<1>2. PICK row \in CartRow : /\ cart' = [cart EXCEPT ![c] = row] /\ row.spent = cart[c].spent
                             /\ cart[c].step \in Unwritten
  <2>1. ASSUME NEW b \in BOOLEAN, Quote(c, b)
        PROVE  \E row \in CartRow : /\ cart' = [cart EXCEPT ![c] = row]
                                    /\ row.spent = cart[c].spent /\ cart[c].step \in Unwritten
    <3> DEFINE off == IF b THEN Discount(coupon, Gross(c)) ELSE 0
               row == [cart[c] EXCEPT !.step = "quoted", !.coupon = b, !.off = off]
    <3>1. off \in Int
      <4>1. CASE b = TRUE
        <5>1. coupon.code
          BY <2>1, <4>1 DEF Quote, CouponUsable
        <5>2. Discount(coupon, Gross(c)) \in Int
          BY <1>1, <5>1, OffIsInt
        <5> QED
          BY <4>1, <5>2
      <4>2. CASE b = FALSE
        BY <4>2
      <4> QED
        BY <4>1, <4>2
    <3>2. cart' = [cart EXCEPT ![c] = row] /\ cart[c].step \in Unwritten
      BY <1>1, <2>1 DEF Quote, Unwritten
    <3> HIDE DEF off
    <3>3. row \in CartRow /\ row.spent = cart[c].spent
      BY <1>1, <3>1 DEF CartRow
    <3> HIDE DEF row
    <3> QED
      BY <3>2, <3>3
  <2>2. ASSUME NEW asked \in {0, Gross(c)}, ReadBalance(c, asked)
        PROVE  \E row \in CartRow : /\ cart' = [cart EXCEPT ![c] = row]
                                    /\ row.spent = cart[c].spent /\ cart[c].step \in Unwritten
    <3> DEFINE want == ClampRedeem(asked, Balance, Net(c))
               row == [cart[c] EXCEPT !.step = "open", !.want = want]
    <3>1. want \in Int
      <4>1. Net(c) \in Int /\ asked \in Int
        BY <1>1 DEF Net, CartRow
      <4> QED
        BY <1>1, <4>1, RedeemIsInt
    <3>2. cart' = [cart EXCEPT ![c] = row] /\ cart[c].step \in Unwritten
      BY <1>1, <2>2 DEF ReadBalance, Unwritten
    <3> HIDE DEF want
    <3>3. row \in CartRow /\ row.spent = cart[c].spent
      BY <1>1, <3>1 DEF CartRow
    <3> HIDE DEF row
    <3> QED
      BY <3>2, <3>3
  <2>3. ASSUME DropCart(c)
        PROVE  \E row \in CartRow : /\ cart' = [cart EXCEPT ![c] = row]
                                    /\ row.spent = cart[c].spent /\ cart[c].step \in Unwritten
    <3> DEFINE row == [NewCart EXCEPT !.step = "dropped"]
    <3>1. row \in CartRow /\ row.spent = 0
      <4>1. NewCart \in CartRow /\ NewCart.spent = 0
        BY DEF CartRow, NewCart
      <4> QED
        BY <4>1 DEF CartRow
    <3>2. cart' = [cart EXCEPT ![c] = row] /\ cart[c].step \in Unwritten
      BY <2>3 DEF DropCart, Unwritten
    <3>3. cart[c].spent = 0
      BY <3>2 DEF PromoInv, NothingSpentYet
    <3> HIDE DEF row
    <3> QED
      BY <3>1, <3>2, <3>3
  <2> QED
    BY <2>1, <2>2, <2>3
<1>3. UNCHANGED <<programme, rates, coupon, lots, entries>>
    BY DEF Quote, ReadBalance, DropCart
<1>4. cart' \in [Carts -> CartRow] /\ NothingSpentYet' /\ NotOverdrawn' /\ StatementMatchesLots'
    BY <1>2, <1>3, CartMoves
<1> QED
    BY <1>3, <1>4 DEF PromoInv, PromoTypes

\* An order is written with what its customer really had, and what it spends leaves the lots.
LEMMA PlaceKeeps ==
    ASSUME PromoInv, NEW c \in Carts, Place(c)
    PROVE  PromoInv'
<1>1. PICK taken \in Redemptions(cart[c].want) :
          /\ lots' = [l \in Carts |-> [lots[l] EXCEPT !.remaining = @ - taken[l]]]
          /\ entries' = entries - SumOver(taken, Carts)
          /\ cart' = [cart EXCEPT ![c].step = "placed", ![c].spent = SumOver(taken, Carts),
                        ![c].total = Net(c) + Ship[c] - SumOver(taken, Carts)]
    BY DEF Place
<1>2. /\ taken \in [Carts -> Nat]
      /\ \A k \in Carts : taken[k] <= lots[k].remaining
  <2>1. \A x \in 0..cart[c].want : x \in Nat
    OBVIOUS
  <2>2. taken \in [Carts -> Nat]
    BY <2>1 DEF Redemptions
  <2>3. \A k \in Carts : taken[k] <= (IF k \in Consumable THEN lots[k].remaining ELSE 0)
    BY DEF Redemptions
  <2>4. \A k \in Carts : lots[k].remaining \in Nat
    BY DEF PromoInv, PromoTypes, LotRow
  <2> QED
    BY <2>2, <2>3, <2>4
<1> DEFINE spent == SumOver(taken, Carts)
           total == Net(c) + Ship[c] - spent
           row == [cart[c] EXCEPT !.step = "placed", !.spent = spent, !.total = total]
<1>3. IsFiniteSet(Carts) /\ spent \in Nat
    BY <1>2, PromotionAssumption, SumOfPart
<1>4. /\ cart \in [Carts -> CartRow] /\ lots \in [Carts -> LotRow] /\ entries \in Int
      /\ cart[c].step = "open" /\ cart[c].spent = 0 /\ LotsAre(lots)
      /\ UNCHANGED <<programme, rates>>
    BY DEF PromoInv, PromoTypes, NothingSpentYet, NotOverdrawn, Place, Unwritten, LotsAre
<1>5. cart' = [cart EXCEPT ![c] = row]
    BY <1>1, <1>4
<1>6. total \in Int
  <2>1. Net(c) \in Int
    BY <1>4, GrossIsNat DEF Net, CartRow
  <2>2. Ship[c] \in Nat
    BY PromotionAssumption
  <2> QED
    BY <1>3, <2>1, <2>2
<1>7. row \in CartRow /\ row.spent = spent /\ row.step = "placed"
  <2> HIDE DEF spent, total
  <2> DEFINE a == [cart[c] EXCEPT !.step = "placed"]
             b == [a EXCEPT !.spent = spent]
  <2>1. a \in CartRow /\ a.step = "placed"
    BY <1>4 DEF CartRow
  <2> HIDE DEF a
  <2>2. b \in CartRow /\ b.step = "placed" /\ b.spent = spent
    BY <1>3, <2>1 DEF CartRow
  <2> HIDE DEF b
  <2>3. /\ [b EXCEPT !.total = total] \in CartRow /\ [b EXCEPT !.total = total].spent = spent
        /\ [b EXCEPT !.total = total].step = "placed"
    BY <1>6, <2>2 DEF CartRow
  <2>4. row = [b EXCEPT !.total = total]
    BY DEF a, b
  <2> QED
    BY <2>3, <2>4
<1> HIDE DEF total, row
<1>8. \A k \in Carts :
        /\ lots'[k].remaining = lots[k].remaining - taken[k] /\ lots'[k].earned = lots[k].earned
        /\ lots'[k] \in LotRow
    BY <1>1, <1>2, <1>4 DEF LotRow
<1>9. lots' \in [Carts -> LotRow] /\ \A k \in Carts : lots'[k].remaining <= lots'[k].earned
  <2>1. lots' \in [Carts -> LotRow]
    BY <1>1, <1>8
  <2>2. ASSUME NEW k \in Carts PROVE lots'[k].remaining <= lots'[k].earned
    <3>1. lots[k].remaining \in Nat /\ lots[k].earned \in Nat /\ taken[k] \in Nat
          /\ lots[k].remaining <= lots[k].earned
      BY <1>2, <1>4 DEF LotRow, LotsAre
    <3> QED
      BY <1>8, <3>1
  <2> QED
    BY <2>1, <2>2
<1>10. cart'[c] = row /\ \A k \in Carts \ {c} : cart'[k] = cart[k]
    BY <1>4, <1>5
<1>11. cart' \in [Carts -> CartRow] /\ NothingSpentYet'
    BY <1>4, <1>5, <1>7, <1>10 DEF PromoInv, NothingSpentYet, Unwritten
<1>12. coupon' \in {NoCoupon} \union CouponRow
  <2>1. coupon \in {NoCoupon} \union CouponRow
    BY DEF PromoInv, PromoTypes
  <2>2. CASE ~cart[c].coupon
    BY <2>1, <2>2 DEF Place, UseCoupon
  <2>3. CASE cart[c].coupon
    <3>1. coupon.code /\ coupon' = [coupon EXCEPT !.uses = @ + 1]
      BY <2>3 DEF Place, UseCoupon
    <3>2. coupon \in CouponRow
      BY <2>1, <3>1 DEF NoCoupon
    <3> QED
      BY <3>1, <3>2 DEF CouponRow
  <2> QED
    BY <2>2, <2>3
<1> DEFINE left == Left(lots)
           used == Used(lots)
           paid == Paid(cart)
           left1 == Left(lots')
           used1 == Used(lots')
           paid1 == Paid(cart')
<1>13. \A k \in Carts : /\ left[k] \in Int /\ used[k] \in Int /\ taken[k] \in Int
                        /\ left1[k] = left[k] - taken[k]
                        /\ used1[k] \in Int /\ used[k] = used1[k] - taken[k]
    BY <1>2, <1>4, <1>8 DEF Left, Used, LotRow
<1>14. /\ \A k \in Carts : paid[k] \in Int /\ paid1[k] \in Int
       /\ \A k \in Carts \ {c} : paid1[k] = paid[k]
       /\ paid1[c] = spent /\ paid[c] = 0
    BY <1>4, <1>7, <1>10, <1>11 DEF Paid, CartRow
<1>15. /\ SumOver(left, Carts) \in Int /\ SumOver(used, Carts) \in Int
       /\ SumOver(paid, Carts) \in Int
    BY <1>4, SumsAreInts
<1>16. entries = SumOver(left, Carts) /\ SumOver(paid, Carts) <= SumOver(used, Carts)
    BY StatementIs DEF PromoInv
<1> HIDE DEF left, used, paid, left1, used1, paid1
<1>17. SumOver(left1, Carts) = SumOver(left, Carts) - spent
    BY <1>3, <1>13, SumOfDifference DEF spent
<1>18. SumOver(used, Carts) = SumOver(used1, Carts) - spent /\ SumOver(used1, Carts) \in Int
    BY <1>3, <1>13, SumOfDifference, SumType DEF spent
<1>19. SumOver(paid1, Carts) = SumOver(paid, Carts) + spent
  <2>1. SumOver(paid1, Carts) = SumOver(paid, Carts) + paid1[c] - paid[c]
    BY <1>3, <1>14, SumChange
  <2> QED
    BY <1>3, <1>14, <1>15, <2>1
<1>20. entries' = entries - spent
    BY <1>1 DEF spent
<1> HIDE DEF spent
<1>21. /\ entries' = SumOver(left1, Carts) /\ SumOver(paid1, Carts) <= SumOver(used1, Carts)
       /\ entries' \in Int
    BY <1>3, <1>15, <1>16, <1>17, <1>18, <1>19, <1>20
<1>22. StatementMatchesLots'
    BY <1>21 DEF StatementMatchesLots, left1, used1, paid1, Left, Used, Paid
<1> QED
    BY <1>4, <1>9, <1>11, <1>12, <1>21, <1>22 DEF PromoInv, PromoTypes, NotOverdrawn

\* The lot of one order changes, and the statement with it.
LEMMA LotMoves ==
    ASSUME PromoInv, NEW c \in Carts, NEW row \in LotRow, row.remaining <= row.earned,
           lots' = [lots EXCEPT ![c] = row], Paid(cart') = Paid(cart),
           row.earned - row.remaining >= lots[c].earned - lots[c].remaining,
           entries' = entries + row.remaining - lots[c].remaining
    PROVE  /\ lots' \in [Carts -> LotRow] /\ NotOverdrawn' /\ StatementMatchesLots'
           /\ entries' \in Int
<1>1. /\ cart \in [Carts -> CartRow] /\ lots \in [Carts -> LotRow] /\ entries \in Int
      /\ LotsAre(lots) /\ IsFiniteSet(Carts)
    BY PromotionAssumption DEF PromoInv, PromoTypes, NotOverdrawn, LotsAre
<1>2. /\ lots' \in [Carts -> LotRow] /\ lots'[c] = row
      /\ \A k \in Carts \ {c} : lots'[k] = lots[k]
    BY <1>1
<1>3. NotOverdrawn'
    BY <1>2 DEF PromoInv, NotOverdrawn
<1> DEFINE left == Left(lots)
           used == Used(lots)
           left1 == Left(lots')
           used1 == Used(lots')
<1>4. /\ \A k \in Carts : left[k] \in Int /\ left1[k] \in Int /\ used[k] \in Int /\ used1[k] \in Int
      /\ \A k \in Carts \ {c} : left1[k] = left[k]
      /\ \A k \in Carts : used[k] <= used1[k]
      /\ left1[c] = row.remaining /\ left[c] = lots[c].remaining
  <2>1. /\ \A k \in Carts : left[k] \in Int /\ left1[k] \in Int /\ used[k] \in Int /\ used1[k] \in Int
        /\ \A k \in Carts \ {c} : left1[k] = left[k] /\ used1[k] = used[k]
        /\ left1[c] = row.remaining /\ left[c] = lots[c].remaining
    BY <1>1, <1>2 DEF Left, Used, LotRow
  <2>2. used1[c] >= used[c]
    BY <1>2 DEF Used
  <2> HIDE DEF used, used1
  <2>3. \A k \in Carts : used[k] <= used1[k]
    BY <2>1, <2>2
  <2> QED
    BY <2>1, <2>3
<1>5. SumOver(left, Carts) \in Int /\ SumOver(used, Carts) \in Int /\ SumOver(Paid(cart), Carts) \in Int
    BY <1>1, SumsAreInts
<1>6. entries = SumOver(left, Carts) /\ SumOver(Paid(cart), Carts) <= SumOver(used, Carts)
    BY StatementIs DEF PromoInv
<1>7. row.remaining \in Nat /\ lots[c].remaining \in Nat
    BY <1>1 DEF LotRow
<1> HIDE DEF left, used, left1, used1
<1>8. SumOver(left1, Carts) = SumOver(left, Carts) + left1[c] - left[c]
    BY <1>1, <1>4, SumChange
<1>9. SumOver(used, Carts) <= SumOver(used1, Carts) /\ SumOver(used1, Carts) \in Int
    BY <1>1, <1>4, SumGrows, SumType
<1>10. /\ entries' = SumOver(left1, Carts) /\ entries' \in Int
       /\ SumOver(Paid(cart), Carts) <= SumOver(used1, Carts)
    BY <1>4, <1>5, <1>6, <1>7, <1>8, <1>9
<1>11. StatementMatchesLots'
  <2>1. StatementMatchesLots' <=> /\ entries' = SumOver(Left(lots'), Carts)
                                 /\ SumOver(Paid(cart'), Carts) <= SumOver(Used(lots'), Carts)
    BY DEF StatementMatchesLots, Left, Used, Paid
  <2> QED
    BY <1>10, <2>1 DEF left1, used1
<1> QED
    BY <1>2, <1>3, <1>10, <1>11

\* A paid order earns its lot, once, and a full return takes back what is left of it.
LEMMA EarningKeeps ==
    ASSUME PromoInv, NEW c \in Carts, CreditLot(c) \/ ReverseLot(c)
    PROVE  PromoInv'
<1>1. /\ cart \in [Carts -> CartRow] /\ lots \in [Carts -> LotRow] /\ entries \in Int
      /\ cart[c] \in CartRow /\ lots[c] \in LotRow /\ lots[c].remaining <= lots[c].earned
      /\ PromoTypes
    BY DEF PromoInv, PromoTypes, NotOverdrawn
<1>2. PICK step \in {"paid", "returned"} : /\ cart' = [cart EXCEPT ![c].step = step]
                                            /\ cart[c].step \in {"placed", "paid"}
    BY DEF CreditLot, ReverseLot
<1> DEFINE crow == [cart[c] EXCEPT !.step = step]
<1>3. crow \in CartRow /\ crow.spent = cart[c].spent /\ crow.step \notin Unwritten
    BY <1>1 DEF CartRow, Unwritten
<1>4. cart' = [cart EXCEPT ![c] = crow]
    BY <1>1, <1>2
<1> HIDE DEF crow
<1>5. /\ cart' \in [Carts -> CartRow] /\ NothingSpentYet' /\ Paid(cart') = Paid(cart)
      /\ UNCHANGED <<lots, entries>> => NotOverdrawn' /\ StatementMatchesLots'
    BY <1>3, <1>4, CartMoves
<1>6. UNCHANGED <<programme, rates, coupon>>
    BY DEF CreditLot, ReverseLot
<1>7. CASE UNCHANGED <<lots, entries>>
    BY <1>5, <1>6, <1>7 DEF PromoInv, PromoTypes
<1>8. ASSUME NEW row \in LotRow, row.remaining <= row.earned, lots' = [lots EXCEPT ![c] = row],
             row.earned - row.remaining >= lots[c].earned - lots[c].remaining,
             entries' = entries + row.remaining - lots[c].remaining
      PROVE  PromoInv'
  <2>1. lots' \in [Carts -> LotRow] /\ NotOverdrawn' /\ StatementMatchesLots' /\ entries' \in Int
    BY <1>5, <1>8, LotMoves
  <2> QED
    BY <1>5, <1>6, <2>1 DEF PromoInv, PromoTypes
<1>9. CASE ReverseLot(c)
  <2> DEFINE row == [lots[c] EXCEPT !.remaining = 0]
  <2>1. lots' = [lots EXCEPT ![c] = row] /\ entries' = entries - lots[c].remaining
    BY <1>1, <1>9 DEF ReverseLot
  <2>2. row \in LotRow /\ row.remaining = 0 /\ row.earned = lots[c].earned
    BY <1>1 DEF LotRow
  <2>3. lots[c].earned \in Nat /\ lots[c].remaining \in Nat
    BY <1>1 DEF LotRow
  <2> HIDE DEF row
  <2>4. /\ row.remaining <= row.earned
        /\ row.earned - row.remaining >= lots[c].earned - lots[c].remaining
        /\ entries' = entries + row.remaining - lots[c].remaining
    BY <1>1, <2>1, <2>2, <2>3
  <2> QED
    BY <1>8, <2>1, <2>2, <2>4
<1>10. CASE CreditLot(c)
  <2> DEFINE paid == IF cart[c].total > Ship[c] THEN cart[c].total - Ship[c] ELSE 0
             earned == EarnByItems(c, paid)
             row == [earned |-> earned, remaining |-> earned, live |-> TRUE]
  <2>1. paid \in Int
    BY <1>1, PromotionAssumption DEF CartRow
  <2>2. earned \in Int
    <3> HIDE DEF paid
    <3> QED
      BY <1>1, <2>1, EarnIsInt
  <2>3. \/ UNCHANGED <<lots, entries>>
        \/ /\ ~(earned <= 0) /\ ~(lots[c].earned > 0)
           /\ lots' = [lots EXCEPT ![c] = row] /\ entries' = entries + earned
    BY <1>10 DEF CreditLot
  <2> HIDE DEF paid, earned
  <2>4. CASE /\ ~(earned <= 0) /\ ~(lots[c].earned > 0)
             /\ lots' = [lots EXCEPT ![c] = row] /\ entries' = entries + earned
    <3>1. row \in LotRow /\ row.earned = earned /\ row.remaining = earned /\ earned \in Nat
      BY <2>2, <2>4 DEF LotRow
    <3>2. lots[c].earned = 0 /\ lots[c].remaining = 0
      BY <1>1, <2>4 DEF LotRow
    <3> HIDE DEF row
    <3>3. /\ row.remaining <= row.earned
          /\ row.earned - row.remaining >= lots[c].earned - lots[c].remaining
          /\ entries' = entries + row.remaining - lots[c].remaining
      BY <1>1, <2>4, <3>1, <3>2
    <3> QED
      BY <1>8, <2>4, <3>1, <3>3
  <2> QED
    BY <1>7, <2>3, <2>4
<1> QED
    BY <1>9, <1>10

\* A lot lapses, or an administrator edits the programme or the coupon.
LEMMA ScreensKeep ==
    ASSUME PromoInv,
           \/ \E c \in Carts : Lapse(c)
           \/ UpdateConfig \/ SetCategoryRate \/ DeleteCoupon
           \/ \E k \in Categories : DeleteCategoryRate(k)
           \/ \E in \in CouponInputs : CreateCoupon(in)
           \/ \E a, e \in BOOLEAN, max \in {in.max : in \in CouponInputs} : UpdateCoupon(a, e, max)
           \/ UNCHANGED promoVars
    PROVE  PromoInv'
<1>1. ASSUME UNCHANGED <<cart, lots, entries>>, programme' \in Programmes,
             \A k \in DOMAIN rates' : rates'[k] \in Nat,
             coupon' \in {NoCoupon} \union CouponRow
      PROVE  PromoInv'
  <2>1. StatementMatchesLots' /\ NotOverdrawn' /\ NothingSpentYet'
    BY <1>1 DEF PromoInv, StatementMatchesLots, NotOverdrawn, NothingSpentYet
  <2> QED
    BY <1>1, <2>1 DEF PromoInv, PromoTypes
<1>2. /\ programme \in Programmes /\ \A k \in DOMAIN rates : rates[k] \in Nat
      /\ coupon \in {NoCoupon} \union CouponRow
    BY DEF PromoInv, PromoTypes
<1>3. ASSUME NEW c \in Carts, Lapse(c) PROVE PromoInv'
  <2> DEFINE row == [lots[c] EXCEPT !.live = FALSE]
  <2>1. lots' = [lots EXCEPT ![c] = row] /\ UNCHANGED <<programme, rates, coupon, cart, entries>>
    BY <1>3 DEF Lapse, PromoInv, PromoTypes
  <2>2. lots[c] \in LotRow /\ lots[c].remaining <= lots[c].earned /\ entries \in Int
    BY DEF PromoInv, PromoTypes, NotOverdrawn
  <2>3. row \in LotRow /\ row.remaining = lots[c].remaining /\ row.earned = lots[c].earned
        /\ lots[c].remaining \in Nat /\ lots[c].earned \in Nat
    BY <2>2 DEF LotRow
  <2> HIDE DEF row
  <2>4. /\ row.remaining <= row.earned
        /\ row.earned - row.remaining >= lots[c].earned - lots[c].remaining
        /\ entries' = entries + row.remaining - lots[c].remaining
        /\ Paid(cart') = Paid(cart)
    BY <2>1, <2>2, <2>3
  <2>5. lots' \in [Carts -> LotRow] /\ NotOverdrawn' /\ StatementMatchesLots' /\ entries' \in Int
    BY <2>1, <2>3, <2>4, LotMoves
  <2> QED
    BY <2>1, <2>5 DEF PromoInv, PromoTypes, NothingSpentYet
<1>4. CASE UpdateConfig
    BY <1>1, <1>2, <1>4 DEF UpdateConfig
<1>5. CASE SetCategoryRate
  <2>1. PICK r \in CategoryRates : rates' = [k \in (DOMAIN r) \union DOMAIN rates |->
                                             IF k \in DOMAIN r THEN r[k] ELSE rates[k]]
    BY <1>5 DEF SetCategoryRate
  <2>2. /\ DOMAIN rates' = (DOMAIN r) \union (DOMAIN rates)
        /\ \A k \in DOMAIN rates' : rates'[k] = IF k \in DOMAIN r THEN r[k] ELSE rates[k]
    BY <2>1
  <2>3. \A k \in DOMAIN r : r[k] \in Nat
    BY PromotionAssumption
  <2>4. \A k \in DOMAIN rates' : rates'[k] \in Nat
    BY <1>2, <2>2, <2>3
  <2> QED
    BY <1>1, <1>2, <1>5, <2>4 DEF SetCategoryRate
<1>6. CASE DeleteCoupon
    BY <1>1, <1>2, <1>6 DEF DeleteCoupon
<1>7. ASSUME NEW k \in Categories, DeleteCategoryRate(k) PROVE PromoInv'
  <2>1. \A j \in DOMAIN rates' : rates'[j] \in Nat
    BY <1>2, <1>7 DEF DeleteCategoryRate
  <2> QED
    BY <1>1, <1>2, <1>7, <2>1 DEF DeleteCategoryRate
<1>8. ASSUME NEW in \in CouponInputs, CreateCoupon(in) PROVE PromoInv'
  <2> DEFINE yes == TRUE
             no == FALSE
  <2>1. coupon' = [code |-> yes, uses |-> 0, percent |-> in.percent, value |-> in.value,
                   min |-> in.min, max |-> in.max, active |-> yes, expired |-> no]
    BY <1>8 DEF CreateCoupon
  <2>2. yes \in BOOLEAN /\ no \in BOOLEAN
    OBVIOUS
  <2> HIDE DEF yes, no
  <2>3. coupon' \in CouponRow
    BY <2>1, <2>2, PromotionAssumption DEF CouponRow
  <2> QED
    BY <1>1, <1>2, <1>8, <2>3 DEF CreateCoupon
<1>9. ASSUME NEW a \in BOOLEAN, NEW e \in BOOLEAN, NEW max \in {in.max : in \in CouponInputs},
             UpdateCoupon(a, e, max)
      PROVE  PromoInv'
  <2>1. max \in Int
    BY PromotionAssumption
  <2>0. coupon.code /\ coupon' = [coupon EXCEPT !.active = a, !.expired = e, !.max = max]
    BY <1>9 DEF UpdateCoupon
  <2>2. coupon \in CouponRow
    BY <1>2, <2>0 DEF NoCoupon
  <2> DEFINE f == [coupon EXCEPT !.active = a]
             g == [f EXCEPT !.expired = e]
  <2>3. f \in CouponRow
    BY <2>2 DEF CouponRow
  <2> HIDE DEF f
  <2>4. g \in CouponRow
    BY <2>3 DEF CouponRow
  <2> HIDE DEF g
  <2>5. [g EXCEPT !.max = max] \in CouponRow
    BY <2>1, <2>4 DEF CouponRow
  <2>6. coupon' = [g EXCEPT !.max = max]
    BY <2>0 DEF f, g
  <2> QED
    BY <1>1, <1>2, <1>9, <2>5, <2>6 DEF UpdateCoupon
<1>10. CASE UNCHANGED promoVars
    BY <1>1, <1>2, <1>10 DEF promoVars
<1> QED
    BY <1>3, <1>4, <1>5, <1>6, <1>7, <1>8, <1>9, <1>10

\* The invariant holds in every state of a customer's cashback and coupons.
LEMMA PromoInvAlways == PromoSpec => []PromoInv
<1>1. PromoInit => PromoInv
    BY InitPromo
<1>2. PromoInv /\ [PromoNext]_promoVars => PromoInv'
  <2> SUFFICES ASSUME PromoInv, [PromoNext]_promoVars PROVE PromoInv'
      OBVIOUS
  <2>1. ASSUME NEW c \in Carts,
               \/ \E b \in BOOLEAN : Quote(c, b)
               \/ \E asked \in {0, Gross(c)} : ReadBalance(c, asked)
               \/ DropCart(c)
        PROVE  PromoInv'
    BY <2>1, CheckoutKeeps
  <2>2. ASSUME NEW c \in Carts, Place(c) PROVE PromoInv'
    BY <2>2, PlaceKeeps
  <2>3. ASSUME NEW c \in Carts, CreditLot(c) \/ ReverseLot(c) PROVE PromoInv'
    BY <2>3, EarningKeeps
  <2>4. CASE \/ \E c \in Carts : Lapse(c)
             \/ UpdateConfig \/ SetCategoryRate \/ DeleteCoupon
             \/ \E k \in Categories : DeleteCategoryRate(k)
             \/ \E in \in CouponInputs : CreateCoupon(in)
             \/ \E a, e \in BOOLEAN, max \in {in.max : in \in CouponInputs} : UpdateCoupon(a, e, max)
             \/ UNCHANGED promoVars
    BY <2>4, ScreensKeep
  <2> QED
    BY <2>1, <2>2, <2>3, <2>4 DEF PromoNext
<1> QED
    BY <1>1, <1>2, PTL DEF PromoSpec

\* The statement a customer reads, the lots and the orders agree, whatever checkouts that read
\* the same balance do to the lots together (cashback.Redeem consumes under lock, and the order
\* is written with what was really consumed).
THEOREM StatementsMatchTheLots == PromoSpec => []StatementMatchesLots
<1>1. PromoInv => StatementMatchesLots
    BY DEF PromoInv
<1> QED
    BY <1>1, PromoInvAlways, PTL

\* Of the checkouts that read the same last use of a coupon, one is written with it: each
\* order written with a coupon is one use, and never one above the limit.
THEOREM LastUsesAreTakenOnce == PromoSpec => LastUseTakenOnce
<1> DEFINE A == \A c \in Carts :
                  cart[c].step = "open" /\ cart'[c].step = "placed" /\ cart[c].coupon =>
                    /\ coupon'.uses = coupon.uses + 1
                    /\ coupon'.max = 0 \/ coupon'.uses <= coupon'.max
<1>1. PromoInv /\ [PromoNext]_promoVars => [A]_promoVars
  <2> SUFFICES ASSUME PromoInv, PromoNext, NEW c \in Carts, cart[c].step = "open",
                      cart'[c].step = "placed", cart[c].coupon
               PROVE  /\ coupon'.uses = coupon.uses + 1
                      /\ coupon'.max = 0 \/ coupon'.uses <= coupon'.max
      OBVIOUS
  <2>1. cart \in [Carts -> CartRow] /\ coupon \in {NoCoupon} \union CouponRow
    BY DEF PromoInv, PromoTypes
  <2>2. PICK d \in Carts : Place(d)
    <3>1. cart' # cart
      OBVIOUS
    <3>2. ASSUME NEW d \in Carts, NEW to \in {"quoted", "open", "dropped", "paid", "returned"},
                 NEW row, row.step = to, cart' = [cart EXCEPT ![d] = row]
          PROVE  FALSE
      BY <2>1, <3>2
    <3>3. ASSUME NEW d \in Carts, NEW b, Quote(d, b) PROVE FALSE
      BY <2>1, <3>3 DEF Quote, CartRow
    <3>4. ASSUME NEW d \in Carts, NEW asked, ReadBalance(d, asked) PROVE FALSE
      BY <2>1, <3>4 DEF ReadBalance, CartRow
    <3>5. ASSUME NEW d \in Carts, DropCart(d) PROVE FALSE
      <4>1. [NewCart EXCEPT !.step = "dropped"].step = "dropped"
        BY DEF NewCart
      <4> QED
        BY <2>1, <3>5, <4>1 DEF DropCart
    <3>6. ASSUME NEW d \in Carts, CreditLot(d) \/ ReverseLot(d) PROVE FALSE
      BY <2>1, <3>6 DEF CreditLot, ReverseLot, CartRow
    <3>7. ASSUME \/ \E k \in Carts : Lapse(k)
                 \/ UpdateConfig \/ SetCategoryRate \/ DeleteCoupon
                 \/ \E k \in Categories : DeleteCategoryRate(k)
                 \/ \E in \in CouponInputs : CreateCoupon(in)
                 \/ \E a, e \in BOOLEAN, max \in {in.max : in \in CouponInputs} : UpdateCoupon(a, e, max)
          PROVE  FALSE
      BY <3>1, <3>7 DEF Lapse, UpdateConfig, SetCategoryRate, DeleteCoupon, DeleteCategoryRate,
                        CreateCoupon, UpdateCoupon
    <3> QED
      BY <3>3, <3>4, <3>5, <3>6, <3>7 DEF PromoNext
  <2>3. d = c
    BY <2>1, <2>2 DEF Place
  <2>4. /\ coupon.code /\ coupon' = [coupon EXCEPT !.uses = @ + 1]
        /\ coupon.max = 0 \/ coupon.uses < coupon.max
    BY <2>2, <2>3 DEF Place, UseCoupon
  <2>5. coupon \in CouponRow
    BY <2>1, <2>4 DEF NoCoupon
  <2> QED
    BY <2>4, <2>5 DEF CouponRow
<1> HIDE DEF A
<1>2. PromoSpec => [][A]_promoVars
    BY <1>1, PromoInvAlways, PTL DEF PromoSpec
<1> QED
    BY <1>2 DEF LastUseTakenOnce, A

-----------------------------------------------------------------------------
(* The book *)

\* A run of the reconciliation: what it read of each payment was true of the book and stays
\* so (a document is never taken out), and a payment it read as confirmed and without its
\* sale is a discrepancy as soon as it has been gone through.
SeenRow == [pay : Payments, status : {"pending", "confirmed", "failed"}, booked : BOOLEAN]
RunTypes ==
    \/ recon = NoRun
    \/ /\ recon = [step |-> recon.step, next |-> recon.next, found |-> recon.found,
                   seen |-> recon.seen]
       /\ recon.step \in {"running", "ok", "discrepancies"}
       /\ recon.next \in Nat \ {0}
       /\ \E n \in Int : recon.seen \in [1..n -> SeenRow]
RunIsTrue ==
    recon # NoRun =>
      /\ \A i \in DOMAIN recon.seen :
           /\ recon.seen[i].booked => <<"sale", recon.seen[i].pay>> \in DOMAIN book
           /\ i < recon.next /\ recon.seen[i].status = "confirmed" /\ ~recon.seen[i].booked
                => recon.found # {}
           /\ recon.step # "running" => i < recon.next
      /\ recon.step = "ok" => recon.found = {}
PayRow == [status : {"pending", "confirmed", "failed"},
           psp : {"pending", "confirmed", "failed"}, amount : Int,
           posts : BOOLEAN, approved : BOOLEAN]
\* A webhook posts only what the PSP has approved.
PayTypes == /\ pay \in [Payments -> PayRow]
            /\ \A p \in Payments :
                 /\ pay[p].posts => pay[p].approved
                 /\ pay[p].psp = "confirmed" /\ pay[p].amount = PriceOf => pay[p].approved

\* An open transaction holds a key that is not in the book and that no other one holds.
KeysAreOwned ==
    /\ IsFiniteSet(DOMAIN book)
    /\ writer = [w \in Writers |-> writer[w]]
    /\ \A w \in Writers : writer[w] # NoDoc =>
         /\ writer[w].key \notin DOMAIN book
         /\ \A v \in Writers \ {w} : writer[v] # NoDoc => writer[v].key # writer[w].key
\* Nobody writes in a month that is quiet and read by somebody, or closed, and what was read
\* of it still is what the book says.
ReadingsAgree(m, e) ==
    /\ e.balances = TrialBalance(m)
    /\ e.step = "totals" => e.net = RevenueIn(m) - RefundedIn(m)
ClosingsAgree ==
    /\ closing = [c \in Closers |-> closing[c]]
    /\ \A c \in Closers : closing[c] # NotClosing =>
         /\ closing[c].step \in {"balances", "totals"}
         /\ closing[c].month \in quiet => /\ ~InFlight(closing[c].month)
                                          /\ ReadingsAgree(closing[c].month, closing[c])
QuietIsSettled == \A m \in DOMAIN period \cap quiet : ~InFlight(m)
BookInv == KeysAreOwned /\ ClosingsAgree /\ QuietIsSettled /\ QuietClosingIsFinal

\* The number of payments a run goes through.
LEMMA RunLength == Min({MaxCheck, Len(Checkable)}) \in Int
                   /\ Min({MaxCheck, Len(Checkable)}) <= Len(Checkable)
<1> DEFINE n == Len(Checkable)
<1>1. MaxCheck \in Int /\ n \in Int
    BY LedgerAssumption
<1>2. \E x \in {MaxCheck, n} : \A y \in {MaxCheck, n} : x <= y
    BY <1>1
<1>3. /\ Min({MaxCheck, n}) \in {MaxCheck, n}
      /\ \A y \in {MaxCheck, n} : Min({MaxCheck, n}) <= y
    BY <1>2 DEF Min
<1> QED
    BY <1>1, <1>3

\* No step takes a document out of the book or rewrites one; one that is new was inserted by
\* a transaction that was open.
LEMMA BookGrows ==
    ASSUME KeysAreOwned, [LedgerNext]_ledgerVars
    PROVE  /\ DOMAIN book \subseteq DOMAIN book'
           /\ \A k \in DOMAIN book : book'[k] = book[k]
           /\ \A k \in DOMAIN book' \ DOMAIN book :
                \E w \in Writers : /\ writer[w] # NoDoc /\ writer[w].key = k
                                  /\ book'[k].lines = writer[w].lines
<1> DEFINE G == /\ DOMAIN book \subseteq DOMAIN book'
                /\ \A k \in DOMAIN book : book'[k] = book[k]
                /\ \A k \in DOMAIN book' \ DOMAIN book :
                     \E w \in Writers : /\ writer[w] # NoDoc /\ writer[w].key = k
                                       /\ book'[k].lines = writer[w].lines
<1>1. ASSUME NEW w \in Writers, CommitEntry(w) PROVE G
  <2> DEFINE key == writer[w].key
             d == [month |-> writer[w].month, lines |-> writer[w].lines]
  <2>1. book' = With(book, key, d) /\ writer[w] # NoDoc /\ d.lines = writer[w].lines
    BY <1>1 DEF CommitEntry
  <2>2. key \notin DOMAIN book
    BY <2>1 DEF KeysAreOwned
  <2> HIDE DEF d
  <2>3. /\ DOMAIN book' = DOMAIN book \union {key} /\ book'[key] = d
        /\ \A k \in DOMAIN book : book'[k] = book[k]
    BY <2>1, <2>2 DEF With
  <2> QED
    BY <2>1, <2>3
<1>2. ASSUME book' = book PROVE G
    BY <1>2
<1>3. ASSUME NEW w, NEW key, NEW month, NEW lines, InsertEntry(w, key, month, lines)
      PROVE  book' = book
    BY <1>3 DEF InsertEntry
<1>4. ASSUME NEW w \in Writers,
             \/ \E p \in Payments : PostSale(w, p)
             \/ \E s \in Sales : PostExternalSale(w, s)
             \/ \E r \in Refunds : PostReturnRefund(w, r)
             \/ \E k \in Reversible : ReverseEntry(w, k)
      PROVE  book' = book
    BY <1>3, <1>4 DEF PostSale, PostExternalSale, PostReturnRefund, ReverseEntry
<1>5. ASSUME NEW w \in Writers, RollbackEntry(w) PROVE book' = book
    BY <1>5 DEF RollbackEntry
<1>6. ASSUME NEW c \in Closers,
             (\E m \in LedgerMonths : BeginClose(c, m)) \/ ReadTotals(c) \/ WritePeriod(c)
               \/ GiveUpClosing(c)
      PROVE  book' = book
    BY <1>6 DEF BeginClose, ReadTotals, WritePeriod, GiveUpClosing, bookVars
<1>7. ASSUME NextMonth \/ (\E p \in Payments : PSPDecides(p) \/ WebhookFinds(p) \/ SyncPayment(p))
      PROVE  book' = book
    BY <1>7 DEF NextMonth, PSPDecides, WebhookFinds, SyncPayment, bookVars
<1>8. ASSUME BeginRun \/ FinishRun \/ \E a \in BOOLEAN : CheckPayment(a)
      PROVE  book' = book
    BY <1>8 DEF BeginRun, FinishRun, CheckPayment, bookVars
<1>9. ASSUME UNCHANGED ledgerVars PROVE book' = book
    BY <1>9 DEF ledgerVars, bookVars
<1>10. (\E w \in Writers : CommitEntry(w)) \/ book' = book
    BY <1>4, <1>5, <1>6, <1>7, <1>8, <1>9 DEF LedgerNext, BookNext, ClosingNext, ReconNext
<1> HIDE DEF G
<1>11. G
    BY <1>1, <1>2, <1>10
<1> QED
    BY <1>11 DEF G

\* What the PSP's answer and a webhook change of the row of a payment.
LEMMA PayRowAnswered ==
    ASSUME NEW old \in PayRow, NEW s, NEW a, NEW b
    PROVE  [old EXCEPT !.psp = s, !.amount = a, !.approved = b] =
             [status |-> old.status, psp |-> s, amount |-> a, posts |-> old.posts, approved |-> b]
<1> DEFINE told == [old EXCEPT !.psp = s]
           priced == [told EXCEPT !.amount = a]
<1>1. told = [status |-> old.status, psp |-> s, amount |-> old.amount,
              posts |-> old.posts, approved |-> old.approved]
  BY DEF PayRow
<1>2. [old EXCEPT !.psp = s, !.amount = a, !.approved = b] = [priced EXCEPT !.approved = b]
  OBVIOUS
<1> HIDE DEF told
<1>3. priced = [status |-> old.status, psp |-> s, amount |-> a,
                posts |-> old.posts, approved |-> old.approved]
  BY <1>1
<1> HIDE DEF priced
<1> QED BY <1>2, <1>3

\* (The same, for what a webhook finds.)
LEMMA PayRowFound ==
    ASSUME NEW old \in PayRow, NEW b
    PROVE  [old EXCEPT !.status = old.psp, !.posts = b] =
             [status |-> old.psp, psp |-> old.psp, amount |-> old.amount,
              posts |-> b, approved |-> old.approved]
<1> DEFINE told == [old EXCEPT !.status = old.psp]
<1>1. told = [status |-> old.psp, psp |-> old.psp, amount |-> old.amount,
              posts |-> old.posts, approved |-> old.approved]
  BY DEF PayRow
<1>2. [old EXCEPT !.status = old.psp, !.posts = b] = [told EXCEPT !.posts = b]
  OBVIOUS
<1> HIDE DEF told
<1> QED BY <1>1, <1>2

\* The steps that touch the payments.
LEMMA PaymentsKeep ==
    ASSUME PayTypes, [LedgerNext]_ledgerVars
    PROVE  /\ PayTypes'
           /\ \A p \in Payments : pay[p].approved => pay'[p].approved
<1> USE DEF PayTypes
<1>1. CASE pay' = pay
    BY <1>1
<1>2. ASSUME NEW p \in Payments, NEW row \in PayRow, pay' = [pay EXCEPT ![p] = row],
             row.posts => row.approved,
             row.psp = "confirmed" /\ row.amount = PriceOf => row.approved,
             pay[p].approved => row.approved
      PROVE  PayTypes' /\ \A q \in Payments : pay[q].approved => pay'[q].approved
    BY <1>2
<1>3. ASSUME NEW p \in Payments, PSPDecides(p)
      PROVE  PayTypes' /\ \A q \in Payments : pay[q].approved => pay'[q].approved
  <2>1. PICK s \in PaymentStatuses, a \in {PriceOf, PriceOf + 1} :
          pay' = [pay EXCEPT ![p].psp = s, ![p].amount = a,
                             ![p].approved = @ \/ (s = "confirmed" /\ a = PriceOf)]
    BY <1>3 DEF PSPDecides
  <2> DEFINE b == pay[p].approved \/ (s = "confirmed" /\ a = PriceOf)
             row == [status |-> pay[p].status, psp |-> s, amount |-> a,
                     posts |-> pay[p].posts, approved |-> b]
  <2>2. pay[p] \in PayRow /\ a \in Int
    BY DEF PriceOf
  <2>3. b \in BOOLEAN /\ (pay[p].approved => b) /\ (s = "confirmed" /\ a = PriceOf => b)
    BY <2>2 DEF PayRow
  <2>4. pay' = [pay EXCEPT ![p] = [pay[p] EXCEPT !.psp = s, !.amount = a, !.approved = b]]
    BY <2>1
  <2> HIDE DEF b
  <2> DEFINE old == pay[p]
  <2>5. [old EXCEPT !.psp = s, !.amount = a, !.approved = b] = row
    <3>1. old \in PayRow
      BY <2>2
    <3>2. row = [status |-> old.status, psp |-> s, amount |-> a,
                 posts |-> old.posts, approved |-> b]
      OBVIOUS
    <3> HIDE DEF old, row
    <3> QED BY <3>1, <3>2, PayRowAnswered
  <2>6. row \in PayRow
    BY <2>2, <2>3 DEF PayRow, PaymentStatuses
  <2>7. row.posts = pay[p].posts /\ row.approved = b /\ row.psp = s /\ row.amount = a
    OBVIOUS
  <2>8. pay' = [pay EXCEPT ![p] = row]
    BY <2>4, <2>5
  <2> HIDE DEF row
  <2> QED
    BY <1>2, <2>3, <2>6, <2>7, <2>8
<1>9. ASSUME NEW p \in Payments, WebhookFinds(p) \/ SyncPayment(p)
      PROVE  PayTypes' /\ \A q \in Payments : pay[q].approved => pay'[q].approved
  <2>1. PICK b \in BOOLEAN : /\ pay' = [pay EXCEPT ![p].status = pay[p].psp, ![p].posts = b]
                             /\ b => pay[p].approved
    <3>1. CASE WebhookFinds(p)
      <4> DEFINE b == pay[p].posts \/ pay[p].psp = "confirmed"
      <4>1. /\ pay' = [pay EXCEPT ![p].status = pay[p].psp, ![p].posts = b]
            /\ pay[p].amount = PriceOf
        BY <3>1 DEF WebhookFinds
      <4>2. b \in BOOLEAN /\ (b => pay[p].approved)
        BY <4>1 DEF PayRow
      <4> HIDE DEF b
      <4> QED BY <4>1, <4>2
    <3>2. CASE SyncPayment(p)
      <4>1. pay' = [pay EXCEPT ![p].status = pay[p].psp]
        BY <3>2 DEF SyncPayment
      <4>2. pay' = [pay EXCEPT ![p].status = pay[p].psp, ![p].posts = pay[p].posts]
        BY <4>1 DEF PayRow
      <4>3. pay[p].posts \in BOOLEAN
        BY DEF PayRow
      <4> QED BY <4>2, <4>3
    <3> QED BY <1>9, <3>1, <3>2
  <2> DEFINE row == [status |-> pay[p].psp, psp |-> pay[p].psp, amount |-> pay[p].amount,
                     posts |-> b, approved |-> pay[p].approved]
  <2>2. pay[p] \in PayRow
    OBVIOUS
  <2>3. pay' = [pay EXCEPT ![p] = [pay[p] EXCEPT !.status = pay[p].psp, !.posts = b]]
    BY <2>1
  <2> DEFINE old == pay[p]
  <2>4. [old EXCEPT !.status = old.psp, !.posts = b] = row
    <3>1. old \in PayRow
      BY <2>2
    <3>2. row = [status |-> old.psp, psp |-> old.psp, amount |-> old.amount,
                 posts |-> b, approved |-> old.approved]
      OBVIOUS
    <3> HIDE DEF old, row
    <3> QED BY <3>1, <3>2, PayRowFound
  <2>5. row \in PayRow
    BY <2>2 DEF PayRow
  <2>6. /\ row.posts = b /\ row.approved = pay[p].approved
        /\ row.psp = pay[p].psp /\ row.amount = pay[p].amount
    OBVIOUS
  <2>7. pay' = [pay EXCEPT ![p] = row]
    BY <2>3, <2>4
  <2> HIDE DEF row
  <2> QED
    BY <1>2, <2>1, <2>5, <2>6, <2>7
<1>4. ASSUME NEW w, NEW key, NEW month, NEW lines, InsertEntry(w, key, month, lines)
      PROVE  pay' = pay
    BY <1>4 DEF InsertEntry
<1>5. ASSUME NEW w \in Writers,
             \/ \E p \in Payments : PostSale(w, p)
             \/ \E s \in Sales : PostExternalSale(w, s)
             \/ \E r \in Refunds : PostReturnRefund(w, r)
             \/ \E k \in Reversible : ReverseEntry(w, k)
             \/ CommitEntry(w) \/ RollbackEntry(w)
      PROVE  pay' = pay
    BY <1>4, <1>5 DEF PostSale, PostExternalSale, PostReturnRefund, ReverseEntry, CommitEntry,
                      RollbackEntry
<1>6. ASSUME NEW c \in Closers,
             (\E m \in LedgerMonths : BeginClose(c, m)) \/ ReadTotals(c) \/ WritePeriod(c)
               \/ GiveUpClosing(c)
      PROVE  pay' = pay
    BY <1>6 DEF BeginClose, ReadTotals, WritePeriod, GiveUpClosing
<1>7. ASSUME NextMonth \/ BeginRun \/ FinishRun \/ \E a \in BOOLEAN : CheckPayment(a)
      PROVE  pay' = pay
    BY <1>7 DEF NextMonth, BeginRun, FinishRun, CheckPayment
<1>8. CASE UNCHANGED ledgerVars
    BY <1>8 DEF ledgerVars
<1> QED
    BY <1>1, <1>3, <1>5, <1>6, <1>7, <1>8, <1>9 DEF LedgerNext, BookNext, ClosingNext, ReconNext

\* The steps of a run.
LEMMA RunKeeps ==
    ASSUME PayTypes, RunTypes, RunIsTrue, BeginRun \/ FinishRun \/ \E a \in BOOLEAN : CheckPayment(a)
    PROVE  RunTypes' /\ RunIsTrue'
<1>0. book' = book
    BY DEF BeginRun, FinishRun, CheckPayment, bookVars
<1>1. CASE BeginRun
  <2> DEFINE n == Min({MaxCheck, Len(Checkable)})
             s == [i \in 1..n |-> [pay |-> Checkable[i], status |-> pay[Checkable[i]].status,
                                   booked |-> <<"sale", Checkable[i]>> \in DOMAIN book]]
  <2>1. recon' = [step |-> "running", next |-> 1, found |-> {}, seen |-> s]
    BY <1>1 DEF BeginRun
  <2>2. n \in Int
    BY RunLength
  <2>3. \A i \in 1..n : Checkable[i] \in Payments
    BY RunLength, LedgerAssumption
  <2>4. s \in [1..n -> SeenRow]
    <3> SUFFICES ASSUME NEW i \in 1..n
                 PROVE  [pay |-> Checkable[i], status |-> pay[Checkable[i]].status,
                         booked |-> <<"sale", Checkable[i]>> \in DOMAIN book] \in SeenRow
        OBVIOUS
    <3> DEFINE p == Checkable[i]
               b == <<"sale", Checkable[i]>> \in DOMAIN book
    <3>1. p \in Payments /\ pay[p].status \in {"pending", "confirmed", "failed"}
      BY <2>3 DEF PayTypes, PayRow
    <3>2. b \in BOOLEAN
      OBVIOUS
    <3>3. [pay |-> p, status |-> pay[p].status, booked |-> b] \in SeenRow
      <4> HIDE DEF p, b
      <4> QED
        BY <3>1, <3>2 DEF SeenRow
    <3> QED
      BY <3>3
  <2>5. \A i \in 1..n : s[i].booked => <<"sale", s[i].pay>> \in DOMAIN book
    OBVIOUS
  <2>6. \A i \in 1..n : ~(i < 1)
    BY <2>2
  <2> HIDE DEF n, s
  <2>7. RunTypes'
    BY <2>1, <2>2, <2>4 DEF RunTypes
  <2>8. RunIsTrue'
    BY <1>0, <2>1, <2>4, <2>5, <2>6 DEF RunIsTrue
  <2> QED
    BY <2>7, <2>8
<1>2. ASSUME NEW a \in BOOLEAN, CheckPayment(a) PROVE RunTypes' /\ RunIsTrue'
  <2> DEFINE more == Discrepancies(recon.seen[recon.next], a)
  <2>1. recon # NoRun /\ recon.step = "running" /\ recon.next \in DOMAIN recon.seen
    <3>1. recon.step = "running" /\ recon.next \in DOMAIN recon.seen
      BY <1>2 DEF CheckPayment
    <3> QED
      BY <3>1 DEF NoRun
  <2>2. recon' = [recon EXCEPT !.next = @ + 1, !.found = @ \union more]
    BY <1>2 DEF CheckPayment
  <2>3. recon.seen[recon.next].status = "confirmed" /\ ~recon.seen[recon.next].booked
          => more # {}
    BY DEF Discrepancies
  <2> HIDE DEF more
  <2>4. PICK n \in Int : recon.seen \in [1..n -> SeenRow]
    BY <2>1 DEF RunTypes
  <2>5. /\ recon = [step |-> recon.step, next |-> recon.next, found |-> recon.found,
                    seen |-> recon.seen]
        /\ recon.next \in Nat \ {0}
    BY <2>1 DEF RunTypes
  <2> DEFINE k == recon.next + 1
             f == recon.found \union more
             after == [step |-> recon.step, next |-> k, found |-> f, seen |-> recon.seen]
  <2>6. recon' = after
    BY <2>2, <2>5
  <2>7. k \in Nat \ {0} /\ \A i \in 1..n : i < k => i < recon.next \/ i = recon.next
    BY <2>5
  <2>8. /\ recon'.step = "running" /\ recon'.next = k /\ recon'.found = f
        /\ recon'.seen = recon.seen /\ recon' # NoRun /\ recon' = after
    BY <2>1, <2>6 DEF NoRun
  <2> HIDE DEF k, f
  <2>9. RunTypes'
    BY <2>4, <2>7, <2>8 DEF RunTypes
  <2>10. RunIsTrue'
    <3> SUFFICES ASSUME NEW i \in 1..n
                 PROVE  /\ recon.seen[i].booked => <<"sale", recon.seen[i].pay>> \in DOMAIN book
                        /\ i < k /\ recon.seen[i].status = "confirmed" /\ ~recon.seen[i].booked
                             => f # {}
      BY <1>0, <2>4, <2>8 DEF RunIsTrue
    <3> QED
      BY <2>1, <2>3, <2>4, <2>7 DEF RunIsTrue, f
  <2> QED
    BY <2>9, <2>10
<1>3. CASE FinishRun
  <2>1. recon # NoRun /\ recon.step = "running" /\ recon.next \notin DOMAIN recon.seen
    BY <1>3 DEF FinishRun, NoRun
  <2>2. PICK n \in Int : recon.seen \in [1..n -> SeenRow]
    BY <2>1 DEF RunTypes
  <2>3. /\ recon = [step |-> recon.step, next |-> recon.next, found |-> recon.found,
                    seen |-> recon.seen]
        /\ recon.next \in Nat \ {0}
    BY <2>1 DEF RunTypes
  <2>4. \A i \in 1..n : i < recon.next
    BY <2>1, <2>2, <2>3
  <2>5. PICK s \in {"ok", "discrepancies"} : /\ recon' = [recon EXCEPT !.step = s]
                                             /\ s = "ok" => recon.found = {}
    BY <1>3 DEF FinishRun
  <2>6. /\ recon'.step = s /\ recon'.next = recon.next /\ recon'.found = recon.found
        /\ recon'.seen = recon.seen /\ recon' # NoRun
        /\ recon' = [step |-> s, next |-> recon.next, found |-> recon.found, seen |-> recon.seen]
    BY <2>3, <2>5 DEF NoRun
  <2>7. RunTypes'
    BY <2>2, <2>3, <2>6 DEF RunTypes
  <2>8. RunIsTrue'
    BY <1>0, <2>1, <2>2, <2>4, <2>5, <2>6 DEF RunIsTrue
  <2> QED
    BY <2>7, <2>8
<1> QED
    BY <1>1, <1>2, <1>3

\* What the month reads depends on its documents only.
LEMMA MonthStays ==
    ASSUME NEW m, IsFiniteSet(DOMAIN book), IsFiniteSet(DOMAIN book'),
           InMonth(m)' = InMonth(m), \A k \in InMonth(m) : book'[k].lines = book[k].lines
    PROVE  /\ TrialBalance(m)' = TrialBalance(m)
           /\ RevenueIn(m)' = RevenueIn(m) /\ RefundedIn(m)' = RefundedIn(m)
           /\ EntriesIn(m)' = EntriesIn(m)
<1> DEFINE M == InMonth(m)
           B == book
           C == book'
<1>0. M \subseteq DOMAIN B /\ M \subseteq DOMAIN C /\ IsFiniteSet(M)
    BY FS_Subset DEF InMonth
<1>1. \A k \in M : C[k].lines = B[k].lines
    OBVIOUS
<1>2. ASSUME NEW a, NEW d
      PROVE  SumOver([k \in DOMAIN C |-> Flow(C[k].lines, a, d)], M)
               = SumOver([k \in DOMAIN B |-> Flow(B[k].lines, a, d)], M)
  <2> DEFINE f == [k \in DOMAIN C |-> Flow(C[k].lines, a, d)]
             g == [k \in DOMAIN B |-> Flow(B[k].lines, a, d)]
  <2>1. \A k \in M : f[k] = g[k]
    BY <1>0, <1>1
  <2> HIDE DEF f, g, M
  <2>2. SumOver(f, M) = SumOver(g, M)
    BY <1>0, <2>1, SumSame
  <2> QED
    BY <2>2 DEF f, g
<1>3. SumOver([k \in DOMAIN C |-> Len(C[k].lines)], M)
        = SumOver([k \in DOMAIN B |-> Len(B[k].lines)], M)
  <2> DEFINE f == [k \in DOMAIN C |-> Len(C[k].lines)]
             g == [k \in DOMAIN B |-> Len(B[k].lines)]
  <2>1. \A k \in M : f[k] = g[k]
    BY <1>0, <1>1
  <2> HIDE DEF f, g, M
  <2>2. SumOver(f, M) = SumOver(g, M)
    BY <1>0, <2>1, SumSame
  <2> QED
    BY <2>2 DEF f, g
<1>4. \A a, d : FlowIn(InMonth(m), a, d)' = FlowIn(InMonth(m), a, d)
  <2> SUFFICES ASSUME NEW a, NEW d
               PROVE  FlowIn(InMonth(m), a, d)' = FlowIn(InMonth(m), a, d)
      OBVIOUS
  <2>1. InMonth(m)' = M
    OBVIOUS
  <2> QED
    BY <1>2, <2>1 DEF FlowIn
<1>5. EntriesIn(m)' = EntriesIn(m)
    BY <1>3 DEF EntriesIn
<1> QED
    BY <1>4, <1>5 DEF TrialBalance, RevenueIn, RefundedIn

\* When the months that are still quiet keep their documents and nobody enters them, what was
\* read of them stays true.
LEMMA QuietStays ==
    ASSUME BookInv, quiet' \subseteq quiet, IsFiniteSet(DOMAIN book'),
           \A m \in quiet' : (~InFlight(m) /\ (m \in Reading \/ m \in DOMAIN period)) =>
             ~InFlight(m)' /\ InMonth(m)' = InMonth(m)
               /\ \A k \in InMonth(m) : book'[k].lines = book[k].lines,
           UNCHANGED <<closing, period>>
    PROVE  ClosingsAgree' /\ QuietIsSettled' /\ QuietClosingIsFinal'
<1>0. IsFiniteSet(DOMAIN book)
    BY DEF BookInv, KeysAreOwned
<1>1. ASSUME NEW m \in quiet', ~InFlight(m), m \in Reading \/ m \in DOMAIN period
      PROVE  /\ ~InFlight(m)'
             /\ TrialBalance(m)' = TrialBalance(m)
             /\ RevenueIn(m)' = RevenueIn(m) /\ RefundedIn(m)' = RefundedIn(m)
             /\ EntriesIn(m)' = EntriesIn(m)
    BY <1>0, <1>1, MonthStays
<1>2. ClosingsAgree'
  <2> SUFFICES ASSUME NEW c \in Closers, closing[c] # NotClosing, NEW m, m = closing[c].month,
                      m \in quiet'
               PROVE  ~InFlight(m)' /\ ReadingsAgree(m, closing[c])'
      BY DEF BookInv, ClosingsAgree
  <2>1. /\ closing[c].step \in {"balances", "totals"} /\ ~InFlight(m)
        /\ ReadingsAgree(m, closing[c])
    BY DEF BookInv, ClosingsAgree
  <2>2. m \in Reading
    BY <2>1 DEF Reading
  <2>3. closing'[c] = closing[c]
    OBVIOUS
  <2> QED
    BY <1>1, <2>1, <2>2, <2>3 DEF ReadingsAgree
<1>3. ASSUME NEW m \in DOMAIN period \cap quiet'
      PROVE  ~InFlight(m)' /\ /\ period[m].balances = TrialBalance(m)'
                              /\ period[m].net = (RevenueIn(m) - RefundedIn(m))'
                              /\ period[m].count = EntriesIn(m)'
  <2>1. m \in quiet /\ ~InFlight(m)
    BY DEF BookInv, QuietIsSettled
  <2>2. /\ period[m].balances = TrialBalance(m)
        /\ period[m].net = RevenueIn(m) - RefundedIn(m)
        /\ period[m].count = EntriesIn(m)
    BY <2>1 DEF BookInv, QuietClosingIsFinal
  <2> QED
    BY <1>1, <2>1, <2>2
<1> QED
    BY <1>2, <1>3 DEF QuietIsSettled, QuietClosingIsFinal

\* An entry that is being written has a key that is its own.
LEMMA InsertKeepsBook ==
    ASSUME BookInv, NEW w \in Writers, NEW key, NEW month, NEW lines,
           InsertEntry(w, key, month, lines)
    PROVE  BookInv'
<1> DEFINE e == [key |-> key, month |-> month, lines |-> lines]
<1>1. /\ writer' = [writer EXCEPT ![w] = e] /\ writer[w] = NoDoc /\ key \notin DOMAIN book
      /\ \A v \in Writers : writer[v].key # key
      /\ month \notin DOMAIN period /\ quiet' = quiet \ (Reading \cap {month})
      /\ UNCHANGED <<closing, period, book>>
    BY DEF InsertEntry
<1>2. writer = [v \in Writers |-> writer[v]]
    BY DEF BookInv, KeysAreOwned
<1>3. e.key = key /\ e.month = month
    OBVIOUS
<1> HIDE DEF e
<1>4. writer' = [v \in Writers |-> writer'[v]] /\ writer'[w] = e
      /\ \A v \in Writers \ {w} : writer'[v] = writer[v]
    BY <1>1, <1>2
<1>5. KeysAreOwned'
    BY <1>1, <1>3, <1>4 DEF BookInv, KeysAreOwned
<1>6. ASSUME NEW m \in quiet', ~InFlight(m), m \in Reading \/ m \in DOMAIN period
      PROVE  ~InFlight(m)' /\ InMonth(m)' = InMonth(m)
               /\ \A k \in InMonth(m) : book'[k].lines = book[k].lines
  <2>1. month # m
    BY <1>1, <1>6
  <2>2. ~InFlight(m)'
    BY <1>3, <1>4, <1>6, <2>1 DEF InFlight
  <2> QED
    BY <1>1, <2>2 DEF InMonth
<1> QED
    BY <1>1, <1>5, <1>6, QuietStays DEF BookInv, KeysAreOwned

\* What is committed was written before the close of its month.
LEMMA CommitKeepsBook ==
    ASSUME BookInv, NEW w \in Writers, CommitEntry(w)
    PROVE  BookInv'
<1> DEFINE key == writer[w].key
           d == [month |-> writer[w].month, lines |-> writer[w].lines]
<1>1. /\ writer' = [writer EXCEPT ![w] = NoDoc] /\ writer[w] # NoDoc
      /\ book' = With(book, key, d) /\ UNCHANGED <<closing, period, quiet>>
    BY DEF CommitEntry
<1>2. /\ writer = [v \in Writers |-> writer[v]] /\ IsFiniteSet(DOMAIN book) /\ key \notin DOMAIN book
      /\ \A v \in Writers \ {w} : writer[v] # NoDoc => writer[v].key # key
    BY <1>1 DEF BookInv, KeysAreOwned
<1>3. d.month = writer[w].month
    OBVIOUS
<1> HIDE DEF d
<1>4. writer' = [v \in Writers |-> writer'[v]] /\ writer'[w] = NoDoc
      /\ \A v \in Writers \ {w} : writer'[v] = writer[v]
    BY <1>1, <1>2
<1>5. /\ DOMAIN book' = DOMAIN book \union {key} /\ book'[key] = d
      /\ \A k \in DOMAIN book : book'[k] = book[k]
    BY <1>1, <1>2 DEF With
<1>6. IsFiniteSet(DOMAIN book')
    BY <1>2, <1>5, FS_AddElement
<1>7. KeysAreOwned'
  <2> HIDE DEF key
  <2> QED
    BY <1>2, <1>4, <1>5, <1>6 DEF BookInv, KeysAreOwned
<1>8. ASSUME NEW m \in quiet', ~InFlight(m)
      PROVE  ~InFlight(m)' /\ InMonth(m)' = InMonth(m)
               /\ \A k \in InMonth(m) : book'[k].lines = book[k].lines
  <2>1. writer[w].month # m
    BY <1>1, <1>8 DEF InFlight
  <2>2. ~InFlight(m)'
    BY <1>4, <1>8 DEF InFlight
  <2>3. InMonth(m)' = InMonth(m)
    BY <1>2, <1>3, <1>5, <2>1 DEF InMonth
  <2> QED
    BY <1>5, <2>2, <2>3 DEF InMonth
<1> QED
    BY <1>1, <1>6, <1>7, <1>8, QuietStays DEF BookInv

\* What is rolled back leaves nothing.
LEMMA RollbackKeepsBook ==
    ASSUME BookInv, NEW w \in Writers, RollbackEntry(w)
    PROVE  BookInv'
<1>1. writer' = [writer EXCEPT ![w] = NoDoc] /\ UNCHANGED <<closing, period, quiet, book>>
    BY DEF RollbackEntry
<1>2. writer = [v \in Writers |-> writer[v]]
    BY DEF BookInv, KeysAreOwned
<1>3. writer' = [v \in Writers |-> writer'[v]] /\ writer'[w] = NoDoc
      /\ \A v \in Writers \ {w} : writer'[v] = writer[v]
    BY <1>1, <1>2
<1>4. KeysAreOwned'
    BY <1>1, <1>3 DEF BookInv, KeysAreOwned
<1>5. ASSUME NEW m \in quiet', ~InFlight(m)
      PROVE  ~InFlight(m)' /\ InMonth(m)' = InMonth(m)
               /\ \A k \in InMonth(m) : book'[k].lines = book[k].lines
    BY <1>1, <1>3, <1>5 DEF InFlight, InMonth
<1> QED
    BY <1>1, <1>4, <1>5, QuietStays DEF BookInv, KeysAreOwned

\* Closing a month takes what is committed by then.
LEMMA ClosingKeepsBook ==
    ASSUME BookInv, NEW c \in Closers,
           (\E m \in LedgerMonths : BeginClose(c, m)) \/ ReadTotals(c) \/ WritePeriod(c)
             \/ GiveUpClosing(c)
    PROVE  BookInv'
<1>0. UNCHANGED bookVars
    BY DEF BeginClose, ReadTotals, WritePeriod, GiveUpClosing
<1>1. /\ closing = [d \in Closers |-> closing[d]]
      /\ KeysAreOwned' /\ \A m : InFlight(m)' = InFlight(m)
      /\ \A m : TrialBalance(m)' = TrialBalance(m) /\ EntriesIn(m)' = EntriesIn(m)
                /\ RevenueIn(m)' = RevenueIn(m) /\ RefundedIn(m)' = RefundedIn(m)
  <2>1. KeysAreOwned' /\ \A m : InFlight(m)' = InFlight(m)
    BY <1>0 DEF bookVars, BookInv, KeysAreOwned, InFlight
  <2>2. \A m : InMonth(m)' = InMonth(m)
    BY <1>0 DEF bookVars, InMonth
  <2>3. \A m, a, d : FlowIn(InMonth(m), a, d)' = FlowIn(InMonth(m), a, d)
    BY <1>0, <2>2 DEF bookVars, FlowIn
  <2>4. \A m : EntriesIn(m)' = EntriesIn(m)
    BY <1>0, <2>2 DEF bookVars, EntriesIn
  <2> QED
    BY <2>1, <2>3, <2>4 DEF BookInv, ClosingsAgree, TrialBalance, RevenueIn, RefundedIn
\* It is enough to look at the row of the closing and at the month that was written.
<1>2. ASSUME NEW e, closing' = [closing EXCEPT ![c] = e], quiet' \subseteq quiet,
             e # NotClosing => /\ e.step \in {"balances", "totals"}
                               /\ e.month \in quiet' => ~InFlight(e.month) /\ ReadingsAgree(e.month, e)
      PROVE  ClosingsAgree'
  <2>1. /\ closing' = [d \in Closers |-> closing'[d]] /\ closing'[c] = e
        /\ \A d \in Closers \ {c} : closing'[d] = closing[d]
    BY <1>1, <1>2
  <2> SUFFICES ASSUME NEW d \in Closers, NEW x, x = closing'[d], x # NotClosing
               PROVE  /\ x.step \in {"balances", "totals"}
                      /\ x.month \in quiet' => ~InFlight(x.month) /\ ReadingsAgree(x.month, x)'
      BY <1>1, <2>1 DEF ClosingsAgree
  <2>2. /\ x.step \in {"balances", "totals"}
        /\ x.month \in quiet' => ~InFlight(x.month) /\ ReadingsAgree(x.month, x)
    BY <1>2, <2>1 DEF BookInv, ClosingsAgree
  <2>3. ReadingsAgree(x.month, x)' = ReadingsAgree(x.month, x)
    BY <1>1 DEF ReadingsAgree
  <2> QED
    BY <2>2, <2>3
<1>3. ASSUME quiet' \subseteq quiet, period' = period
      PROVE  QuietIsSettled' /\ QuietClosingIsFinal'
    BY <1>1, <1>3 DEF BookInv, QuietIsSettled, QuietClosingIsFinal
<1>4. ASSUME NEW m \in LedgerMonths, BeginClose(c, m) PROVE BookInv'
  <2> DEFINE e == [step |-> "balances", month |-> m, balances |-> TrialBalance(m)]
  <2>1. /\ closing' = [closing EXCEPT ![c] = e] /\ period' = period
        /\ quiet' = IF InFlight(m) THEN quiet \ {m} ELSE quiet
    BY <1>4 DEF BeginClose
  <2>2. quiet' \subseteq quiet /\ (m \in quiet' => ~InFlight(m))
    BY <2>1
  <2>3. e.step = "balances" /\ e.month = m /\ ReadingsAgree(m, e)
    BY DEF ReadingsAgree
  <2> HIDE DEF e
  <2>4. ClosingsAgree'
    BY <1>2, <2>1, <2>2, <2>3
  <2> QED
    BY <1>1, <1>3, <2>1, <2>2, <2>4 DEF BookInv
<1>5. CASE ReadTotals(c)
  <2>1. PICK m : m = closing[c].month
    OBVIOUS
  <2> DEFINE e == [step |-> "totals", month |-> m, balances |-> closing[c].balances,
                   net |-> RevenueIn(m) - RefundedIn(m)]
  <2>2. /\ closing' = [closing EXCEPT ![c] = e] /\ period' = period /\ quiet' = quiet
        /\ closing[c].step = "balances"
    BY <1>5, <2>1 DEF ReadTotals
  <2>3. closing[c] # NotClosing
    BY <2>2 DEF NotClosing
  <2>4. m \in quiet => ~InFlight(m) /\ closing[c].balances = TrialBalance(m)
    BY <2>1, <2>3 DEF BookInv, ClosingsAgree, ReadingsAgree
  <2>5. e.step = "totals" /\ e.month = m /\ (m \in quiet => ReadingsAgree(m, e))
    BY <2>4 DEF ReadingsAgree
  <2> HIDE DEF e
  <2>6. ClosingsAgree'
    BY <1>2, <2>2, <2>4, <2>5
  <2> QED
    BY <1>1, <1>3, <2>2, <2>6 DEF BookInv
<1>6. CASE WritePeriod(c)
  <2>1. PICK m : m = closing[c].month
    OBVIOUS
  <2> DEFINE row == [balances |-> closing[c].balances, net |-> closing[c].net,
                     count |-> EntriesIn(m)]
  <2>2. /\ closing' = [closing EXCEPT ![c] = NotClosing] /\ quiet' = quiet
        /\ closing[c].step = "totals"
        /\ period' = IF m \in DOMAIN period THEN period ELSE With(period, m, row)
    BY <1>6, <2>1 DEF WritePeriod
  <2>3. closing[c] # NotClosing
    BY <2>2 DEF NotClosing
  <2>4. m \in quiet => /\ ~InFlight(m) /\ row.balances = TrialBalance(m)
                       /\ row.net = RevenueIn(m) - RefundedIn(m) /\ row.count = EntriesIn(m)
    BY <2>1, <2>2, <2>3 DEF BookInv, ClosingsAgree, ReadingsAgree
  <2>5. ClosingsAgree'
    BY <1>2, <2>2
  <2> HIDE DEF row
  <2>6. QuietIsSettled' /\ QuietClosingIsFinal'
    <3>1. CASE m \in DOMAIN period
      BY <1>3, <2>2, <3>1
    <3>2. CASE m \notin DOMAIN period
      <4>1. /\ DOMAIN period' = DOMAIN period \union {m} /\ period'[m] = row
            /\ \A k \in DOMAIN period : period'[k] = period[k]
        BY <2>2, <3>2 DEF With
      <4>2. ASSUME NEW k \in DOMAIN period' \cap quiet'
            PROVE  /\ ~InFlight(k) /\ period'[k].balances = TrialBalance(k)
                   /\ period'[k].net = RevenueIn(k) - RefundedIn(k)
                   /\ period'[k].count = EntriesIn(k)
        BY <2>2, <2>4, <4>1 DEF BookInv, QuietIsSettled, QuietClosingIsFinal
      <4> QED
        BY <1>1, <4>2 DEF QuietIsSettled, QuietClosingIsFinal
    <3> QED
      BY <3>1, <3>2
  <2> QED
    BY <1>1, <2>5, <2>6 DEF BookInv
<1>7. CASE GiveUpClosing(c)
  <2>1. /\ closing' = [closing EXCEPT ![c] = NotClosing] /\ quiet' = quiet /\ period' = period
    BY <1>7 DEF GiveUpClosing
  <2>2. ClosingsAgree'
    BY <1>2, <2>1
  <2> QED
    BY <1>1, <1>3, <2>1, <2>2 DEF BookInv
<1> QED
    BY <1>4, <1>5, <1>6, <1>7

\* A step that writes no entry leaves the book as it was.
LEMMA StillKeepsBook ==
    ASSUME BookInv, UNCHANGED <<bookVars, period, closing, quiet>>
    PROVE  BookInv'
<1>1. KeysAreOwned'
    BY DEF bookVars, BookInv, KeysAreOwned
<1>2. ASSUME NEW m \in quiet', ~InFlight(m)
      PROVE  ~InFlight(m)' /\ InMonth(m)' = InMonth(m)
               /\ \A k \in InMonth(m) : book'[k].lines = book[k].lines
    BY <1>2 DEF bookVars, InFlight, InMonth
<1> QED
    BY <1>1, <1>2, QuietStays DEF BookInv, KeysAreOwned, bookVars

\* An empty book is in order.
LEMMA InitBook == LedgerInit => BookInv
<1> SUFFICES ASSUME LedgerInit PROVE BookInv
    OBVIOUS
<1>1. /\ book = << >> /\ writer = [w \in Writers |-> NoDoc] /\ period = << >>
      /\ closing = [c \in Closers |-> NotClosing]
    BY DEF LedgerInit
<1>2. DOMAIN book = {} /\ DOMAIN period = {}
    BY <1>1
<1>3. KeysAreOwned
    BY <1>1, <1>2, FS_EmptySet DEF KeysAreOwned
<1> QED
    BY <1>1, <1>2, <1>3 DEF BookInv, ClosingsAgree, QuietIsSettled, QuietClosingIsFinal

\* What the lines of a document say: a sale is that of a payment once approved, a settlement
\* that of its sale, a reversal the inverse of a document that is in the book.
DocIs(key, lines, b, rows) ==
    /\ \A p \in Payments : key = <<"sale", p>> =>
         lines = SaleLines(PriceOf, 0) /\ rows[p].approved
    /\ \A s \in Sales : key = <<"external_sale", s>> => lines = ExternalSaleLines(PriceOf)
    /\ key[1] = "reversal" => key[2] \in DOMAIN b /\ lines = Inverted(b[key[2]].lines)
DocsAreFaithful ==
    /\ \A k \in DOMAIN book : DocIs(k, book[k].lines, book, pay)
    /\ \A w \in Writers : writer[w] # NoDoc => DocIs(writer[w].key, writer[w].lines, book, pay)

\* What the handlers insert, and what the other steps do to the open transactions.
LEMMA WritersAreFaithful ==
    ASSUME KeysAreOwned, PayTypes, LedgerNext
    PROVE  \A v \in Writers :
             \/ writer'[v] \in {writer[v], NoDoc}
             \/ DocIs(writer'[v].key, writer'[v].lines, book, pay)
<1> DEFINE W == \A v \in Writers : \/ writer'[v] \in {writer[v], NoDoc}
                                   \/ DocIs(writer'[v].key, writer'[v].lines, book, pay)
<1>0. writer = [v \in Writers |-> writer[v]]
    BY DEF KeysAreOwned
<1>1. ASSUME NEW w \in Writers, NEW key, NEW month, NEW lines, InsertEntry(w, key, month, lines),
             DocIs(key, lines, book, pay)
      PROVE  W
  <2> DEFINE e == [key |-> key, month |-> month, lines |-> lines]
  <2>1. writer' = [writer EXCEPT ![w] = e] /\ e.key = key /\ e.lines = lines
    BY <1>1 DEF InsertEntry
  <2> HIDE DEF e
  <2>2. writer'[w] = e /\ \A v \in Writers \ {w} : writer'[v] = writer[v]
    BY <1>0, <2>1
  <2> QED
    BY <1>1, <2>1, <2>2
<1>2. ASSUME NEW w \in Writers, NEW p \in Payments, PostSale(w, p) PROVE W
  <2>1. InsertEntry(w, <<"sale", p>>, clock, SaleLines(PriceOf, 0)) /\ pay[p].approved
    BY <1>2 DEF PostSale, PayTypes
  <2>2. DocIs(<<"sale", p>>, SaleLines(PriceOf, 0), book, pay)
    BY <2>1 DEF DocIs
  <2> QED
    BY <1>1, <2>1, <2>2
<1>3. ASSUME NEW w \in Writers, NEW s \in Sales, PostExternalSale(w, s) PROVE W
  <2>1. PICK m : InsertEntry(w, <<"external_sale", s>>, m, ExternalSaleLines(PriceOf))
    BY <1>3 DEF PostExternalSale
  <2>2. DocIs(<<"external_sale", s>>, ExternalSaleLines(PriceOf), book, pay)
    BY DEF DocIs
  <2> QED
    BY <1>1, <2>1, <2>2
<1>4. ASSUME NEW w \in Writers, NEW r \in Refunds, PostReturnRefund(w, r) PROVE W
  <2>1. PICK m : InsertEntry(w, <<"refund", r>>, m, RefundLines(1, 1))
    BY <1>4 DEF PostReturnRefund
  <2>2. DocIs(<<"refund", r>>, RefundLines(1, 1), book, pay)
    BY DEF DocIs
  <2> QED
    BY <1>1, <2>1, <2>2
<1>5. ASSUME NEW w \in Writers, NEW k \in Reversible, ReverseEntry(w, k) PROVE W
  <2>1. k \in DOMAIN book /\ InsertEntry(w, <<"reversal", k>>, clock, Inverted(book[k].lines))
    BY <1>5 DEF ReverseEntry
  <2>2. DocIs(<<"reversal", k>>, Inverted(book[k].lines), book, pay)
    BY <2>1 DEF DocIs
  <2> QED
    BY <1>1, <2>1, <2>2
<1>6. ASSUME NEW w \in Writers, CommitEntry(w) \/ RollbackEntry(w) PROVE W
  <2>1. writer' = [writer EXCEPT ![w] = NoDoc]
    BY <1>6 DEF CommitEntry, RollbackEntry
  <2> QED
    BY <1>0, <2>1
<1>7. ASSUME writer' = writer PROVE W
    BY <1>7
<1>8. ASSUME NEW c \in Closers,
             (\E m \in LedgerMonths : BeginClose(c, m)) \/ ReadTotals(c) \/ WritePeriod(c)
               \/ GiveUpClosing(c)
      PROVE  writer' = writer
    BY <1>8 DEF BeginClose, ReadTotals, WritePeriod, GiveUpClosing, bookVars
<1>9. ASSUME NextMonth \/ (\E p \in Payments : PSPDecides(p) \/ WebhookFinds(p) \/ SyncPayment(p))
              \/ BeginRun \/ FinishRun \/ \E a \in BOOLEAN : CheckPayment(a)
      PROVE  writer' = writer
    BY <1>9 DEF NextMonth, PSPDecides, WebhookFinds, SyncPayment, BeginRun, FinishRun, CheckPayment, bookVars
<1>10. \/ \E w \in Writers : \/ \E p \in Payments : PostSale(w, p)
                             \/ \E s \in Sales : PostExternalSale(w, s)
                             \/ \E r \in Refunds : PostReturnRefund(w, r)
                             \/ \E k \in Reversible : ReverseEntry(w, k)
                             \/ CommitEntry(w) \/ RollbackEntry(w)
       \/ writer' = writer
    BY <1>8, <1>9 DEF LedgerNext, BookNext, ClosingNext, ReconNext
<1> HIDE DEF W
<1>11. W
    BY <1>2, <1>3, <1>4, <1>5, <1>6, <1>7, <1>10
<1> QED
    BY <1>11 DEF W

\* The documents stay faithful to the entries that were written of them.
LEMMA DocsKeep ==
    ASSUME KeysAreOwned, PayTypes, DocsAreFaithful, [LedgerNext]_ledgerVars
    PROVE  DocsAreFaithful'
<1>1. /\ DOMAIN book \subseteq DOMAIN book'
      /\ \A k \in DOMAIN book : book'[k] = book[k]
      /\ \A k \in DOMAIN book' \ DOMAIN book :
           \E w \in Writers : /\ writer[w] # NoDoc /\ writer[w].key = k
                             /\ book'[k].lines = writer[w].lines
    BY BookGrows
<1>2. \A p \in Payments : pay[p].approved => pay'[p].approved
    BY PaymentsKeep
<1>3. ASSUME NEW key, NEW lines, DocIs(key, lines, book, pay) PROVE DocIs(key, lines, book', pay')
    BY <1>1, <1>2, <1>3 DEF DocIs
<1>4. ASSUME NEW k \in DOMAIN book' PROVE DocIs(k, book'[k].lines, book', pay')
  <2>1. CASE k \in DOMAIN book
    BY <1>1, <1>3, <2>1 DEF DocsAreFaithful
  <2>2. CASE k \notin DOMAIN book
    <3>1. PICK w \in Writers : /\ writer[w] # NoDoc /\ writer[w].key = k
                               /\ book'[k].lines = writer[w].lines
      BY <1>1, <2>2
    <3> QED
      BY <1>3, <3>1 DEF DocsAreFaithful
  <2> QED
    BY <2>1, <2>2
<1>5. \A v \in Writers : \/ writer'[v] \in {writer[v], NoDoc}
                         \/ DocIs(writer'[v].key, writer'[v].lines, book, pay)
    BY WritersAreFaithful DEF ledgerVars, bookVars
<1>6. ASSUME NEW v \in Writers, writer'[v] # NoDoc
      PROVE  DocIs(writer'[v].key, writer'[v].lines, book', pay')
    BY <1>3, <1>5, <1>6 DEF DocsAreFaithful
<1> QED
    BY <1>4, <1>6 DEF DocsAreFaithful

\* Sets of one, two and three elements.
LEMMA FiniteFew == \A x, y, z : IsFiniteSet({x}) /\ IsFiniteSet({x, y}) /\ IsFiniteSet({x, y, z})
<1> SUFFICES ASSUME NEW x, NEW y, NEW z
             PROVE  IsFiniteSet({x}) /\ IsFiniteSet({x, y}) /\ IsFiniteSet({x, y, z})
    OBVIOUS
<1>1. IsFiniteSet({x})
    BY FS_Singleton
<1>2. IsFiniteSet({x} \union {y})
    BY <1>1, FS_AddElement
<1>3. IsFiniteSet(({x} \union {y}) \union {z})
    BY <1>2, FS_AddElement
<1>4. {x, y} = {x} \union {y} /\ {x, y, z} = ({x} \union {y}) \union {z}
    OBVIOUS
<1> QED
    BY <1>1, <1>2, <1>3, <1>4

\* Two lines, the second of which is the revenue of one price on side s.
RevenueLines(l, s) ==
    /\ DOMAIN l = {1, 2}
    /\ \E cash, t : cash # "receita" /\ l[1] = Posting(cash, t, PriceOf)
    /\ l[2] = Posting("receita", s, PriceOf)
RevenueOf(l) == Flow(l, "receita", "credit")

\* A sale adds the price to the revenue, and its reversal takes it away.
LEMMA RevenueFlows ==
    /\ \A l : RevenueLines(l, "credit") => RevenueOf(l) = PriceOf
    /\ \A l : RevenueLines(l, "debit") => RevenueOf(l) = -PriceOf
<1> SUFFICES ASSUME NEW l, NEW s \in {"credit", "debit"}, RevenueLines(l, s)
             PROVE  /\ s = "credit" => RevenueOf(l) = PriceOf
                    /\ s = "debit" => RevenueOf(l) = -PriceOf
    OBVIOUS
<1> DEFINE v == Signed(l[2], "credit")
           f == [i \in DOMAIN l |->
                   IF l[i].account = "receita" THEN Signed(l[i], "credit") ELSE 0]
<1>1. /\ s = "credit" => v = PriceOf
      /\ s = "debit" => v = -PriceOf
      /\ v \in Int
    BY DEF RevenueLines, Signed, Posting, PriceOf
<1>2. l[1].account # "receita" /\ l[2].account = "receita" /\ DOMAIN l = {1, 2}
    BY DEF RevenueLines, Posting
<1>3. f[1] = 0 /\ f[2] = v
    BY <1>2
<1>4. RevenueOf(l) = SumOver(f, {1, 2})
    BY <1>2 DEF RevenueOf, Flow
<1> HIDE DEF f, v
<1>5. IsFiniteSet({1, 2}) /\ IsFiniteSet({1})
    BY FiniteFew
<1>6. SumOver(f, {1, 2}) = f[2] + SumOver(f, {1, 2} \ {2})
    BY <1>1, <1>3, <1>5, SumTake
<1>7. SumOver(f, {1}) = f[1] + SumOver(f, {1} \ {1})
    BY <1>1, <1>3, <1>5, SumTake
<1>8. SumOver(f, {}) = 0
    BY <1>5, SumFirst
<1>9. {1, 2} \ {2} = {1} /\ {1} \ {1} = {}
    OBVIOUS
<1> QED
    BY <1>1, <1>3, <1>4, <1>6, <1>7, <1>8, <1>9

\* A reversal takes back the revenue, and its reversal restores it.
LEMMA InvertedLines ==
    /\ \A l : RevenueLines(l, "credit") => RevenueLines(Inverted(l), "debit")
    /\ \A l : RevenueLines(l, "debit") => RevenueLines(Inverted(l), "credit")
<1> SUFFICES ASSUME NEW l, NEW s \in {"credit", "debit"}, NEW o \in {"credit", "debit"} \ {s},
                    RevenueLines(l, s)
             PROVE  RevenueLines(Inverted(l), o)
    OBVIOUS
<1> DEFINE n == Inverted(l)
<1>1. PICK cash, t : cash # "receita" /\ l[1] = Posting(cash, t, PriceOf)
    BY DEF RevenueLines
<1>2. DOMAIN l = {1, 2} /\ l[2] = Posting("receita", s, PriceOf)
    BY DEF RevenueLines
<1>3. n[1] = Posting(cash, IF t = "credit" THEN "debit" ELSE "credit", PriceOf)
    BY <1>1, <1>2 DEF Inverted, Posting
<1>4. n[2] = Posting("receita", o, PriceOf)
    BY <1>2 DEF Inverted, Posting
<1>5. DOMAIN n = {1, 2}
    BY <1>2 DEF Inverted
<1> QED
    BY <1>1, <1>3, <1>4, <1>5 DEF RevenueLines

\* The lines of a sale, through the PSP or not, are such lines.
LEMMA SaleIsRevenue ==
    RevenueLines(SaleLines(PriceOf, 0), "credit") /\ RevenueLines(ExternalSaleLines(PriceOf), "credit")
<1>1. /\ SaleLines(PriceOf, 0) = <<Posting("caixa_psp", "debit", PriceOf),
                                   Posting("receita", "credit", PriceOf)>>
    BY DEF SaleLines
<1> QED
    BY <1>1 DEF RevenueLines, ExternalSaleLines

\* A source document, its reversal and the reversal of that leave all of the price or nothing.
LEMMA CorrectionsCancel ==
    ASSUME DocsAreFaithful, NEW k, k[1] # "reversal",
           k \in DOMAIN book => RevenueLines(book[k].lines, "credit")
    PROVE  /\ NetRevenue(k) \in {0, PriceOf}
           /\ NetRevenue(k) > 0 => k \in DOMAIN book
<1> DEFINE r == <<"reversal", k>>
           rr == <<"reversal", r>>
           f == [j \in DOMAIN book |-> Flow(book[j].lines, "receita", "credit")]
           C == Corrections(k)
<1>1. k # r /\ k # rr /\ r # rr
    OBVIOUS
<1>2. \A j \in DOMAIN book : f[j] = RevenueOf(book[j].lines)
    BY DEF RevenueOf
<1>3. r \in DOMAIN book => k \in DOMAIN book /\ book[r].lines = Inverted(book[k].lines)
    BY DEF DocsAreFaithful, DocIs
<1>4. rr \in DOMAIN book => r \in DOMAIN book /\ book[rr].lines = Inverted(book[r].lines)
    BY DEF DocsAreFaithful, DocIs
<1>5. NetRevenue(k) = SumOver(f, C)
    BY DEF NetRevenue, FlowIn
<1>6. C = {k, r, rr} \cap DOMAIN book
    BY DEF Corrections
<1> HIDE DEF f, C, r, rr
<1>7. /\ k \in DOMAIN book => f[k] = PriceOf
      /\ r \in DOMAIN book => f[r] = -PriceOf
      /\ rr \in DOMAIN book => f[rr] = PriceOf
    BY <1>2, <1>3, <1>4, RevenueFlows, InvertedLines
<1>8. \A x, y : IsFiniteSet({x}) /\ IsFiniteSet({x, y})
    BY FiniteFew
<1>9. IsFiniteSet({k, r, rr}) /\ IsFiniteSet({}) /\ PriceOf \in Int /\ -PriceOf \in Int
  <2>1. IsFiniteSet({k, r, rr})
    BY FiniteFew
  <2>2. PriceOf \in Int /\ -PriceOf \in Int
    BY DEF PriceOf
  <2> QED
    BY <2>1, <2>2, FS_EmptySet
<1>10. SumOver(f, {}) = 0
    BY <1>9, SumFirst
<1>11. k \in DOMAIN book => SumOver(f, {k}) = PriceOf
  <2> SUFFICES ASSUME k \in DOMAIN book PROVE SumOver(f, {k}) = PriceOf
      OBVIOUS
  <2>1. SumOver(f, {k}) = f[k] + SumOver(f, {k} \ {k})
    BY <1>7, <1>8, <1>9, SumTake
  <2>2. {k} \ {k} = {}
    OBVIOUS
  <2> QED
    BY <1>7, <1>10, <2>1, <2>2 DEF PriceOf
<1>12. r \in DOMAIN book => SumOver(f, {k, r}) = 0
  <2> SUFFICES ASSUME r \in DOMAIN book PROVE SumOver(f, {k, r}) = 0
      OBVIOUS
  <2>1. SumOver(f, {k, r}) = f[r] + SumOver(f, {k, r} \ {r})
    BY <1>3, <1>7, <1>8, <1>9, SumTake
  <2>2. {k, r} \ {r} = {k}
    BY <1>1
  <2> QED
    BY <1>3, <1>7, <1>11, <2>1, <2>2 DEF PriceOf
<1>13. rr \in DOMAIN book => SumOver(f, {k, r, rr}) = PriceOf
  <2> SUFFICES ASSUME rr \in DOMAIN book PROVE SumOver(f, {k, r, rr}) = PriceOf
      OBVIOUS
  <2>1. \A x \in {k, r, rr} : f[x] \in Int
    BY <1>3, <1>4, <1>7, <1>9
  <2>2. SumOver(f, {k, r, rr}) = f[rr] + SumOver(f, {k, r, rr} \ {rr})
    BY <1>9, <2>1, SumTake
  <2>3. {k, r, rr} \ {rr} = {k, r}
    BY <1>1
  <2> QED
    BY <1>4, <1>7, <1>12, <2>2, <2>3 DEF PriceOf
<1>14. CASE k \notin DOMAIN book
  <2>1. C = {}
    BY <1>3, <1>4, <1>6, <1>14
  <2> QED
    BY <1>5, <1>10, <2>1
<1>15. CASE k \in DOMAIN book
  <2>1. \/ C = {k}
        \/ r \in DOMAIN book /\ C = {k, r}
        \/ rr \in DOMAIN book /\ C = {k, r, rr}
    BY <1>3, <1>4, <1>6, <1>15
  <2> QED
    BY <1>5, <1>11, <1>12, <1>13, <1>15, <2>1
<1> QED
    BY <1>14, <1>15

\* Faithful documents leave no sale in the revenue twice.
LEMMA DocsGiveRevenue == DocsAreFaithful => RevenueNeverDoubles
<1> SUFFICES ASSUME DocsAreFaithful PROVE RevenueNeverDoubles
    OBVIOUS
<1>1. ASSUME NEW p \in Payments
      PROVE  /\ NetRevenue(<<"sale", p>>) \in {0, PriceOf}
             /\ NetRevenue(<<"sale", p>>) > 0 => pay[p].approved
  <2> DEFINE k == <<"sale", p>>
  <2>1. k[1] # "reversal"
    OBVIOUS
  <2>2. k \in DOMAIN book => /\ book[k].lines = SaleLines(PriceOf, 0)
                             /\ pay[p].approved
    BY DEF DocsAreFaithful, DocIs
  <2> HIDE DEF k
  <2>3. NetRevenue(k) \in {0, PriceOf} /\ (NetRevenue(k) > 0 => k \in DOMAIN book)
    BY <2>1, <2>2, SaleIsRevenue, CorrectionsCancel
  <2> QED
    BY <2>2, <2>3 DEF k
<1>2. ASSUME NEW s \in Sales PROVE NetRevenue(<<"external_sale", s>>) \in {0, PriceOf}
  <2> DEFINE k == <<"external_sale", s>>
  <2>1. k[1] # "reversal"
    OBVIOUS
  <2>2. k \in DOMAIN book => book[k].lines = ExternalSaleLines(PriceOf)
    BY DEF DocsAreFaithful, DocIs
  <2> HIDE DEF k
  <2>3. NetRevenue(k) \in {0, PriceOf}
    BY <2>1, <2>2, SaleIsRevenue, CorrectionsCancel
  <2> QED
    BY <2>3 DEF k
<1> QED
    BY <1>1, <1>2 DEF RevenueNeverDoubles

LedgerInv == PayTypes /\ RunTypes /\ RunIsTrue /\ BookInv /\ DocsAreFaithful

\* Before the first document all of this holds.
LEMMA InitLedger == LedgerInit => LedgerInv
<1> SUFFICES ASSUME LedgerInit PROVE LedgerInv
    OBVIOUS
<1>1. DOMAIN book = {} /\ recon = NoRun /\ writer = [w \in Writers |-> NoDoc]
    BY DEF LedgerInit
<1>2. PayTypes
  <2> DEFINE row == [status |-> "pending", psp |-> "pending", amount |-> PriceOf,
                     posts |-> FALSE, approved |-> FALSE]
  <2>1. row \in PayRow /\ ~row.posts /\ row.psp = "pending"
    BY DEF PayRow, PriceOf
  <2>2. pay \in [Payments -> {row}]
    BY DEF LedgerInit
  <2> HIDE DEF row
  <2> QED
    BY <2>1, <2>2 DEF PayTypes
<1>3. RunTypes /\ RunIsTrue /\ DocsAreFaithful
    BY <1>1 DEF RunTypes, RunIsTrue, DocsAreFaithful
<1> QED
    BY <1>2, <1>3, InitBook DEF LedgerInv

\* Every step keeps the book in order.
LEMMA BookKeeps == BookInv /\ [LedgerNext]_ledgerVars => BookInv'
<1> SUFFICES ASSUME BookInv, [LedgerNext]_ledgerVars PROVE BookInv'
    OBVIOUS
<1>1. ASSUME NEW w \in Writers,
             \/ \E p \in Payments : PostSale(w, p)
             \/ \E s \in Sales : PostExternalSale(w, s)
             \/ \E r \in Refunds : PostReturnRefund(w, r)
             \/ \E k \in Reversible : ReverseEntry(w, k)
      PROVE  BookInv'
  <2>1. \E key, month, lines : InsertEntry(w, key, month, lines)
    BY <1>1 DEF PostSale, PostExternalSale, PostReturnRefund, ReverseEntry
  <2> QED
    BY <2>1, InsertKeepsBook
<1>2. ASSUME NEW w \in Writers, CommitEntry(w) \/ RollbackEntry(w) PROVE BookInv'
    BY <1>2, CommitKeepsBook, RollbackKeepsBook
<1>3. ASSUME NEW c \in Closers,
             (\E m \in LedgerMonths : BeginClose(c, m)) \/ ReadTotals(c) \/ WritePeriod(c)
               \/ GiveUpClosing(c)
      PROVE  BookInv'
    BY <1>3, ClosingKeepsBook
<1>4. ASSUME \/ NextMonth \/ \E p \in Payments : PSPDecides(p) \/ WebhookFinds(p) \/ SyncPayment(p)
             \/ BeginRun \/ FinishRun \/ \E a \in BOOLEAN : CheckPayment(a)
             \/ UNCHANGED ledgerVars
      PROVE  BookInv'
  <2>1. UNCHANGED <<bookVars, period, closing, quiet>>
    BY <1>4 DEF NextMonth, PSPDecides, WebhookFinds, SyncPayment, BeginRun, FinishRun, CheckPayment, ledgerVars
  <2> QED
    BY <2>1, StillKeepsBook
<1> QED
    BY <1>1, <1>2, <1>3, <1>4 DEF LedgerNext, BookNext, ClosingNext, ReconNext

\* The reconciliation stays true of the book it runs over.
LEMMA ReconKeeps ==
    ASSUME KeysAreOwned, PayTypes, RunTypes, RunIsTrue, [LedgerNext]_ledgerVars
    PROVE  RunTypes' /\ RunIsTrue'
<1>1. CASE BeginRun \/ FinishRun \/ \E a \in BOOLEAN : CheckPayment(a)
    BY <1>1, RunKeeps
<1>2. CASE recon' = recon
  <2>1. DOMAIN book \subseteq DOMAIN book'
    BY BookGrows
  <2> QED
    BY <1>2, <2>1 DEF RunTypes, RunIsTrue
<1>3. ASSUME NEW w, NEW key, NEW month, NEW lines, InsertEntry(w, key, month, lines)
      PROVE  recon' = recon
    BY <1>3 DEF InsertEntry
<1>4. ASSUME NEW w \in Writers,
             \/ \E p \in Payments : PostSale(w, p)
             \/ \E s \in Sales : PostExternalSale(w, s)
             \/ \E r \in Refunds : PostReturnRefund(w, r)
             \/ \E k \in Reversible : ReverseEntry(w, k)
             \/ CommitEntry(w) \/ RollbackEntry(w)
      PROVE  recon' = recon
    BY <1>3, <1>4 DEF PostSale, PostExternalSale, PostReturnRefund, ReverseEntry, CommitEntry,
                      RollbackEntry
<1>5. ASSUME NEW c \in Closers,
             (\E m \in LedgerMonths : BeginClose(c, m)) \/ ReadTotals(c) \/ WritePeriod(c)
               \/ GiveUpClosing(c)
      PROVE  recon' = recon
    BY <1>5 DEF BeginClose, ReadTotals, WritePeriod, GiveUpClosing
<1>6. ASSUME NextMonth \/ (\E p \in Payments : PSPDecides(p) \/ WebhookFinds(p) \/ SyncPayment(p))
               \/ UNCHANGED ledgerVars
      PROVE  recon' = recon
    BY <1>6 DEF NextMonth, PSPDecides, WebhookFinds, SyncPayment, ledgerVars
<1> QED
    BY <1>1, <1>2, <1>4, <1>5, <1>6 DEF LedgerNext, BookNext, ClosingNext, ReconNext

\* Every step of the ledger keeps the invariant.
LEMMA LedgerInvAlways == LedgerSpec => []LedgerInv
<1>1. LedgerInv /\ [LedgerNext]_ledgerVars => LedgerInv'
    BY PaymentsKeep, ReconKeeps, BookKeeps, DocsKeep DEF LedgerInv, BookInv
<1> QED
    BY <1>1, InitLedger, PTL DEF LedgerSpec

\* The book can be handed over: whatever webhooks are delivered twice, settlements repeated and
\* documents reversed at once, a sale counts once or not at all (ledger.go, handler/ledger.go),
\* and the month closed while nobody wrote in it keeps what it said (period.go).
THEOREM TheBookIsHandedOver == LedgerSpec => []BookCanBeHandedOver
<1>1. LedgerInv => BookCanBeHandedOver
    BY DocsGiveRevenue DEF LedgerInv, BookInv, BookCanBeHandedOver
<1> QED
    BY <1>1, LedgerInvAlways, PTL

\* A reconciliation that ends clean read no confirmed payment without its sale, at any bound of
\* payments per run and whatever is posted, or fails to be, meanwhile (reconcile.go).
THEOREM ACleanRunVouches == LedgerSpec => []CleanRunVouchesForTheBook
<1>1. LedgerInv => CleanRunVouchesForTheBook
  <2> SUFFICES ASSUME LedgerInv, recon.step = "ok", NEW i \in DOMAIN recon.seen,
                      recon.seen[i].status = "confirmed"
               PROVE  <<"sale", recon.seen[i].pay>> \in DOMAIN book
      BY DEF CleanRunVouchesForTheBook
  <2>1. recon # NoRun
    BY DEF NoRun
  <2>2. RunIsTrue /\ RunTypes
    BY DEF LedgerInv
  <2>3. i < recon.next /\ recon.found = {}
    BY <2>1, <2>2 DEF RunIsTrue
  <2>4. recon.seen[i].booked \in BOOLEAN
    BY <2>1, <2>2 DEF RunTypes, SeenRow
  <2> QED
    BY <2>1, <2>2, <2>3, <2>4 DEF RunIsTrue
<1> QED
    BY <1>1, LedgerInvAlways, PTL

-----------------------------------------------------------------------------
(* The score of the reviews *)

\* The people with so many stars each make up all of them.
LEMMA StarsMakeUpAll ==
    ASSUME NEW P, IsFiniteSet(P), NEW r, \A a \in P : r[a].rating \in 1..5
    PROVE  Cardinality(P) = Cardinality({a \in P : r[a].rating = 1}) + Cardinality({a \in P : r[a].rating = 2})
                            + Cardinality({a \in P : r[a].rating = 3}) + Cardinality({a \in P : r[a].rating = 4})
                            + Cardinality({a \in P : r[a].rating = 5})
<1> DEFINE Rated(n) == {a \in P : r[a].rating = n}
           To(n) == {a \in P : r[a].rating <= n}
<1>1. \A n \in 0..5 : IsFiniteSet(Rated(n)) /\ IsFiniteSet(To(n))
    BY FS_Subset
<1>2. \A n \in 1..5 : To(n) = To(n - 1) \union Rated(n) /\ To(n - 1) \cap Rated(n) = {}
    OBVIOUS
<1>3. To(5) = P /\ To(0) = {}
    OBVIOUS
<1> HIDE DEF Rated, To
<1>4. \A n \in 1..5 : Cardinality(To(n)) = Cardinality(To(n - 1)) + Cardinality(Rated(n))
  <2> TAKE n \in 1..5
  <2>1. /\ IsFiniteSet(To(n - 1)) /\ IsFiniteSet(Rated(n))
        /\ To(n) = To(n - 1) \union Rated(n) /\ To(n - 1) \cap Rated(n) = {}
    BY <1>1, <1>2
  <2>2. Cardinality(To(n - 1) \union Rated(n))
          = Cardinality(To(n - 1)) + Cardinality(Rated(n)) - Cardinality(To(n - 1) \cap Rated(n))
    BY <2>1, FS_Union
  <2>3. Cardinality(To(n - 1)) \in Nat /\ Cardinality(Rated(n)) \in Nat /\ Cardinality({}) = 0
    BY <2>1, FS_CardinalityType, FS_EmptySet
  <2>4. /\ Cardinality(To(n)) = Cardinality(To(n - 1) \union Rated(n))
        /\ Cardinality(To(n - 1) \cap Rated(n)) = 0
    BY <2>1, <2>3
  <2> QED
    BY <2>2, <2>3, <2>4
<1>5. \A n \in 1..5 : Cardinality(Rated(n)) \in Nat
    BY <1>1, FS_CardinalityType
<1>6. Cardinality(To(0)) = 0
    BY <1>3, FS_EmptySet
<1>7. /\ Cardinality(To(1)) = Cardinality(To(0)) + Cardinality(Rated(1))
      /\ Cardinality(To(2)) = Cardinality(To(1)) + Cardinality(Rated(2))
      /\ Cardinality(To(3)) = Cardinality(To(2)) + Cardinality(Rated(3))
      /\ Cardinality(To(4)) = Cardinality(To(3)) + Cardinality(Rated(4))
      /\ Cardinality(To(5)) = Cardinality(To(4)) + Cardinality(Rated(5))
    BY <1>4
<1>8. Cardinality(P) = Cardinality(Rated(1)) + Cardinality(Rated(2)) + Cardinality(Rated(3))
                       + Cardinality(Rated(4)) + Cardinality(Rated(5))
    BY <1>3, <1>5, <1>6, <1>7
<1> QED
    BY <1>8 DEF Rated

\* A row of the table is none, or has stars.
ReviewRow == {NoReview} \union [rating : Ratings, status : {"pending", "published", "rejected"}]
ReviewRows == review \in [Authors -> ReviewRow]
\* A request at work: what it wrote, for whom, and what the trigger counted.
Writing(w) ==
    /\ w = [step |-> "wrote", op |-> w.op, author |-> w.author, row |-> w.row, seen |-> w.seen,
            missed |-> w.missed]
    /\ w.op \in {"insert", "edit", "delete", "moderate"} /\ w.author \in Authors /\ w.row \in ReviewRow
    /\ w.missed \in BOOLEAN
HandsAtWork ==
    /\ hand = [h \in ReviewHands |-> hand[h]]
    /\ \A h \in ReviewHands : hand[h].step = "wrote" => Writing(hand[h])
\* Unless another write overtook it, the trigger counted what its commit will leave.
CountedForNow ==
    \A h \in ReviewHands : hand[h].step = "wrote" /\ ~hand[h].missed =>
        hand[h].seen = Tally([review EXCEPT ![hand[h].author] = hand[h].row])
ScoreIsRight == /\ reviewRaced \in BOOLEAN
                /\ ~reviewRaced => score = Tally(review)
\* The page being read holds the number of the reviews, while nobody writes.
Stars(n) == Cardinality({a \in Published(review) : review[a].rating = n})
ReaderIsRight ==
    /\ reader.step \in {"away", "score", "shares"}
    /\ reader.step # "away" =>
         /\ reader = [step |-> reader.step, count |-> reader.count, shares |-> reader.shares,
                      quiet |-> reader.quiet]
         /\ reader.quiet /\ ~reviewRaced =>
              /\ reader.count = Cardinality(Published(review))
              /\ reader.step = "shares" => \A n \in 1..5 : reader.shares[n] = Stars(n)
ReviewInv == ReviewRows /\ HandsAtWork /\ CountedForNow /\ ScoreIsRight /\ ReaderIsRight

\* The invariant gives the promise.
LEMMA ReviewInvHolds == ReviewInv => OnlyARaceMissesAReview
<1> SUFFICES ASSUME ReviewInv, ~reviewRaced PROVE 
       /\ score = Tally(review)
       /\ reader.step = "shares" /\ reader.quiet =>
             reader.count = reader.shares[1] + reader.shares[2] + reader.shares[3]
                            + reader.shares[4] + reader.shares[5]
    BY DEF OnlyARaceMissesAReview
<1>1. score = Tally(review)
    BY DEF ReviewInv, ScoreIsRight
<1>2. ASSUME reader.step = "shares", reader.quiet
      PROVE  reader.count = reader.shares[1] + reader.shares[2] + reader.shares[3]
                            + reader.shares[4] + reader.shares[5]
  <2>1. /\ reader.count = Cardinality(Published(review))
        /\ \A n \in 1..5 : reader.shares[n] = Stars(n)
    BY <1>2 DEF ReviewInv, ReaderIsRight
  <2>2. IsFiniteSet(Published(review))
    BY ReviewsAssumption, FS_Subset DEF Published
  <2>3. \A a \in Published(review) : review[a].rating \in 1..5
    <3>1. ASSUME NEW a \in Published(review) PROVE review[a].rating \in Ratings
      <4>1. a \in Authors /\ review[a].status = "published" /\ review[a] \in ReviewRow
        BY DEF Published, ReviewInv, ReviewRows
      <4>2. review[a] # NoReview
        BY <4>1 DEF NoReview
      <4> QED
        BY <4>1, <4>2 DEF ReviewRow
    <3> QED
      BY <3>1, ReviewsAssumption
  <2>4. Cardinality(Published(review)) = Stars(1) + Stars(2) + Stars(3) + Stars(4) + Stars(5)
    BY <2>2, <2>3, StarsMakeUpAll DEF Stars
  <2> QED
    BY <2>1, <2>4
<1> QED
    BY <1>1, <1>2

\* Requests that do not write the table leave the page and the score as they are.
LEMMA TheTableOfReviewsStays ==
    ASSUME ReviewInv, UNCHANGED <<review, score, reader, reviewRaced>>, HandsAtWork', CountedForNow'
    PROVE  ReviewInv'
<1>1. ReviewRows' /\ ScoreIsRight'
    BY DEF ReviewInv, ReviewRows, ScoreIsRight
<1>2. ReaderIsRight'
    BY DEF ReviewInv, ReaderIsRight, Stars, Published
<1> QED
    BY <1>1, <1>2 DEF ReviewInv

\* A row is written, and counted.
LEMMA WriteKeepsReviews ==
    ASSUME ReviewInv, NEW h \in ReviewHands, NEW op \in {"insert", "edit", "delete", "moderate"},
           NEW a \in Authors, NEW row \in ReviewRow, WriteReview(h, op, a, row)
    PROVE  ReviewInv'
<1> DEFINE seen == Tally([review EXCEPT ![a] = row])
           no == FALSE
           w == [step |-> "wrote", op |-> op, author |-> a, row |-> row, seen |-> seen, missed |-> no]
<1>1. hand' = [hand EXCEPT ![h] = w] /\ UNCHANGED <<review, score, reader, reviewRaced>>
    BY DEF WriteReview
<1>2. no \in BOOLEAN
    OBVIOUS
<1> HIDE DEF no, seen
<1>3. Writing(w) /\ w.seen = seen /\ w.author = a /\ w.row = row
    BY <1>2 DEF Writing
<1> HIDE DEF w
<1>4. hand' = [k \in ReviewHands |-> hand'[k]] /\ hand'[h] = w
      /\ \A k \in ReviewHands : k # h => hand'[k] = hand[k]
    BY <1>1 DEF ReviewInv, HandsAtWork
<1>5. HandsAtWork'
    BY <1>3, <1>4 DEF ReviewInv, HandsAtWork, Writing
<1>6. CountedForNow'
    BY <1>1, <1>3, <1>4 DEF ReviewInv, CountedForNow, seen
<1> QED
    BY <1>1, <1>5, <1>6, TheTableOfReviewsStays

\* A request that is done, or gone, leaves what the others counted as good as it was.
LEMMA FreeHandKeepsReviews ==
    ASSUME ReviewInv, NEW h \in ReviewHands, hand' = [hand EXCEPT ![h] = FreeHand],
           UNCHANGED <<review, score, reader, reviewRaced>>
    PROVE  ReviewInv'
<1>1. hand' = [k \in ReviewHands |-> hand'[k]] /\ hand'[h] = FreeHand
      /\ \A k \in ReviewHands : k # h => hand'[k] = hand[k]
    BY DEF ReviewInv, HandsAtWork
<1>2. HandsAtWork' /\ CountedForNow'
    BY <1>1 DEF ReviewInv, HandsAtWork, CountedForNow, Writing, FreeHand
<1> QED
    BY <1>2, TheTableOfReviewsStays

\* The commit: the trigger counted for what is there now, looked again, or was overtaken.
LEMMA SaveKeepsReviews ==
    ASSUME ReviewInv, NEW h \in ReviewHands, SaveReview(h)
    PROVE  ReviewInv'
<1> DEFINE w == hand[h]
           rows == [review EXCEPT ![w.author] = w.row]
           after(k) == IF k = h THEN IF w.op = "moderate" THEN [step |-> "trail"] ELSE FreeHand
                       ELSE IF hand[k].step = "wrote" THEN [hand[k] EXCEPT !.missed = TRUE]
                       ELSE hand[k]
<1>1. /\ w.step = "wrote" /\ review' = rows
      /\ score' = IF LooksAgain(w.op) THEN Tally(rows) ELSE w.seen
      /\ reviewRaced' = (w.missed /\ w.op \in {"insert", "delete"})
      /\ hand' = [k \in ReviewHands |-> after(k)]
      /\ reader' = IF reader.step = "away" THEN reader ELSE [reader EXCEPT !.quiet = FALSE]
    BY DEF SaveReview
<1>2. Writing(w) /\ w.row \in ReviewRow /\ w.missed \in BOOLEAN /\ w.author \in Authors
    BY <1>1 DEF ReviewInv, HandsAtWork, Writing
<1>3. ReviewRows'
    BY <1>1, <1>2 DEF ReviewInv, ReviewRows
<1>4. ~w.missed => w.seen = Tally(rows)
    BY <1>1, <1>2 DEF ReviewInv, CountedForNow
<1> HIDE DEF rows
<1>5. ScoreIsRight'
    BY <1>1, <1>2, <1>4 DEF ScoreIsRight, LooksAgain, Writing
<1>6. ASSUME NEW k \in ReviewHands, after(k).step = "wrote"
      PROVE  Writing(after(k)) /\ after(k).missed
  <2>1. k # h /\ hand[k].step = "wrote" /\ Writing(hand[k])
    BY <1>6 DEF FreeHand, ReviewInv, HandsAtWork
  <2>2. after(k) = [hand[k] EXCEPT !.missed = TRUE]
    BY <2>1
  <2> HIDE DEF after
  <2> QED
    BY <2>1, <2>2 DEF Writing
<1>7. \A k \in ReviewHands : hand'[k] = after(k)
    BY <1>1
<1>8. hand' = [k \in ReviewHands |-> hand'[k]]
    BY <1>1
<1> HIDE DEF after
<1>9. HandsAtWork' /\ CountedForNow'
    BY <1>6, <1>7, <1>8 DEF HandsAtWork, CountedForNow
<1>10. ReaderIsRight'
  <2>1. CASE reader.step = "away"
    BY <1>1, <2>1 DEF ReaderIsRight
  <2>2. CASE reader.step # "away"
    <3>1. /\ reader' = [reader EXCEPT !.quiet = FALSE] /\ reader.step \in {"score", "shares"}
          /\ reader = [step |-> reader.step, count |-> reader.count, shares |-> reader.shares,
                       quiet |-> reader.quiet]
      BY <1>1, <2>2 DEF ReviewInv, ReaderIsRight
    <3>2. ~reader'.quiet /\ reader'.step = reader.step
          /\ reader' = [step |-> reader'.step, count |-> reader'.count, shares |-> reader'.shares,
                       quiet |-> reader'.quiet]
      BY <3>1
    <3> QED
      BY <3>1, <3>2 DEF ReaderIsRight
  <2> QED
    BY <2>1, <2>2
<1> QED
    BY <1>3, <1>5, <1>9, <1>10 DEF ReviewInv

\* The page is read in steps, and only a quiet one is asked to add up.
LEMMA ReaderKeepsReviews ==
    ASSUME ReviewInv, ReadScore \/ ReadShares \/ LeaveReviews
    PROVE  ReviewInv'
<1>1. UNCHANGED <<review, score, hand, reviewRaced>>
    BY DEF ReadScore, ReadShares, LeaveReviews
<1>2. ReviewRows' /\ HandsAtWork' /\ CountedForNow' /\ ScoreIsRight'
    BY <1>1 DEF ReviewInv, ReviewRows, HandsAtWork, CountedForNow, ScoreIsRight, Writing
<1>3. ReaderIsRight'
  <2>1. CASE ReadScore
    <3> DEFINE yes == TRUE
    <3>1. reader' = [step |-> "score", count |-> score.count, shares |-> << >>, quiet |-> yes]
      BY <2>1 DEF ReadScore
    <3>2. ~reviewRaced => score.count = Cardinality(Published(review))
      BY DEF ReviewInv, ScoreIsRight, Tally
    <3> HIDE DEF yes
    <3>3. /\ reader'.step = "score" /\ reader'.count = score.count
          /\ reader' = [step |-> reader'.step, count |-> reader'.count, shares |-> reader'.shares,
                        quiet |-> reader'.quiet]
      BY <3>1
    <3> QED
      BY <1>1, <3>2, <3>3 DEF ReaderIsRight, Published
  <2>2. CASE ReadShares
    <3> DEFINE shares == [n \in 1..5 |-> Stars(n)]
    <3>1. reader' = [[reader EXCEPT !.step = "shares"] EXCEPT !.shares = shares]
      BY <2>2 DEF ReadShares, Stars
    <3>2. \A n \in 1..5 : shares[n] = Stars(n)
      OBVIOUS
    <3> HIDE DEF shares
    <3>3. /\ reader.step = "score"
          /\ reader = [step |-> reader.step, count |-> reader.count, shares |-> reader.shares,
                       quiet |-> reader.quiet]
          /\ reader.quiet /\ ~reviewRaced => reader.count = Cardinality(Published(review))
      BY <2>2 DEF ReadShares, ReviewInv, ReaderIsRight
    <3>4. /\ reader'.step = "shares" /\ reader'.count = reader.count /\ reader'.quiet = reader.quiet
          /\ reader'.shares = shares
          /\ reader' = [step |-> reader'.step, count |-> reader'.count, shares |-> reader'.shares,
                        quiet |-> reader'.quiet]
      BY <3>1, <3>3
    <3> QED
      BY <1>1, <3>2, <3>3, <3>4 DEF ReaderIsRight, Published, Stars
  <2>3. CASE LeaveReviews
    BY <2>3 DEF LeaveReviews, Away, ReaderIsRight
  <2> QED
    BY <2>1, <2>2, <2>3
<1> QED
    BY <1>2, <1>3 DEF ReviewInv

\* What a customer or a moderator may write is a row of the table.
LEMMA AskedWrites ==
    ASSUME ReviewInv, NEW h \in ReviewHands, NEW a \in Authors,
           \/ \E g \in Grants, n \in Ratings, t \in {"none", "flagged"} : CreateReview(h, a, g, n, t)
           \/ \E n \in Ratings, t \in {"none", "flagged"} : UpdateMine(h, a, n, t)
           \/ DeleteMine(h, a)
           \/ \E s \in {"published", "rejected"} : Moderate(h, a, s)
    PROVE  \E op \in {"insert", "edit", "delete", "moderate"}, row \in ReviewRow :
               WriteReview(h, op, a, row)
<1>1. ASSUME NEW n \in Ratings, NEW t \in {"none", "flagged"}
      PROVE  [rating |-> n, status |-> Classify(t)] \in ReviewRow
    BY DEF ReviewRow, Classify
<1>2. NoReview \in ReviewRow
    BY DEF ReviewRow
<1>3. ASSUME NEW s \in {"published", "rejected"}, review[a] # NoReview
      PROVE  [review[a] EXCEPT !.status = s] \in ReviewRow
  <2>1. review[a] \in [rating : Ratings, status : {"pending", "published", "rejected"}]
    BY <1>3 DEF ReviewInv, ReviewRows, ReviewRow
  <2> QED
    BY <2>1 DEF ReviewRow
<1>4. CASE \E g \in Grants, n \in Ratings, t \in {"none", "flagged"} : CreateReview(h, a, g, n, t)
    BY <1>1, <1>4 DEF CreateReview
<1>5. CASE \E n \in Ratings, t \in {"none", "flagged"} : UpdateMine(h, a, n, t)
    BY <1>1, <1>5 DEF UpdateMine
<1>6. CASE DeleteMine(h, a)
    BY <1>2, <1>6 DEF DeleteMine
<1>7. CASE \E s \in {"published", "rejected"} : Moderate(h, a, s)
    BY <1>3, <1>7 DEF Moderate
<1> QED
    BY <1>4, <1>5, <1>6, <1>7

\* Whatever is asked for, the invariant stays.
LEMMA AskedKeepsReviews ==
    ASSUME ReviewInv, NEW h \in ReviewHands, NEW a \in Authors,
           \/ \E g \in Grants, n \in Ratings, t \in {"none", "flagged"} : CreateReview(h, a, g, n, t)
           \/ \E n \in Ratings, t \in {"none", "flagged"} : UpdateMine(h, a, n, t)
           \/ DeleteMine(h, a)
           \/ \E s \in {"published", "rejected"} : Moderate(h, a, s)
    PROVE  ReviewInv'
    BY AskedWrites, WriteKeepsReviews

\* The invariant holds whatever is written, decided and read.
LEMMA ReviewInvAlways == ReviewSpec => []ReviewInv
<1>1. ReviewInit => ReviewInv
  <2> SUFFICES ASSUME ReviewInit PROVE ReviewInv
    OBVIOUS
  <2>1. ReviewRows /\ HandsAtWork /\ CountedForNow
    BY DEF ReviewInit, ReviewRows, ReviewRow, HandsAtWork, CountedForNow, FreeHand
  <2>2. Published(review) = {}
    BY DEF ReviewInit, Published, NoReview
  <2>3. Tally(review) = [count |-> 0, sum |-> 0]
    <3>1. \A f : SumOver(f, {}) = 0
      BY SumFirst, FS_EmptySet
    <3>2. Cardinality({}) = 0
      BY FS_EmptySet
    <3> QED
      BY <2>2, <3>1, <3>2 DEF Tally
  <2>4. ScoreIsRight /\ ReaderIsRight
    BY <2>3 DEF ReviewInit, ScoreIsRight, ReaderIsRight, Away
  <2> QED
    BY <2>1, <2>4 DEF ReviewInv
<1>2. ReviewInv /\ [ReviewNext]_reviewVars => ReviewInv'
  <2> SUFFICES ASSUME ReviewInv, [ReviewNext]_reviewVars PROVE ReviewInv'
    OBVIOUS
  <2>1. ASSUME NEW h \in ReviewHands, NEW a \in Authors,
           \/ \E g \in Grants, n \in Ratings, t \in {"none", "flagged"} : CreateReview(h, a, g, n, t)
           \/ \E n \in Ratings, t \in {"none", "flagged"} : UpdateMine(h, a, n, t)
           \/ DeleteMine(h, a)
           \/ \E s \in {"published", "rejected"} : Moderate(h, a, s)
        PROVE  ReviewInv'
    BY <2>1, AskedKeepsReviews
  <2>2. ASSUME NEW h \in ReviewHands, SaveReview(h) PROVE ReviewInv'
    BY <2>2, SaveKeepsReviews
  <2>3. ASSUME NEW h \in ReviewHands, AuditModeration(h) \/ LoseWrite(h) PROVE ReviewInv'
    BY <2>3, FreeHandKeepsReviews DEF AuditModeration, LoseWrite
  <2>4. CASE ReadScore \/ ReadShares \/ LeaveReviews
    BY <2>4, ReaderKeepsReviews
  <2>5. CASE UNCHANGED reviewVars
    BY <2>5, TheTableOfReviewsStays DEF reviewVars, ReviewInv, HandsAtWork, CountedForNow, Writing
  <2> QED
    BY <2>1, <2>2, <2>3, <2>4, <2>5 DEF ReviewNext
<1> QED
    BY <1>1, <1>2, PTL DEF ReviewSpec

\* The score of a product, for any authors and any number of writers at once: only a new or
\* a deleted review that another write overtook leaves it wrong, and a page read in peace
\* adds up.
THEOREM TheScoreTellsTheReviews == ReviewSpec => []OnlyARaceMissesAReview
    BY ReviewInvAlways, ReviewInvHolds, PTL

-----------------------------------------------------------------------------
(* The gateways of the PSPs *)

\* buildOrderInput: whatever rounding each price apart makes of the total, discount and
\* shipping make up for it.
LEMMA ChargedIsTheTotal ==
    ASSUME NEW a \in PspAsks, a.op = "charge"
    PROVE  Charged(a) = ToCents(a.amount) /\ ToCents(a.amount) \in Int
<1>1. a.amount \in Int /\ a.shipping \in Int /\ a.items \in Seq([price : Int, qty : Int])
    BY GatewaysAssumption
<1>2. \A m \in Int : ToCents(m) \in Int
    BY DEF ToCents
<1> DEFINE prices == [i \in DOMAIN a.items |-> ToCents(a.items[i].price) * a.items[i].qty]
           sum == SumOver(prices, DOMAIN prices)
<1>3. sum \in Int
  <2> DEFINE list == a.items
             lines == [price : Int, qty : Int]
  <2>1. /\ DOMAIN prices = 1..Len(a.items) /\ Len(a.items) \in Nat
        /\ \A i \in DOMAIN a.items : a.items[i] \in lines
    <3>1. list \in Seq(lines)
      BY <1>1
    <3>2. DOMAIN prices = DOMAIN list
      OBVIOUS
    <3> HIDE DEF list, lines, prices
    <3>3. /\ DOMAIN list = 1..Len(list) /\ Len(list) \in Nat
          /\ \A i \in DOMAIN list : list[i] \in lines
      BY <3>1
    <3> QED
      BY <3>2, <3>3 DEF list
  <2>2. \A i \in DOMAIN prices : prices[i] \in Int
    <3> SUFFICES ASSUME NEW i \in DOMAIN a.items PROVE prices[i] \in Int
      OBVIOUS
    <3>1. a.items[i] \in [price : Int, qty : Int]
      BY <2>1
    <3>2. a.items[i].price \in Int /\ a.items[i].qty \in Int
      BY <3>1
    <3>3. ToCents(a.items[i].price) \in Int
      BY <1>2, <3>2
    <3>4. prices[i] = ToCents(a.items[i].price) * a.items[i].qty
      OBVIOUS
    <3> QED
      BY <3>2, <3>3, <3>4
  <2>3. IsFiniteSet(DOMAIN prices)
    BY <2>1, FS_Interval
  <2> HIDE DEF prices
  <2> QED
    BY <2>2, <2>3, SumType
<1>4. ASSUME a.items # << >>
      PROVE  BuildOrder(a) =
               [products |-> sum,
                shipping |-> IF sum + ToCents(a.shipping) < ToCents(a.amount)
                             THEN ToCents(a.amount) - sum ELSE ToCents(a.shipping),
                discount |-> IF sum + ToCents(a.shipping) < ToCents(a.amount)
                             THEN 0 ELSE sum + ToCents(a.shipping) - ToCents(a.amount)]
    BY <1>4 DEF BuildOrder
<1> HIDE DEF sum
<1>5. LET o == BuildOrder(a) IN o.products + o.shipping - o.discount = ToCents(a.amount)
  <2>1. ToCents(a.amount) \in Int /\ ToCents(a.shipping) \in Int
    BY <1>1, <1>2
  <2>2. CASE a.items = << >>
    BY <2>1, <2>2 DEF BuildOrder
  <2>3. CASE a.items # << >> /\ sum + ToCents(a.shipping) < ToCents(a.amount)
    <3>1. BuildOrder(a) = [products |-> sum, shipping |-> ToCents(a.amount) - sum, discount |-> 0]
      BY <1>4, <2>3
    <3> QED
      BY <1>3, <2>1, <3>1
  <2>4. CASE a.items # << >> /\ ~(sum + ToCents(a.shipping) < ToCents(a.amount))
    <3>1. BuildOrder(a) = [products |-> sum, shipping |-> ToCents(a.shipping),
                           discount |-> sum + ToCents(a.shipping) - ToCents(a.amount)]
      BY <1>4, <2>4
    <3> QED
      BY <1>3, <2>1, <3>1
  <2> QED
    BY <2>2, <2>3, <2>4
<1> QED
    BY <1>1, <1>2, <1>5 DEF Charged

\* What is left to call for a charge.
LeftOfCharge == {<<"payments">>, <<"orders", "payments">>, <<"customers", "orders", "payments">>}
\* The payment is the last route and the only one that moves money.
LEMMA ThePaymentComesLast ==
    ASSUME NEW l \in LeftOfCharge
    PROVE  /\ Len(l) \in Nat /\ (Len(l) > 1 <=> Head(l) # "payments")
           /\ Len(l) > 1 => Tail(l) \in LeftOfCharge
           /\ Head(l) = "payments" \/ Head(l) \notin MoneyRoutes
<1>1. CASE l = <<"payments">>
    BY <1>1 DEF LeftOfCharge
<1>2. CASE l = <<"orders", "payments">>
    BY <1>2 DEF LeftOfCharge, MoneyRoutes
<1>3. CASE l = <<"customers", "orders", "payments">>
    BY <1>3 DEF LeftOfCharge, MoneyRoutes
<1> QED
    BY <1>1, <1>2, <1>3 DEF LeftOfCharge

\* What may be left of anything that is asked.
LeftOfAsk == LeftOfCharge \union {<<"order", "split">>, <<"split">>, <<"order">>, <<"refund">>,
                                  <<"withdraw">>}
\* The last route of what is asked is the only one that moves money.
LEMMA TheMoneyComesLast ==
    ASSUME NEW l \in LeftOfAsk
    PROVE  Len(l) > 1 => Tail(l) \in LeftOfAsk /\ Head(l) \notin MoneyRoutes
<1>1. CASE l \in LeftOfCharge
    BY <1>1, ThePaymentComesLast DEF LeftOfAsk, MoneyRoutes
<1>2. CASE l = <<"order", "split">>
    BY <1>2 DEF LeftOfAsk, MoneyRoutes
<1>3. CASE l \in {<<"split">>, <<"order">>, <<"refund">>, <<"withdraw">>}
  <2>1. PICK route : l = <<route>>
    BY <1>3
  <2> QED
    BY <2>1
<1> QED
    BY <1>1, <1>2, <1>3 DEF LeftOfAsk

\* What a call may end with.
Verdicts == PaymentWords \union {"invalid", "upstream", "not_found", "requested", "ignored"}
\* The words of a PSP mean statuses of the store, those it never said included.
LEMMA WordsMeanStatuses ==
    ASSUME NEW p \in Providers, NEW word
    PROVE  Meaning(StatusWords[p], word) \in PaymentWords /\ Meaning(Events[p], word) \in PaymentWords
<1>1. ASSUME NEW table PROVE Meaning(table, word) \in (DOMAIN table) \union {"pending"}
    BY DEF Meaning
<1>2. DOMAIN StatusWords[p] \subseteq PaymentWords
  <2>1. /\ DOMAIN StripeWords \subseteq PaymentWords /\ DOMAIN MercadoPagoWords \subseteq PaymentWords
        /\ DOMAIN AppmaxWords \subseteq PaymentWords /\ DOMAIN AppmaxV1Words \subseteq PaymentWords
    BY DEF StripeWords, MercadoPagoWords, AppmaxWords, AppmaxV1Words, PaymentWords
  <2>2. StatusWords[p] \in {StripeWords, MercadoPagoWords, AppmaxWords, AppmaxV1Words}
    BY DEF StatusWords, Providers
  <2> QED
    BY <2>1, <2>2
<1>3. DOMAIN Events[p] \subseteq PaymentWords
  <2>1. /\ DOMAIN MercadoPagoEvents \subseteq PaymentWords /\ DOMAIN AppmaxEvents \subseteq PaymentWords
        /\ DOMAIN AppmaxV1Events \subseteq PaymentWords /\ DOMAIN << >> \subseteq PaymentWords
    BY DEF MercadoPagoEvents, AppmaxEvents, AppmaxV1Events, PaymentWords
  <2>2. Events[p] \in {<< >>, MercadoPagoEvents, AppmaxEvents, AppmaxV1Events}
    BY DEF Events, Providers
  <2> QED
    BY <2>1, <2>2
<1>4. "pending" \in PaymentWords
    BY DEF PaymentWords
<1> QED
    BY <1>1, <1>2, <1>3, <1>4

\* A call is at one of its routes, and the PSP did what it asks at most once for each time
\* it was sent there.
Metered(r, t) ==
    /\ r.left \in LeftOfAsk /\ r.attempt \in 0..MaxRetriesV1
    /\ t <= IF r.at = "answered" THEN r.attempt + 1 ELSE r.attempt
    /\ Len(r.left) > 1 => t = 0
\* How often the PSP took the money of a charge that is under way.
TakenSoFar(r, t) ==
    /\ r.ask \in PspAsks /\ r.left \in LeftOfCharge
    /\ r.at \in {"ready", "fetching", "sent"} => t = 0
    /\ r.at = "answered" =>
         /\ t \in {0, 1}
         /\ Head(r.left) # "payments" => t = 0
         /\ r.answer \in {"busy", "refused", "unauthorized"} => t = 0
         /\ r.answer \in {"ok", "garbled"} /\ Head(r.left) = "payments" => t = 1
\* And of one that ended.
TakenAtTheEnd(r, t) ==
    /\ r.ask \in PspAsks /\ t \in {0, 1}
    /\ r.result \in PaymentWords => t = 1
\* The tokens a call was refused are none that it has or may get.
Untainted(r, bag, who) ==
    /\ r.spurned \subseteq 1..bag.last /\ r.token \in 0..bag.last
    /\ bag.token \notin r.spurned
    /\ r.at = "sent" => r.token \notin r.spurned
    /\ who = "appmax-v1" /\ r.at \in {"sent", "answered"} => r.token # 0
Calling(r) ==
    /\ r = [at |-> r.at, ask |-> r.ask, left |-> r.left, attempt |-> r.attempt, token |-> r.token,
            spurned |-> r.spurned, answer |-> r.answer]
    /\ r.at \in {"ready", "fetching", "sent", "answered"}
WireOK(r, t, bag, who) ==
    \/ r.at = "idle" /\ r = IdleWire /\ t = 0
    \/ /\ r.at = "ended" /\ r.result \in Verdicts /\ t <= MaxRetriesV1 + 1
       /\ r.ask.op = "charge" => TakenAtTheEnd(r, t)
    \/ Calling(r) /\ Untainted(r, bag, who) /\ Metered(r, t) /\ (r.ask.op = "charge" => TakenSoFar(r, t))
Purse == [token : Nat, ripe : BOOLEAN, last : Nat]
GatewayInv ==
    /\ provider \in Providers /\ purse \in Purse /\ purse.token <= purse.last
    /\ wire = [w \in Wires |-> wire[w]] /\ took \in [Wires -> Nat]
    /\ \A w \in Wires : WireOK(wire[w], took[w], purse, provider)

\* The invariant gives both promises.
LEMMA GatewayInvHolds == GatewayInv => OneCallChargesOnce /\ NoRefusedTokenIsSentAgain
<1> SUFFICES ASSUME GatewayInv PROVE OneCallChargesOnce /\ NoRefusedTokenIsSentAgain
    OBVIOUS
<1>1. ASSUME NEW w \in Wires, Charging(w)
      PROVE  /\ took[w] * Charged(wire[w].ask) \in {0, ToCents(wire[w].ask.amount)}
             /\ OnWire(w, "ended") /\ wire[w].result \in PaymentWords => took[w] = 1
  <2>1. /\ wire[w].ask \in PspAsks /\ wire[w].ask.op = "charge" /\ took[w] \in {0, 1}
        /\ OnWire(w, "ended") /\ wire[w].result \in PaymentWords => took[w] = 1
    BY <1>1 DEF Charging, OnWire, GatewayInv, WireOK, TakenSoFar, TakenAtTheEnd, Calling
  <2>2. Charged(wire[w].ask) = ToCents(wire[w].ask.amount) /\ ToCents(wire[w].ask.amount) \in Int
    BY <2>1, ChargedIsTheTotal
  <2> QED
    BY <2>1, <2>2
<1>2. NoRefusedTokenIsSentAgain
    BY DEF NoRefusedTokenIsSentAgain, OnWire, GatewayInv, WireOK, Untainted, IdleWire
<1> QED
    BY <1>1, <1>2 DEF OneCallChargesOnce

\* One call moves, and what the purse does harms no other.
LEMMA OneWireMoves ==
    ASSUME GatewayInv, NEW w \in Wires, NEW r, NEW t \in Nat,
           wire' = [wire EXCEPT ![w] = r], took' = [took EXCEPT ![w] = t], provider' = provider,
           purse' \in Purse, purse'.token <= purse'.last, purse.last <= purse'.last,
           WireOK(r, t, purse', provider),
           \A v \in Wires : v # w /\ Calling(wire[v]) => purse'.token \notin wire[v].spurned
    PROVE  GatewayInv'
<1>1. /\ wire' = [v \in Wires |-> wire'[v]] /\ wire'[w] = r
      /\ \A v \in Wires : v # w => wire'[v] = wire[v]
    BY DEF GatewayInv
<1>2. /\ took' \in [Wires -> Nat] /\ took'[w] = t
      /\ \A v \in Wires : v # w => took'[v] = took[v]
    BY DEF GatewayInv
<1>3. ASSUME NEW v \in Wires, v # w
      PROVE  WireOK(wire[v], took[v], purse', provider)
  <2>1. WireOK(wire[v], took[v], purse, provider)
    BY DEF GatewayInv
  <2>2. Calling(wire[v]) /\ Untainted(wire[v], purse, provider)
          => Untainted(wire[v], purse', provider)
    <3>1. purse.last \in Nat /\ purse'.last \in Nat
      BY DEF GatewayInv, Purse
    <3>2. \A n \in 1..purse.last : n \in 1..purse'.last
      BY <3>1
    <3>3. \A n \in 0..purse.last : n \in 0..purse'.last
      BY <3>1
    <3> QED
      BY <1>3, <3>2, <3>3 DEF Untainted
  <2> QED
    BY <2>1, <2>2 DEF WireOK
<1>4. \A v \in Wires : WireOK(wire'[v], took'[v], purse', provider')
    BY <1>1, <1>2, <1>3
<1>5. provider' \in Providers
    BY DEF GatewayInv
<1> QED
    BY <1>1, <1>2, <1>4, <1>5 DEF GatewayInv

\* As long as the purse stays as it is, one call is all there is to look at.
LEMMA OneWireMovesAlone ==
    ASSUME GatewayInv, NEW w \in Wires, NEW r, wire' = [wire EXCEPT ![w] = r],
           UNCHANGED <<took, provider, purse>>, WireOK(r, took[w], purse, provider)
    PROVE  GatewayInv'
<1>1. took[w] \in Nat /\ took' = [took EXCEPT ![w] = took[w]]
    BY DEF GatewayInv
<1>2. /\ purse' \in Purse /\ purse'.token <= purse'.last /\ purse.last <= purse'.last
      /\ WireOK(r, took[w], purse', provider)
    BY DEF GatewayInv, Purse
<1>3. \A v \in Wires : v # w /\ Calling(wire[v]) => purse'.token \notin wire[v].spurned
    BY DEF GatewayInv, WireOK, Untainted, Calling, IdleWire
<1> QED
    BY <1>1, <1>2, <1>3, OneWireMoves

\* One field of a call after the other.
LEMMA CallFields ==
    ASSUME NEW r, r = [at |-> r.at, ask |-> r.ask, left |-> r.left, attempt |-> r.attempt,
                       token |-> r.token, spurned |-> r.spurned, answer |-> r.answer],
           NEW x
    PROVE  /\ [r EXCEPT !.at = x] = [at |-> x, ask |-> r.ask, left |-> r.left,
                attempt |-> r.attempt, token |-> r.token, spurned |-> r.spurned,
                answer |-> r.answer]
           /\ [r EXCEPT !.token = x] = [at |-> r.at, ask |-> r.ask, left |-> r.left,
                attempt |-> r.attempt, token |-> x, spurned |-> r.spurned, answer |-> r.answer]
           /\ [r EXCEPT !.left = x] = [at |-> r.at, ask |-> r.ask, left |-> x,
                attempt |-> r.attempt, token |-> r.token, spurned |-> r.spurned,
                answer |-> r.answer]
           /\ [r EXCEPT !.attempt = x] = [at |-> r.at, ask |-> r.ask, left |-> r.left,
                attempt |-> x, token |-> r.token, spurned |-> r.spurned, answer |-> r.answer]
           /\ [r EXCEPT !.spurned = x] = [at |-> r.at, ask |-> r.ask, left |-> r.left,
                attempt |-> r.attempt, token |-> r.token, spurned |-> x, answer |-> r.answer]
           /\ [r EXCEPT !.answer = x] = [at |-> r.at, ask |-> r.ask, left |-> r.left,
                attempt |-> r.attempt, token |-> r.token, spurned |-> r.spurned, answer |-> x]
<1> QED
    OBVIOUS

\* A call that begins, or is refused at once.
LEMMA DialKeepsGateway ==
    ASSUME GatewayInv, NEW w \in Wires, NEW a \in PspAsks, Dial(w, a)
    PROVE  GatewayInv'
<1> DEFINE begun == [at |-> "ready", ask |-> a, left |-> Routes(a), attempt |-> 0,
                     token |-> 0, spurned |-> {}, answer |-> "none"]
           turned == [at |-> "ended", ask |-> a, result |-> "invalid"]
<1>1. /\ wire[w].at = "idle" /\ UNCHANGED <<took, provider, purse>>
      /\ \/ TakesAsk(a) /\ wire' = [wire EXCEPT ![w] = begun]
         \/ wire' = [wire EXCEPT ![w] = turned]
    BY DEF Dial, OnWire
<1>2. took[w] = 0
    BY <1>1 DEF GatewayInv, WireOK, Calling
<1>3. ASSUME TakesAsk(a) PROVE WireOK(begun, took[w], purse, provider)
  <2>1. /\ a.op = "charge" => Routes(a) \in LeftOfCharge
        /\ Routes(a) \in LeftOfAsk
    <3>1. a.op \in {"charge", "refund", "split", "withdraw", "lookup"}
      BY <1>3 DEF TakesAsk
    <3>2. a.op = "charge" => Routes(a) \in LeftOfCharge
      BY DEF Routes, AppmaxRoutes, LeftOfCharge
    <3>3. CASE a.op = "charge"
      BY <3>2, <3>3 DEF LeftOfAsk
    <3>4. CASE a.op = "split"
      BY <3>4 DEF Routes, LeftOfAsk
    <3>5. CASE a.op = "lookup"
      BY <3>5 DEF Routes, LeftOfAsk
    <3>6. CASE a.op = "refund"
      BY <3>6 DEF Routes, LeftOfAsk
    <3>7. CASE a.op = "withdraw"
      BY <3>7 DEF Routes, LeftOfAsk
    <3> QED
      BY <3>1, <3>2, <3>3, <3>4, <3>5, <3>6, <3>7
  <2> DEFINE routes == Routes(a)
  <2> HIDE DEF routes
  <2>2. begun = [at |-> "ready", ask |-> a, left |-> routes, attempt |-> 0,
                 token |-> 0, spurned |-> {}, answer |-> "none"]
    BY DEF routes
  <2> HIDE DEF begun
  <2>3. Calling(begun) /\ begun.ask = a /\ begun.left = routes /\ begun.at = "ready"
        /\ begun.spurned = {} /\ begun.token = 0 /\ begun.attempt = 0
    BY <2>2 DEF Calling
  <2>4. Untainted(begun, purse, provider)
    <3>1. 0 \in 0..purse.last
      BY DEF GatewayInv, Purse
    <3> QED
      BY <2>3, <3>1 DEF Untainted
  <2>5. a.op = "charge" => TakenSoFar(begun, 0)
    BY <2>1, <2>3 DEF TakenSoFar, routes
  <2>6. Metered(begun, 0)
    BY <2>1, <2>3, GatewaysAssumption DEF Metered, routes
  <2> QED
    BY <1>2, <2>3, <2>4, <2>5, <2>6 DEF WireOK
<1>4. WireOK(turned, took[w], purse, provider)
    BY <1>2, GatewaysAssumption DEF WireOK, TakenAtTheEnd, PaymentWords, Verdicts
<1> HIDE DEF begun, turned
<1>5. CASE TakesAsk(a) /\ wire' = [wire EXCEPT ![w] = begun]
    BY <1>1, <1>3, <1>5, OneWireMovesAlone
<1>6. CASE wire' = [wire EXCEPT ![w] = turned]
    BY <1>1, <1>4, <1>6, OneWireMovesAlone
<1> QED
    BY <1>1, <1>5, <1>6

\* A notice charges nobody.
LEMMA HearingKeepsGateway ==
    ASSUME GatewayInv, NEW w \in Wires, HearNotice(w)
    PROVE  GatewayInv'
<1>1. PICK said \in Verdicts :
           /\ wire' = [wire EXCEPT ![w] = [at |-> "ended", ask |-> [op |-> "notice"], result |-> said]]
           /\ UNCHANGED <<took, provider, purse>> /\ wire[w].at = "idle"
  <2>1. PICK n \in PspNotices :
           wire' = [wire EXCEPT ![w] = [at |-> "ended", ask |-> [op |-> "notice"],
             result |-> IF ~Genuine(n) THEN "invalid"
                        ELSE CASE provider = "stripe" -> StripeNotice(n)
                               [] provider = "mercadopago" -> MercadoPagoNotice(n)
                               [] OTHER -> AppmaxNotice(n)]]
    BY DEF HearNotice
  <2> DEFINE said == IF ~Genuine(n) THEN "invalid"
                     ELSE CASE provider = "stripe" -> StripeNotice(n)
                            [] provider = "mercadopago" -> MercadoPagoNotice(n)
                            [] OTHER -> AppmaxNotice(n)
  <2>2. said \in Verdicts
    <3>1. provider \in Providers
      BY DEF GatewayInv
    <3>2. StripeNotice(n) \in Verdicts
      BY <3>1, WordsMeanStatuses DEF StripeNotice, NormalizeStatus, Verdicts
    <3>3. provider = "mercadopago" => MercadoPagoNotice(n) \in Verdicts
      <4>1. provider = "mercadopago" => Events[provider] = MercadoPagoEvents
        BY DEF Events, Providers
      <4> QED
        BY <3>1, <4>1, WordsMeanStatuses DEF MercadoPagoNotice, Verdicts
    <3>4. AppmaxNotice(n) \in Verdicts
      BY <3>1, WordsMeanStatuses DEF AppmaxNotice, NormalizeStatus, Verdicts
    <3> QED
      BY <3>2, <3>3, <3>4 DEF Verdicts
  <2>3. wire' = [wire EXCEPT ![w] = [at |-> "ended", ask |-> [op |-> "notice"], result |-> said]]
    BY <2>1
  <2>4. UNCHANGED <<took, provider, purse>> /\ wire[w].at = "idle"
    BY DEF HearNotice, OnWire
  <2> HIDE DEF said
  <2> QED
    BY <2>2, <2>3, <2>4
<1> DEFINE r == [at |-> "ended", ask |-> [op |-> "notice"], result |-> said]
<1>2. WireOK(r, took[w], purse, provider)
  <2>1. took[w] = 0
    BY <1>1 DEF GatewayInv, WireOK, Calling
  <2> QED
    BY <2>1, GatewaysAssumption DEF WireOK
<1>3. wire' = [wire EXCEPT ![w] = r]
    BY <1>1
<1> HIDE DEF r
<1> QED
    BY <1>1, <1>2, <1>3, OneWireMovesAlone

\* A call ends with what its PSP took; only a call that says how the payment stands must have
\* made one.
LEMMA HangKeepsGateway ==
    ASSUME GatewayInv, NEW w \in Wires, NEW result, wire' = Hang(w, result),
           UNCHANGED <<took, provider, purse>>, Calling(wire[w]), result \in Verdicts,
           wire[w].ask.op = "charge" /\ result \in PaymentWords => took[w] = 1
    PROVE  GatewayInv'
<1> DEFINE r == [at |-> "ended", ask |-> wire[w].ask, result |-> result]
<1>1. wire' = [wire EXCEPT ![w] = r]
    BY DEF Hang
<1>2. wire[w].ask.op = "charge" => wire[w].ask \in PspAsks /\ took[w] \in {0, 1}
    BY DEF GatewayInv, WireOK, Calling, TakenSoFar
<1>4. took[w] <= MaxRetriesV1 + 1
  <2>1. Metered(wire[w], took[w]) /\ took[w] \in Nat
    BY DEF GatewayInv, WireOK, Calling
  <2> QED
    BY <2>1, GatewaysAssumption DEF Metered
<1>3. WireOK(r, took[w], purse, provider)
    BY <1>2, <1>4 DEF WireOK, TakenAtTheEnd
<1> HIDE DEF r
<1> QED
    BY <1>1, <1>3, OneWireMovesAlone

\* What is sent carries no token that the call was refused.
LEMMA SendKeepsGateway ==
    ASSUME GatewayInv, NEW w \in Wires, Calling(wire[w]), wire[w].at \in {"ready", "fetching"},
           NEW t, wire' = Send(w, t), UNCHANGED <<took, provider>>,
           purse' \in Purse, purse'.token <= purse'.last, purse.last <= purse'.last,
           t \in 0..purse'.last, t \notin wire[w].spurned, purse'.token \notin wire[w].spurned,
           provider = "appmax-v1" => t # 0,
           \A v \in Wires : v # w /\ Calling(wire[v]) => purse'.token \notin wire[v].spurned
    PROVE  GatewayInv'
<1> DEFINE prior == wire[w]
           c == [[prior EXCEPT !.at = "sent"] EXCEPT !.token = t]
<1>1. wire' = [wire EXCEPT ![w] = c]
    BY DEF Send, GatewayInv
<1> DEFINE d == [prior EXCEPT !.at = "sent"]
<1>2. /\ d = [at |-> d.at, ask |-> d.ask, left |-> d.left, attempt |-> d.attempt,
              token |-> d.token, spurned |-> d.spurned, answer |-> d.answer]
      /\ d.at = "sent" /\ d.ask = prior.ask /\ d.left = prior.left /\ d.spurned = prior.spurned
      /\ d.attempt = prior.attempt
    <2> HIDE DEF prior
    <2>1. d = [at |-> "sent", ask |-> prior.ask, left |-> prior.left, attempt |-> prior.attempt,
               token |-> prior.token, spurned |-> prior.spurned, answer |-> prior.answer]
      BY CallFields DEF Calling, prior
    <2> HIDE DEF d
    <2> QED
      BY <2>1
<1>3. /\ c = [at |-> c.at, ask |-> c.ask, left |-> c.left, attempt |-> c.attempt,
              token |-> c.token, spurned |-> c.spurned, answer |-> c.answer]
      /\ c.at = "sent" /\ c.ask = prior.ask /\ c.left = prior.left /\ c.spurned = prior.spurned
      /\ c.token = t /\ c.attempt = prior.attempt
    <2>1. c = [d EXCEPT !.token = t]
      OBVIOUS
    <2> HIDE DEF prior, d, c
    <2>2. c = [at |-> d.at, ask |-> d.ask, left |-> d.left, attempt |-> d.attempt,
               token |-> t, spurned |-> d.spurned, answer |-> d.answer]
      BY <1>2, <2>1, CallFields
    <2> QED
      BY <1>2, <2>2
<1> HIDE DEF c, d
<1>4. WireOK(c, took[w], purse', provider)
  <2>1. WireOK(prior, took[w], purse, provider) /\ Calling(prior)
    BY DEF GatewayInv
  <2>2. /\ Untainted(prior, purse, provider) /\ Metered(prior, took[w])
        /\ prior.ask.op = "charge" => TakenSoFar(prior, took[w])
    BY <2>1 DEF WireOK, Calling
  <2>3. Untainted(c, purse', provider)
    <3>1. purse.last \in Nat /\ purse'.last \in Nat
      BY DEF GatewayInv, Purse
    <3>2. \A n \in 1..purse.last : n \in 1..purse'.last
      BY <3>1
    <3> QED
      BY <1>3, <2>2, <3>2 DEF Untainted
  <2>4. Calling(c)
    BY <1>3 DEF Calling
  <2>5. c.ask.op = "charge" => TakenSoFar(c, took[w])
    BY <1>3, <2>2 DEF TakenSoFar
  <2>6. Metered(c, took[w])
    BY <1>3, <2>2 DEF Metered
  <2> QED
    BY <2>3, <2>4, <2>5, <2>6 DEF WireOK
<1>5. took[w] \in Nat /\ took' = [took EXCEPT ![w] = took[w]]
    BY DEF GatewayInv
<1> QED
    BY <1>1, <1>4, <1>5, OneWireMoves

\* Token: the cache, or the lock and the PSP.
LEMMA AuthorisingKeepsGateway ==
    ASSUME GatewayInv, NEW w \in Wires, Authorise(w)
    PROVE  GatewayInv'
<1> USE DEF OnWire
<1>1. /\ wire[w].at = "ready" /\ UNCHANGED <<took, provider, purse>>
      /\ Calling(wire[w]) /\ Untainted(wire[w], purse, provider) /\ Metered(wire[w], took[w])
      /\ wire[w].ask.op = "charge" => TakenSoFar(wire[w], took[w])
    BY DEF Authorise, GatewayInv, WireOK, IdleWire
<1>2. purse' \in Purse /\ purse'.token <= purse'.last /\ purse.last <= purse'.last
      /\ purse'.token \notin wire[w].spurned
    BY <1>1 DEF GatewayInv, Purse, Untainted
<1>3. \A v \in Wires : v # w /\ Calling(wire[v]) => purse'.token \notin wire[v].spurned
    BY <1>1 DEF GatewayInv, WireOK, Untainted, Calling, IdleWire
<1>4. CASE wire' = Hang(w, "invalid")
    BY <1>1, <1>4, HangKeepsGateway DEF PaymentWords, Verdicts
<1>5. CASE SendsOnce /\ wire' = Send(w, 0)
  <2>1. 0 \in 0..purse'.last /\ 0 \notin wire[w].spurned /\ provider # "appmax-v1"
    <3>1. 0 \in 0..purse'.last /\ 0 \notin 1..purse.last
      BY <1>2 DEF Purse, GatewayInv
    <3> QED
      BY <1>1, <1>5, <3>1 DEF Untainted, SendsOnce
  <2> QED
    BY <1>1, <1>2, <1>3, <1>5, <2>1, SendKeepsGateway
<1>6. CASE CachedToken # 0 /\ wire' = Send(w, CachedToken)
  <2>1. CachedToken = purse.token
    BY <1>6 DEF CachedToken
  <2>2. CachedToken \in 0..purse'.last /\ CachedToken \notin wire[w].spurned
    <3>1. purse.token \in 0..purse'.last
      BY <1>1 DEF Purse, GatewayInv
    <3> QED
      BY <1>1, <1>2, <2>1, <3>1
  <2>3. purse.token # 0 /\ wire' = Send(w, purse.token) /\ purse.token \in 0..purse'.last
        /\ purse.token \notin wire[w].spurned
    BY <1>6, <2>1, <2>2
  <2> QED
    BY <1>1, <1>2, <1>3, <2>3, SendKeepsGateway
<1>7. CASE wire' = [wire EXCEPT ![w].at = "fetching"]
  <2> DEFINE prior == wire[w]
             c == [prior EXCEPT !.at = "fetching"]
  <2>1. wire' = [wire EXCEPT ![w] = c]
    BY <1>7
  <2>2. c = [at |-> "fetching", ask |-> prior.ask, left |-> prior.left, attempt |-> prior.attempt,
             token |-> prior.token, spurned |-> prior.spurned, answer |-> prior.answer]
    BY <1>1, CallFields DEF Calling
  <2> HIDE DEF c
  <2>3. WireOK(c, took[w], purse, provider)
    <3>1. Calling(c) /\ c.at = "fetching" /\ c.ask = prior.ask /\ c.left = prior.left
          /\ c.token = prior.token /\ c.spurned = prior.spurned /\ c.attempt = prior.attempt
      BY <2>2 DEF Calling
    <3>2. Metered(c, took[w])
      BY <1>1, <3>1 DEF Metered
    <3> QED
      BY <1>1, <3>1, <3>2 DEF WireOK, Untainted, TakenSoFar
  <2> QED
    BY <1>1, <2>1, <2>3, OneWireMovesAlone
<1> QED
    BY <1>4, <1>5, <1>6, <1>7 DEF Authorise

\* refreshToken: what it fetches nobody was refused before.
LEMMA FetchingKeepsGateway ==
    ASSUME GatewayInv, NEW w \in Wires, Fetched(w)
    PROVE  GatewayInv'
<1>1. /\ wire[w].at = "fetching" /\ UNCHANGED <<took, provider>>
      /\ Calling(wire[w]) /\ Untainted(wire[w], purse, provider)
      /\ wire[w].ask.op = "charge" => TakenSoFar(wire[w], took[w])
    BY DEF Fetched, OnWire, GatewayInv, WireOK, IdleWire
<1>2. CASE wire' = Hang(w, "upstream") /\ UNCHANGED purse
    BY <1>1, <1>2, HangKeepsGateway DEF PaymentWords, Verdicts
<1> DEFINE t == purse.last + 1
<1>3. CASE purse' = [token |-> t, ripe |-> FALSE, last |-> t] /\ wire' = Send(w, t)
  <2>1. /\ purse.last \in Nat /\ purse' \in Purse /\ purse'.token = t /\ purse'.last = t
        /\ purse'.token <= purse'.last /\ purse.last <= purse'.last
        /\ t # 0 /\ t \in 0..purse'.last
    <3>1. purse.last \in Nat
      BY DEF GatewayInv, Purse
    <3>2. t \in Nat /\ purse.last <= t /\ t # 0 /\ t \in 0..t
      BY <3>1
    <3> HIDE DEF t
    <3> QED
      BY <1>3, <3>1, <3>2 DEF Purse
  <2>2. \A n \in 1..purse.last : n # t
    BY <2>1
  <2>3. \A v \in Wires : Calling(wire[v]) => t \notin wire[v].spurned
    BY <2>2 DEF GatewayInv, WireOK, Untainted, Calling, IdleWire
  <2> HIDE DEF t
  <2>4. \A v \in Wires : Calling(wire[v]) => purse'.token \notin wire[v].spurned
    BY <2>1, <2>3
  <2>5. PICK n : n = t
    OBVIOUS
  <2>6. n # 0 /\ wire' = Send(w, n) /\ n \in 0..purse'.last /\ n \notin wire[w].spurned
    BY <1>1, <1>3, <2>1, <2>3, <2>5
  <2> QED
    BY <1>1, <2>1, <2>4, <2>6, SendKeepsGateway
<1> QED
    BY <1>2, <1>3 DEF Fetched

\* The PSP forgets a token, or its window passes: no call notices.
LEMMA TokensPassKeepsGateway ==
    ASSUME GatewayInv, UNCHANGED <<provider, wire, took>>,
           UNCHANGED purse \/ purse' = [purse EXCEPT !.ripe = TRUE]
    PROVE  GatewayInv'
<1>1. /\ purse' \in Purse /\ purse'.token = purse.token /\ purse'.last = purse.last
    BY DEF GatewayInv, Purse
<1>2. \A w \in Wires : WireOK(wire[w], took[w], purse', provider)
  <2> SUFFICES ASSUME NEW w \in Wires PROVE WireOK(wire[w], took[w], purse', provider)
    OBVIOUS
  <2>1. WireOK(wire[w], took[w], purse, provider)
    BY DEF GatewayInv
  <2> QED
    BY <1>1, <2>1 DEF WireOK, Untainted
<1> QED
    BY <1>1, <1>2 DEF GatewayInv

\* Only the last route of a charge moves money, and only an answer that came back from it
\* tells that it did.
LEMMA ThePspKeepsGateway ==
    ASSUME GatewayInv, NEW w \in Wires, NEW answer, NEW done \in BOOLEAN, PspActs(w, answer, done)
    PROVE  GatewayInv'
<1> DEFINE prior == wire[w]
           moved == done /\ Head(prior.left) \in MoneyRoutes
           t == IF moved THEN took[w] + 1 ELSE took[w]
           d == [prior EXCEPT !.at = "answered"]
           c == [d EXCEPT !.answer = answer]
<1>1. /\ prior.at = "sent" /\ UNCHANGED <<provider, purse>>
      /\ Calling(prior) /\ Untainted(prior, purse, provider) /\ Metered(prior, took[w])
      /\ prior.ask.op = "charge" => TakenSoFar(prior, took[w])
    BY DEF PspActs, OnWire, GatewayInv, WireOK, IdleWire
<1>2. /\ answer \in {"busy", "refused", "unauthorized"} => ~done
      /\ answer \in {"ok", "garbled"} => done
    BY DEF PspActs
<1>3. wire' = [wire EXCEPT ![w] = c]
    BY DEF PspActs, GatewayInv
<1>4. took' = [took EXCEPT ![w] = t] /\ t \in Nat
  <2>1. /\ moved => took' = [took EXCEPT ![w] = took[w] + 1]
        /\ ~moved => took' = took
    BY DEF PspActs
  <2>2. took[w] \in Nat /\ took = [took EXCEPT ![w] = took[w]]
    BY DEF GatewayInv
  <2> HIDE DEF moved
  <2> QED
    BY <2>1, <2>2
<1>5. d = [at |-> "answered", ask |-> prior.ask, left |-> prior.left, attempt |-> prior.attempt,
           token |-> prior.token, spurned |-> prior.spurned, answer |-> prior.answer]
    BY <1>1, CallFields DEF Calling
<1>6. c = [at |-> "answered", ask |-> prior.ask, left |-> prior.left, attempt |-> prior.attempt,
           token |-> prior.token, spurned |-> prior.spurned, answer |-> answer]
  <2> HIDE DEF d
  <2>1. /\ d = [at |-> d.at, ask |-> d.ask, left |-> d.left, attempt |-> d.attempt,
                token |-> d.token, spurned |-> d.spurned, answer |-> d.answer]
        /\ d.at = "answered" /\ d.ask = prior.ask /\ d.left = prior.left
        /\ d.attempt = prior.attempt /\ d.token = prior.token /\ d.spurned = prior.spurned
    BY <1>5
  <2> HIDE DEF prior
  <2>2. c = [at |-> d.at, ask |-> d.ask, left |-> d.left, attempt |-> d.attempt,
             token |-> d.token, spurned |-> d.spurned, answer |-> answer]
    BY <2>1, CallFields
  <2> HIDE DEF c
  <2> QED
    BY <2>1, <2>2
<1> HIDE DEF c
<1>7. Calling(c) /\ c.at = "answered" /\ c.ask = prior.ask /\ c.left = prior.left
      /\ c.token = prior.token /\ c.spurned = prior.spurned /\ c.answer = answer
      /\ c.attempt = prior.attempt
    BY <1>6 DEF Calling
<1>8. Untainted(c, purse, provider)
    BY <1>1, <1>7 DEF Untainted
<1>9. ASSUME prior.ask.op = "charge" PROVE TakenSoFar(c, t)
  <2>1. /\ took[w] = 0 /\ prior.ask \in PspAsks /\ prior.left \in LeftOfCharge
    BY <1>1, <1>9 DEF TakenSoFar
  <2>2. Head(prior.left) = "payments" \/ Head(prior.left) \notin MoneyRoutes
    BY <2>1, ThePaymentComesLast
  <2>3. moved <=> done /\ Head(prior.left) = "payments"
    BY <2>2 DEF MoneyRoutes
  <2>4. (moved => t = 1) /\ (~moved => t = 0)
    BY <2>1
  <2> HIDE DEF t, moved
  <2> QED
    BY <1>2, <1>7, <2>1, <2>3, <2>4 DEF TakenSoFar
<1>12. Metered(c, t)
  <2>1. prior.left \in LeftOfAsk /\ prior.attempt \in 0..MaxRetriesV1 /\ took[w] <= prior.attempt
        /\ (Len(prior.left) > 1 => took[w] = 0) /\ took[w] \in Nat /\ MaxRetriesV1 \in Nat
    BY <1>1, GatewaysAssumption DEF Metered, GatewayInv
  <2>2. Len(prior.left) > 1 => ~moved
    BY <2>1, TheMoneyComesLast
  <2>3. t <= prior.attempt + 1
    BY <2>1
  <2>4. Len(prior.left) > 1 => t = 0
    BY <2>1, <2>2
  <2> HIDE DEF t, moved
  <2> QED
    BY <1>7, <2>1, <2>3, <2>4 DEF Metered
<1>10. WireOK(c, t, purse, provider)
    BY <1>7, <1>8, <1>9, <1>12 DEF WireOK
<1>11. /\ purse' \in Purse /\ purse'.token <= purse'.last /\ purse.last <= purse'.last
       /\ \A v \in Wires : v # w /\ Calling(wire[v]) => purse'.token \notin wire[v].spurned
    BY <1>1 DEF GatewayInv, Purse, WireOK, Untainted, Calling, IdleWire
<1> HIDE DEF t
<1> QED
    BY <1>1, <1>3, <1>4, <1>10, <1>11, OneWireMoves

\* doJSON: no charge is repeated of which the PSP may have taken the money, and the token that
\* was refused leaves the cache.
LEMMA RepeatingKeepsGateway ==
    ASSUME GatewayInv, NEW w \in Wires, Repeat(w)
    PROVE  GatewayInv'
<1> DEFINE prior == wire[w]
           away == prior.answer = "unauthorized"
           shunned == IF away THEN prior.spurned \union {prior.token} ELSE prior.spurned
           tries == prior.attempt + 1
           d1 == [prior EXCEPT !.at = "ready"]
           d2 == [d1 EXCEPT !.attempt = tries]
           d3 == [d2 EXCEPT !.answer = "none"]
           c == [d3 EXCEPT !.spurned = shunned]
<1>1. /\ prior.at = "answered" /\ UNCHANGED <<provider, took>>
      /\ Calling(prior) /\ Untainted(prior, purse, provider) /\ Metered(prior, took[w])
      /\ prior.ask.op = "charge" => TakenSoFar(prior, took[w])
      /\ Resends(w) /\ InvalidateToken(w) /\ prior.attempt < MaxRetriesV1
    BY DEF Repeat, CanRepeat, OnWire, GatewayInv, WireOK, IdleWire
<1>2. wire' = [wire EXCEPT ![w] = c]
    BY <1>1 DEF Repeat, GatewayInv, Calling
<1>3. c = [at |-> "ready", ask |-> prior.ask, left |-> prior.left, attempt |-> tries,
           token |-> prior.token, spurned |-> shunned, answer |-> "none"]
  <2>1. d1 = [at |-> "ready", ask |-> prior.ask, left |-> prior.left, attempt |-> prior.attempt,
              token |-> prior.token, spurned |-> prior.spurned, answer |-> prior.answer]
    BY <1>1, CallFields DEF Calling
  <2> HIDE DEF prior, tries, shunned, d1
  <2>2. /\ d1 = [at |-> d1.at, ask |-> d1.ask, left |-> d1.left, attempt |-> d1.attempt,
                token |-> d1.token, spurned |-> d1.spurned, answer |-> d1.answer]
        /\ d1.at = "ready" /\ d1.ask = prior.ask /\ d1.left = prior.left /\ d1.token = prior.token
        /\ d1.spurned = prior.spurned
    BY <2>1
  <2>3. d2 = [at |-> d1.at, ask |-> d1.ask, left |-> d1.left, attempt |-> tries,
              token |-> d1.token, spurned |-> d1.spurned, answer |-> d1.answer]
    BY <2>2, CallFields
  <2> HIDE DEF d2
  <2>4. /\ d2 = [at |-> d2.at, ask |-> d2.ask, left |-> d2.left, attempt |-> d2.attempt,
                token |-> d2.token, spurned |-> d2.spurned, answer |-> d2.answer]
        /\ d2.at = "ready" /\ d2.ask = prior.ask /\ d2.left = prior.left /\ d2.token = prior.token
        /\ d2.spurned = prior.spurned /\ d2.attempt = tries
    BY <2>2, <2>3
  <2>5. d3 = [at |-> d2.at, ask |-> d2.ask, left |-> d2.left, attempt |-> d2.attempt,
              token |-> d2.token, spurned |-> d2.spurned, answer |-> "none"]
    BY <2>4, CallFields
  <2> HIDE DEF d3
  <2>6. /\ d3 = [at |-> d3.at, ask |-> d3.ask, left |-> d3.left, attempt |-> d3.attempt,
                token |-> d3.token, spurned |-> d3.spurned, answer |-> d3.answer]
        /\ d3.at = "ready" /\ d3.ask = prior.ask /\ d3.left = prior.left /\ d3.token = prior.token
        /\ d3.attempt = tries /\ d3.answer = "none"
    BY <2>4, <2>5
  <2>7. c = [at |-> d3.at, ask |-> d3.ask, left |-> d3.left, attempt |-> d3.attempt,
             token |-> d3.token, spurned |-> shunned, answer |-> d3.answer]
    BY <2>6, CallFields
  <2> HIDE DEF c
  <2> QED
    BY <2>6, <2>7
<1> HIDE DEF c
<1>4. Calling(c) /\ c.at = "ready" /\ c.ask = prior.ask /\ c.left = prior.left
      /\ c.token = prior.token /\ c.spurned = shunned /\ c.attempt = tries
    BY <1>3 DEF Calling
<1>5. purse.last \in Nat /\ purse.token \in 0..purse.last
    BY DEF GatewayInv, Purse
<1>6. /\ purse' \in Purse /\ purse'.last = purse.last /\ purse'.token \in 0..purse.last
      /\ away => purse'.token = 0
      /\ ~away => purse' = purse
  <2>1. CASE away
    <3> DEFINE empty == [purse EXCEPT !.token = 0]
    <3>1. purse' = [empty EXCEPT !.ripe = FALSE]
      BY <1>1, <2>1 DEF InvalidateToken
    <3>2. empty \in Purse /\ empty.token = 0 /\ empty.last = purse.last
      BY DEF GatewayInv, Purse
    <3> HIDE DEF empty
    <3>3. purse' \in Purse /\ purse'.token = 0 /\ purse'.last = purse.last
      BY <3>1, <3>2 DEF Purse
    <3>4. 0 \in 0..purse.last
      BY <1>5
    <3> QED
      BY <2>1, <3>3, <3>4
  <2>2. CASE ~away
    BY <1>1, <1>5, <2>2 DEF InvalidateToken, GatewayInv
  <2> QED
    BY <2>1, <2>2
<1>7. 0 \notin 1..purse.last
    OBVIOUS
<1>8. shunned \subseteq 1..purse.last
  <2>1. away => prior.token # 0
    BY <1>1 DEF Resends, SendsOnce, Untainted
  <2>2. \A n \in 0..purse.last : n # 0 => n \in 1..purse.last
    BY <1>5
  <2> QED
    BY <1>1, <2>1, <2>2 DEF Untainted
<1>9. purse'.token \notin shunned
    BY <1>1, <1>6, <1>7, <1>8 DEF Untainted
<1>10. Untainted(c, purse', provider)
    BY <1>1, <1>4, <1>6, <1>8, <1>9 DEF Untainted
<1>11. ASSUME prior.ask.op = "charge" PROVE TakenSoFar(c, took[w])
  <2>1. took[w] = 0
    BY <1>1, <1>11 DEF TakenSoFar, Resends, IsFinancialRoute
  <2> QED
    BY <1>1, <1>4, <1>11, <2>1 DEF TakenSoFar
<1>16. Metered(c, took[w])
  <2>1. prior.attempt \in 0..MaxRetriesV1 /\ MaxRetriesV1 \in Nat /\ prior.left \in LeftOfAsk
        /\ took[w] <= prior.attempt + 1 /\ (Len(prior.left) > 1 => took[w] = 0)
    BY <1>1, GatewaysAssumption DEF Metered
  <2>2. tries \in 0..MaxRetriesV1 /\ took[w] <= tries
    BY <1>1, <2>1
  <2> HIDE DEF tries
  <2> QED
    BY <1>4, <2>1, <2>2 DEF Metered
<1>12. WireOK(c, took[w], purse', provider)
    BY <1>4, <1>10, <1>11, <1>16 DEF WireOK
<1>13. ASSUME NEW v \in Wires, v # w, Calling(wire[v]) PROVE purse'.token \notin wire[v].spurned
  <2>1. purse.token \notin wire[v].spurned /\ wire[v].spurned \subseteq 1..purse.last
    BY <1>13 DEF GatewayInv, WireOK, Untainted, Calling, IdleWire
  <2> QED
    BY <1>6, <1>7, <2>1
<1>14. took[w] \in Nat /\ took' = [took EXCEPT ![w] = took[w]]
    BY <1>1 DEF GatewayInv
<1>15. purse'.token <= purse'.last /\ purse.last <= purse'.last
    BY <1>5, <1>6
<1> QED
    BY <1>1, <1>2, <1>6, <1>12, <1>13, <1>14, <1>15, OneWireMoves

\* An error says nothing of the payment.
LEMMA GivingUpKeepsGateway ==
    ASSUME GatewayInv, NEW w \in Wires, GiveUp(w)
    PROVE  GatewayInv'
<1>1. Calling(wire[w])
    BY DEF GiveUp, OnWire, GatewayInv, WireOK, IdleWire
<1>2. PICK e \in ErrorOf(w) : wire' = Hang(w, e)
    BY DEF GiveUp
<1>3. e \notin PaymentWords /\ e \in Verdicts
    BY DEF ErrorOf, HttpError, ClassifyCreateError, PaymentWords, Verdicts
<1>4. UNCHANGED <<took, provider, purse>>
    BY DEF GiveUp
<1> QED
    BY <1>1, <1>2, <1>3, <1>4, HangKeepsGateway

\* The next route of a call begins with a clean slate.
LEMMA NextRouteKeepsGateway ==
    ASSUME GatewayInv, NEW w \in Wires, Calling(wire[w]), wire[w].at = "answered",
           wire' = NextRoute(w), UNCHANGED <<took, provider, purse>>, Len(wire[w].left) > 1
    PROVE  GatewayInv'
<1> DEFINE prior == wire[w]
           rest == Tail(prior.left)
           d1 == [prior EXCEPT !.left = rest]
           d2 == [d1 EXCEPT !.attempt = 0]
           d3 == [d2 EXCEPT !.at = "ready"]
           d4 == [d3 EXCEPT !.token = 0]
           d5 == [d4 EXCEPT !.answer = "none"]
           c == [d5 EXCEPT !.spurned = {}]
<1>1. Calling(prior) /\ WireOK(prior, took[w], purse, provider)
    BY DEF GatewayInv
<1>2. wire' = [wire EXCEPT ![w] = c]
    BY DEF NextRoute, GatewayInv, Calling
<1>3. /\ Calling(c) /\ c.at = "ready" /\ c.ask = prior.ask /\ c.left = rest
      /\ c.token = 0 /\ c.spurned = {} /\ c.attempt = 0
  <2>1. d1 = [at |-> prior.at, ask |-> prior.ask, left |-> rest, attempt |-> prior.attempt,
              token |-> prior.token, spurned |-> prior.spurned, answer |-> prior.answer]
    BY <1>1, CallFields DEF Calling
  <2> HIDE DEF prior, rest, d1
  <2>2. /\ d1 = [at |-> d1.at, ask |-> d1.ask, left |-> d1.left, attempt |-> d1.attempt,
                 token |-> d1.token, spurned |-> d1.spurned, answer |-> d1.answer]
        /\ d1.at = prior.at /\ d1.ask = prior.ask /\ d1.left = rest /\ d1.attempt = prior.attempt
        /\ d1.token = prior.token /\ d1.spurned = prior.spurned /\ d1.answer = prior.answer
    BY <2>1
  <2>3. d2 = [at |-> d1.at, ask |-> d1.ask, left |-> d1.left, attempt |-> 0,
              token |-> d1.token, spurned |-> d1.spurned, answer |-> d1.answer]
    BY <2>2, CallFields
  <2> HIDE DEF d2
  <2>4. /\ d2 = [at |-> d2.at, ask |-> d2.ask, left |-> d2.left, attempt |-> d2.attempt,
                 token |-> d2.token, spurned |-> d2.spurned, answer |-> d2.answer]
        /\ d2.at = prior.at /\ d2.ask = prior.ask /\ d2.left = rest /\ d2.attempt = 0
        /\ d2.token = prior.token /\ d2.spurned = prior.spurned /\ d2.answer = prior.answer
    BY <2>3, <2>2
  <2>5. d3 = [at |-> "ready", ask |-> d2.ask, left |-> d2.left, attempt |-> d2.attempt,
              token |-> d2.token, spurned |-> d2.spurned, answer |-> d2.answer]
    BY <2>4, CallFields
  <2> HIDE DEF d3
  <2>6. /\ d3 = [at |-> d3.at, ask |-> d3.ask, left |-> d3.left, attempt |-> d3.attempt,
                 token |-> d3.token, spurned |-> d3.spurned, answer |-> d3.answer]
        /\ d3.at = "ready" /\ d3.ask = prior.ask /\ d3.left = rest /\ d3.attempt = 0
        /\ d3.token = prior.token /\ d3.spurned = prior.spurned /\ d3.answer = prior.answer
    BY <2>5, <2>4
  <2>7. d4 = [at |-> d3.at, ask |-> d3.ask, left |-> d3.left, attempt |-> d3.attempt,
              token |-> 0, spurned |-> d3.spurned, answer |-> d3.answer]
    BY <2>6, CallFields
  <2> HIDE DEF d4
  <2>8. /\ d4 = [at |-> d4.at, ask |-> d4.ask, left |-> d4.left, attempt |-> d4.attempt,
                 token |-> d4.token, spurned |-> d4.spurned, answer |-> d4.answer]
        /\ d4.at = "ready" /\ d4.ask = prior.ask /\ d4.left = rest /\ d4.attempt = 0
        /\ d4.token = 0 /\ d4.spurned = prior.spurned /\ d4.answer = prior.answer
    BY <2>7, <2>6
  <2>9. d5 = [at |-> d4.at, ask |-> d4.ask, left |-> d4.left, attempt |-> d4.attempt,
              token |-> d4.token, spurned |-> d4.spurned, answer |-> "none"]
    BY <2>8, CallFields
  <2> HIDE DEF d5
  <2>10. /\ d5 = [at |-> d5.at, ask |-> d5.ask, left |-> d5.left, attempt |-> d5.attempt,
                  token |-> d5.token, spurned |-> d5.spurned, answer |-> d5.answer]
        /\ d5.at = "ready" /\ d5.ask = prior.ask /\ d5.left = rest /\ d5.attempt = 0
        /\ d5.token = 0 /\ d5.spurned = prior.spurned /\ d5.answer = "none"
    BY <2>9, <2>8
  <2>11. c = [at |-> d5.at, ask |-> d5.ask, left |-> d5.left, attempt |-> d5.attempt,
              token |-> d5.token, spurned |-> {}, answer |-> d5.answer]
    BY <2>10, CallFields
  <2> HIDE DEF c
  <2>12. /\ c = [at |-> c.at, ask |-> c.ask, left |-> c.left, attempt |-> c.attempt,
                 token |-> c.token, spurned |-> c.spurned, answer |-> c.answer]
        /\ c.at = "ready" /\ c.ask = prior.ask /\ c.left = rest /\ c.attempt = 0
        /\ c.token = 0 /\ c.spurned = {} /\ c.answer = "none"
    BY <2>11, <2>10
  <2> QED
    BY <2>12 DEF Calling
<1> HIDE DEF c
<1>4. Untainted(c, purse, provider)
  <2>1. 0 \in 0..purse.last
    BY DEF GatewayInv, Purse
  <2> QED
    BY <1>3, <2>1 DEF Untainted
<1>5. ASSUME prior.ask.op = "charge" PROVE TakenSoFar(c, took[w])
  <2>1. TakenSoFar(prior, took[w])
    BY <1>1, <1>5 DEF WireOK, Calling
  <2>2. prior.left \in LeftOfCharge /\ Len(prior.left) > 1
    BY <2>1 DEF TakenSoFar
  <2>3. rest \in LeftOfCharge /\ Head(prior.left) # "payments"
    BY <2>2, ThePaymentComesLast
  <2>4. took[w] = 0
    BY <2>1, <2>3 DEF TakenSoFar
  <2> QED
    BY <1>3, <2>1, <2>3, <2>4 DEF TakenSoFar
<1>7. Metered(c, took[w])
  <2>1. prior.left \in LeftOfAsk /\ took[w] = 0
    BY <1>1 DEF WireOK, Calling, Metered
  <2>2. rest \in LeftOfAsk
    BY <2>1, TheMoneyComesLast
  <2> QED
    BY <1>3, <2>1, <2>2, GatewaysAssumption DEF Metered
<1>6. WireOK(c, took[w], purse, provider)
    BY <1>3, <1>4, <1>5, <1>7 DEF WireOK
<1> QED
    BY <1>2, <1>6, OneWireMovesAlone

\* The answer to the last route of a charge tells how its payment stands.
LEMMA SettlingKeepsGateway ==
    ASSUME GatewayInv, NEW w \in Wires, NEW word, Settle(w, word)
    PROVE  GatewayInv'
<1>1. /\ wire[w].at = "answered" /\ wire[w].answer \in {"ok", "garbled"}
      /\ Calling(wire[w]) /\ UNCHANGED <<took, provider, purse>>
    BY DEF Settle, OnWire, GatewayInv, WireOK, IdleWire
<1>2. CASE Len(wire[w].left) > 1 /\ wire' = NextRoute(w)
    BY <1>1, <1>2, NextRouteKeepsGateway
<1>3. CASE wire' = Hang(w, "upstream") \/ wire' = Hang(w, "invalid")
    BY <1>1, <1>3, HangKeepsGateway DEF PaymentWords, Verdicts
<1>4. CASE /\ ~(Len(wire[w].left) > 1)
           /\ wire' = Hang(w, IF wire[w].ask.op \in {"charge", "lookup"}
                              THEN StatusSaid(w, word) ELSE "requested")
  <2>1. ASSUME wire[w].ask.op = "charge" PROVE took[w] = 1
    <3>1. TakenSoFar(wire[w], took[w])
      BY <1>1, <2>1 DEF GatewayInv, WireOK, Calling
    <3>2. Head(wire[w].left) = "payments"
      BY <1>4, <3>1, ThePaymentComesLast DEF TakenSoFar
    <3> QED
      BY <1>1, <3>1, <3>2 DEF TakenSoFar
  <2>2. StatusSaid(w, word) \in Verdicts /\ "requested" \in Verdicts
    BY WordsMeanStatuses DEF GatewayInv, StatusSaid, NormalizeStatus, Verdicts, PaymentWords
  <2> QED
    BY <1>1, <1>4, <2>1, <2>2, HangKeepsGateway
<1> QED
    BY <1>2, <1>3, <1>4 DEF Settle, MaySplit

\* Every step of the gateways keeps the invariant.
LEMMA GatewayInvAlways == GatewaySpec => []GatewayInv
<1>1. GatewayInit => GatewayInv
  <2> SUFFICES ASSUME GatewayInit PROVE GatewayInv
    OBVIOUS
  <2>1. purse \in Purse /\ purse.token = 0 /\ purse.last = 0
    BY DEF GatewayInit, Purse
  <2>2. \A w \in Wires : wire[w] = IdleWire /\ took[w] = 0
    BY DEF GatewayInit
  <2>3. \A w \in Wires : WireOK(wire[w], took[w], purse, provider)
    BY <2>2 DEF WireOK, IdleWire
  <2>4. wire = [w \in Wires |-> wire[w]] /\ took \in [Wires -> Nat] /\ provider \in Providers
    BY DEF GatewayInit
  <2> QED
    BY <2>1, <2>3, <2>4 DEF GatewayInv
<1>2. GatewayInv /\ [GatewayNext]_gatewayVars => GatewayInv'
  <2> SUFFICES ASSUME GatewayInv, [GatewayNext]_gatewayVars PROVE GatewayInv'
    OBVIOUS
  <2>1. ASSUME UNCHANGED gatewayVars PROVE GatewayInv'
    BY <2>1, TokensPassKeepsGateway DEF gatewayVars
  <2>2. ASSUME NEW w \in Wires,
               \/ \E a \in PspAsks : Dial(w, a)
               \/ HearNotice(w) \/ Authorise(w) \/ Fetched(w) \/ Repeat(w) \/ GiveUp(w)
        PROVE  GatewayInv'
    BY <2>2, DialKeepsGateway, HearingKeepsGateway, AuthorisingKeepsGateway,
       FetchingKeepsGateway, RepeatingKeepsGateway, GivingUpKeepsGateway
  <2>3. ASSUME NEW w \in Wires, NEW answer, NEW done \in BOOLEAN, PspActs(w, answer, done)
        PROVE  GatewayInv'
    BY <2>3, ThePspKeepsGateway
  <2>4. ASSUME NEW w \in Wires, NEW word, Settle(w, word) PROVE GatewayInv'
    BY <2>4, SettlingKeepsGateway
  <2>5. ASSUME Ripen PROVE GatewayInv'
    BY <2>5, TokensPassKeepsGateway DEF Ripen
  <2>6. ASSUME NEW t \in honoured, Revoke(t) PROVE GatewayInv'
    BY <2>6, TokensPassKeepsGateway DEF Revoke
  <2> QED
    BY <2>1, <2>2, <2>3, <2>4, <2>5, <2>6 DEF GatewayNext
<1> QED
    BY <1>1, <1>2, PTL DEF GatewaySpec

\* The tokens that the PSP honours it gave, and a call holds the lock.
HonouredOK == honoured \subseteq 1..purse.last /\ fetcher \subseteq Wires
\* The types of the gateways.
LEMMA GatewayTypesAlways == GatewaySpec => []GatewayTypeOK
<1>1. GatewayInit => HonouredOK
    BY DEF GatewayInit, HonouredOK
<1>2. GatewayInv /\ HonouredOK /\ [GatewayNext]_gatewayVars => HonouredOK'
  <2> SUFFICES ASSUME GatewayInv, HonouredOK, [GatewayNext]_gatewayVars PROVE HonouredOK'
    OBVIOUS
  <2>1. purse \in Purse /\ purse.last \in Nat
    BY DEF GatewayInv, Purse
  <2>2. CASE purse'.last = purse.last /\ honoured' \subseteq honoured /\ fetcher' \subseteq Wires
    BY <2>2 DEF HonouredOK
  <2>3. ASSUME NEW w \in Wires, Fetched(w) PROVE HonouredOK'
    <3>1. CASE UNCHANGED <<purse, honoured>>
      BY <2>3, <3>1 DEF Fetched, HonouredOK
    <3>2. CASE /\ purse'.last = purse.last + 1 /\ honoured' = honoured \union {purse.last + 1}
      <4> DEFINE last == purse.last + 1
      <4>1. /\ \A n \in 1..purse.last : n \in 1..last
            /\ last \in 1..last
        BY <2>1
      <4>2. purse'.last = last /\ honoured' = honoured \union {last} /\ fetcher' = {}
        BY <2>3, <3>2 DEF Fetched
      <4> HIDE DEF last
      <4> QED
        BY <4>1, <4>2 DEF HonouredOK
    <3> QED
      BY <2>3, <3>1, <3>2 DEF Fetched
  <2>4. ASSUME NEW w \in Wires, Authorise(w) PROVE HonouredOK'
    <3>1. UNCHANGED <<purse, honoured>> /\ fetcher' \in {fetcher, {w}}
      BY <2>4 DEF Authorise
    <3> QED
      BY <3>1 DEF HonouredOK
  <2>5. ASSUME NEW w \in Wires, Repeat(w) PROVE HonouredOK'
    <3>1. UNCHANGED <<honoured, fetcher>> /\ purse'.last = purse.last
      BY <2>1, <2>5 DEF Repeat, InvalidateToken, Purse
    <3> QED
      BY <3>1 DEF HonouredOK
  <2>6. ASSUME Ripen PROVE HonouredOK'
    BY <2>1, <2>6 DEF Ripen, HonouredOK, Purse
  <2>7. ASSUME NEW t \in honoured, Revoke(t) PROVE HonouredOK'
    BY <2>7 DEF Revoke, HonouredOK
  <2>8. CASE UNCHANGED <<purse, honoured, fetcher>>
    BY <2>8 DEF HonouredOK
  <2>9. ASSUME NEW w \in Wires,
               \/ \E a \in PspAsks : Dial(w, a)
               \/ HearNotice(w) \/ GiveUp(w)
               \/ \E answer, done : PspActs(w, answer, done)
               \/ \E word : Settle(w, word)
        PROVE  HonouredOK'
    BY <2>8, <2>9 DEF Dial, HearNotice, GiveUp, PspActs, Settle
  <2> QED
    BY <2>3, <2>4, <2>5, <2>6, <2>7, <2>8, <2>9 DEF GatewayNext, gatewayVars
<1>3. GatewayInv /\ HonouredOK => GatewayTypeOK
  <2> SUFFICES ASSUME GatewayInv, HonouredOK PROVE GatewayTypeOK
    OBVIOUS
  <2>1. purse.token \in 0..purse.last
    BY DEF GatewayInv, Purse
  <2>2. ASSUME NEW w \in Wires
        PROVE  /\ wire[w].at = "ended" => wire[w].result \in Verdicts
               /\ took[w] \in 0..(MaxRetriesV1 + 1)
    <3>1. WireOK(wire[w], took[w], purse, provider) /\ took[w] \in Nat /\ MaxRetriesV1 \in Nat
      BY GatewaysAssumption DEF GatewayInv
    <3> QED
      BY <3>1 DEF WireOK, IdleWire, Calling, Metered
  <2> QED
    BY <2>1, <2>2 DEF GatewayInv, HonouredOK, GatewayTypeOK, OnWire, Verdicts
<1> QED
    BY <1>1, <1>2, <1>3, GatewayInvAlways, PTL DEF GatewaySpec

(* One call of a gateway charges the total of the order to the cent, at most    *)
(* once, whatever its PSP loses, breaks or repeats; and it tells how a payment  *)
(* stands only when there is one (doJSON, isFinancialRoute, buildOrderInput).   *)
THEOREM OneCallOneCharge == GatewaySpec => []OneCallChargesOnce
<1>1. GatewayInv => OneCallChargesOnce
    BY GatewayInvHolds
<1> QED
    BY <1>1, GatewayInvAlways, PTL

(* No call sends a token that it was refused, although the calls share one      *)
(* cache and any of them may fetch or drop the token (Token, invalidateToken).  *)
THEOREM RefusedTokensStayAway == GatewaySpec => []NoRefusedTokenIsSentAgain
<1>1. GatewayInv => NoRefusedTokenIsSentAgain
    BY GatewayInvHolds
<1> QED
    BY <1>1, GatewayInvAlways, PTL

-----------------------------------------------------------------------------
(* Alice *)

\* A request being answered: it never asked the catalogue for more than its budget, its
\* risks are warned of, its cards are fit and its list buys enough.
RequestFields == {"phase", "mode", "turn", "todo", "left", "calls", "cards", "warned", "owed",
                  "ungrounded", "bought"}
FitCards(t) ==
    /\ \A c \in t.cards : /\ c = [product |-> c.product, cost |-> c.cost] /\ (c.cost => SeesCost(t))
                         /\ c.product \in DOMAIN Catalogue /\ c.cost \in BOOLEAN
    /\ \A c, d \in t.cards : c.product = d.product => c = d
BuysEnough(it) ==
    /\ it.packages * Package[it.material] + 5 * it.parts >= it.exact
    /\ (it.packages - 1) * Package[it.material] < it.exact + 5 * it.parts
Fit(t) ==
    /\ DOMAIN t = RequestFields
    /\ t.left \in Nat /\ t.calls \in Nat /\ t.calls + t.left = MaxCatalogCalls
    /\ Warnings(t.owed) \subseteq t.warned
    /\ FitCards(t)
    /\ \A k \in DOMAIN t.bought : BuysEnough(t.bought[k])
    /\ IsFiniteSet(t.ungrounded) /\ t.ungrounded \subseteq Terms
    /\ t.mode \in {"customer", "counter"} /\ t.warned \subseteq Risks
\* It is at the same point of its turn.
SamePoint(u, t) == u.phase = t.phase /\ u.todo = t.todo /\ u.turn = t.turn
\* It runs a tool that is left of its turn, or is in a turn that it has, or it is done.
Paced(t) ==
    /\ t.phase \in {"model", "tools", "answered"}
    /\ t.turn \in 0 .. MaxTurns /\ t.todo \in 0 .. MaxToolUses
    /\ t.phase # "answered" => t.turn < MaxTurns
    /\ t.phase = "tools" => t.todo > 0
Kept(t, themes) ==
    t.phase = "answered" =>
        \A w \in t.ungrounded : w \in themes \union Personal \/ Cardinality(themes) >= MaxThemes
AliceInv == /\ talk = Idle \/ (Fit(talk) /\ Kept(talk, gaps) /\ Paced(talk))
            /\ IsFiniteSet(gaps) /\ gaps \subseteq Terms

\* What a map gives of a finite set is finite.
LEMMA ImageIsFinite ==
    ASSUME NEW S, IsFiniteSet(S), NEW f
    PROVE  IsFiniteSet({f[x] : x \in S})
<1> DEFINE T == {f[x] : x \in S}
           g == [x \in S |-> f[x]]
<1>1. g \in Surjection(S, T)
    BY DEF Surjection
<1> QED
    BY <1>1, FS_Surjection

\* Values that are small add up to little.
LEMMA SumOfLittle ==
    ASSUME NEW S, IsFiniteSet(S), NEW f, \A x \in S : f[x] \in -5 .. 5
    PROVE  SumOver(f, S) \in -(5 * Cardinality(S)) .. 5 * Cardinality(S)
<1> DEFINE P == {n \in Nat : \A s \in SUBSET S : Cardinality(s) = n => SumOver(f, s) \in -(5 * n) .. 5 * n}
<1>0. SumOver(f, {}) = 0
    BY SumFirst
<1>1. ASSUME NEW n \in Nat, \A m \in Nat : m < n => m \in P
      PROVE  n \in P
  <2> SUFFICES ASSUME NEW s \in SUBSET S, Cardinality(s) = n PROVE SumOver(f, s) \in -(5 * n) .. 5 * n
      OBVIOUS
  <2>1. CASE s = {}
    BY <1>0, <2>1
  <2>2. CASE s # {}
    <3> DEFINE r == s \ {First(s)}
    <3>1. /\ r \in SUBSET S /\ Cardinality(r) \in Nat
          /\ Cardinality(r) < n /\ IsFiniteSet(s) /\ First(s) \in s
      BY <2>2, Parts
    <3>2. SumOver(f, r) \in -(5 * Cardinality(r)) .. 5 * Cardinality(r) /\ f[First(s)] \in -5 .. 5
      BY <1>1, <3>1
    <3>3. SumOver(f, s) = f[First(s)] + SumOver(f, r)
      BY <2>2, <3>1, SumFirst
    <3> HIDE DEF r
    <3> QED
      BY <3>1, <3>2, <3>3
  <2> QED
    BY <2>1, <2>2
<1>2. \A n \in Nat : n \in P
  <2> HIDE DEF P
  <2> QED
    BY <1>1, Everywhere
<1> QED
    BY <1>2, FS_CardinalityType

\* The packages for a quantity hold it, and one less does not.
LEMMA PackagesHold ==
    ASSUME NEW q \in Nat, NEW c \in Nat \ {0}
    PROVE  /\ Embalagens(q, c) \in Nat
           /\ Embalagens(q, c) * c >= q
           /\ (Embalagens(q, c) - 1) * c < q \/ Embalagens(q, c) = 0
<1>1. CASE q = 0
    BY <1>1 DEF Embalagens
<1>2. CASE q > 0
  <2> DEFINE a == q + c - 1
             n == a \div c
             r == a % c
  <2>1. a \in Nat /\ n \in Nat /\ r \in 0 .. c - 1 /\ a = c * n + r
    BY <1>2
  <2>2. Embalagens(q, c) = n
    BY <1>2 DEF Embalagens
  <2>3. n * c = c * n /\ (n - 1) * c = c * n - c
    BY <2>1
  <2> HIDE DEF n, r
  <2> QED
    BY <2>1, <2>2, <2>3
<1> QED
    BY <1>1, <1>2

\* A quantity is rounded by no more than five.
LEMMA RoundedByFive == \A q \in Nat : Arred(q) \in Nat /\ Arred(q) - q \in -5 .. 5
    BY DEF Arred

\* A call to the catalogue costs one of the budget.
LEMMA SpendKeeps ==
    ASSUME NEW t, Fit(t), t.left > 0
    PROVE  Fit(Spend(t)) /\ SamePoint(Spend(t), t)
    BY AliceAssumption DEF Spend, Fit, FitCards, SeesCost, RequestFields, SamePoint

\* A search per material, within what is left.
LEMMA SearchedKeeps ==
    ASSUME NEW t, Fit(t), NEW n \in Nat, n <= t.left
    PROVE  Fit(Searched(t, n)) /\ SamePoint(Searched(t, n), t)
    BY AliceAssumption DEF Searched, Fit, FitCards, SeesCost, RequestFields, SamePoint

\* What could not be grounded is one thing more.
LEMMA UngroundedKeeps ==
    ASSUME NEW t, Fit(t), NEW ws, IsFiniteSet(ws), ws \subseteq Terms
    PROVE  Fit(Ungrounded(t, ws)) /\ SamePoint(Ungrounded(t, ws), t)
<1>1. IsFiniteSet(t.ungrounded \union ws)
    BY FS_Union DEF Fit
<1> QED
    BY <1>1 DEF Ungrounded, Fit, FitCards, SeesCost, RequestFields, SamePoint

\* Who is told of a job is warned of its risks.
LEMMA ToldKeeps ==
    ASSUME NEW t, Fit(t), NEW js
    PROVE  Fit(Told(t, js)) /\ SamePoint(Told(t, js), t)
<1>1. Warnings(t.owed \union RisksOf(js)) \subseteq t.warned \union Warnings(RisksOf(js))
    BY DEF Fit, Warnings
<1>2. t.warned \union Warnings(RisksOf(js)) \subseteq Risks
    BY DEF Fit, Warnings, Risks
<1> QED
    BY <1>1, <1>2 DEF Told, Fit, FitCards, SeesCost, RequestFields, SamePoint

\* A list that buys enough.
LEMMA BoughtKeeps ==
    ASSUME NEW t, Fit(t), NEW list, \A k \in DOMAIN list : BuysEnough(list[k])
    PROVE  /\ Fit([t EXCEPT !.bought = list])
           /\ SamePoint([t EXCEPT !.bought = list], t)
    BY DEF Fit, FitCards, SeesCost, RequestFields, SamePoint

\* A card of a product that has none, whose cost a customer does not see.
LEMMA CardsKeep ==
    ASSUME NEW t, Fit(t), NEW ps, ps \subseteq DOMAIN Catalogue, NEW costs
    PROVE  Fit(AddProducts(t, ps, costs)) /\ SamePoint(AddProducts(t, ps, costs), t)
<1> DEFINE new == [p \in ps |-> [product |-> p, cost |-> p \in costs /\ SeesCost(t)]]
           fresh == ps \ {c.product : c \in t.cards}
           cards == t.cards \union {[product |-> p, cost |-> p \in costs /\ SeesCost(t)] : p \in fresh}
           u == [t EXCEPT !.cards = cards]
<1>1. AddProducts(t, ps, costs) = u
    BY DEF AddProducts
<1>2. \A c \in cards : c \in t.cards \/ \E p \in fresh : c = [product |-> p, cost |-> p \in costs /\ SeesCost(t)]
    OBVIOUS
<1>3. \A c \in cards : c = [product |-> c.product, cost |-> c.cost] /\ (c.cost => SeesCost(t))
  <2> SUFFICES ASSUME NEW c \in cards
               PROVE  c = [product |-> c.product, cost |-> c.cost] /\ (c.cost => SeesCost(t))
      OBVIOUS
  <2>1. CASE c \in t.cards
    BY <2>1 DEF Fit, FitCards
  <2>2. ASSUME NEW p \in fresh, c = [product |-> p, cost |-> p \in costs /\ SeesCost(t)]
        PROVE  c = [product |-> c.product, cost |-> c.cost] /\ (c.cost => SeesCost(t))
    BY <2>2, Zenon
  <2> QED
    BY <1>2, <2>1, <2>2
<1>4. \A c, d \in cards : c.product = d.product => c = d
  <2>1. \A c \in cards : c \notin t.cards => /\ c.product \in fresh
                                            /\ c = [product |-> c.product, cost |-> c.product \in costs /\ SeesCost(t)]
    <3> SUFFICES ASSUME NEW c \in cards, c \notin t.cards
                 PROVE  /\ c.product \in fresh
                        /\ c = [product |-> c.product, cost |-> c.product \in costs /\ SeesCost(t)]
        OBVIOUS
    <3>1. PICK p \in fresh : c = [product |-> p, cost |-> p \in costs /\ SeesCost(t)]
      BY <1>2
    <3>2. c.product = p
      BY <3>1, Zenon
    <3> QED
      BY <3>1, <3>2
  <2>2. \A c \in t.cards : c.product \notin fresh
    OBVIOUS
  <2> HIDE DEF cards, fresh
  <2> QED
    BY <2>1, <2>2 DEF Fit, FitCards
<1>5. DOMAIN u = RequestFields /\ u.cards = cards /\ u.mode = t.mode /\ u.phase = t.phase
      /\ u.todo = t.todo /\ u.turn = t.turn
      /\ u.left = t.left /\ u.calls = t.calls /\ u.warned = t.warned /\ u.owed = t.owed
      /\ u.ungrounded = t.ungrounded /\ u.bought = t.bought
  <2> HIDE DEF cards
  <2> QED
    BY DEF Fit, RequestFields
<1>7. \A c \in cards : c.product \in DOMAIN Catalogue /\ c.cost \in BOOLEAN
  <2> SUFFICES ASSUME NEW c \in cards PROVE c.product \in DOMAIN Catalogue /\ c.cost \in BOOLEAN
      OBVIOUS
  <2>1. CASE c \in t.cards
    BY <2>1 DEF Fit, FitCards
  <2>2. ASSUME NEW p \in fresh, c = [product |-> p, cost |-> p \in costs /\ SeesCost(t)]
        PROVE  c.product \in DOMAIN Catalogue /\ c.cost \in BOOLEAN
    <3> DEFINE shown == p \in costs /\ SeesCost(t)
    <3>1. shown \in BOOLEAN /\ p \in DOMAIN Catalogue
      OBVIOUS
    <3> HIDE DEF shown
    <3>2. c = [product |-> p, cost |-> shown]
      BY <2>2 DEF shown
    <3> QED
      BY <3>1, <3>2
  <2> QED
    BY <1>2, <2>1, <2>2
<1> HIDE DEF cards, u
<1>6. FitCards(u)
    BY <1>3, <1>4, <1>5, <1>7 DEF FitCards, SeesCost
<1> QED
    BY <1>1, <1>5, <1>6 DEF Fit, SamePoint

\* The lookups of costs stay within what is left of the budget.
LEMMA EnrichKeeps ==
    ASSUME NEW t, Fit(t), NEW ps, IsFiniteSet(ps), NEW e \in Enrich(t, ps)
    PROVE  Fit(e.talk) /\ SamePoint(e.talk, t)
<1>1. CASE ~SeesCost(t) \/ t.left = 0
    BY <1>1 DEF Enrich, SamePoint
<1>2. CASE ~(~SeesCost(t) \/ t.left = 0)
  <2> DEFINE n == IF Cardinality(ps) < CostCeiling(t.left) THEN Cardinality(ps) ELSE CostCeiling(t.left)
             paid == [t EXCEPT !.calls = @ + n, !.left = IF @ < n THEN 0 ELSE @ - n]
  <2>1. n \in Nat /\ n <= t.left
    BY FS_CardinalityType, AliceAssumption DEF CostCeiling, Fit
  <2>2. e.talk = paid
    BY <1>2 DEF Enrich
  <2> HIDE DEF n
  <2>3. Fit(paid) /\ SamePoint(paid, t)
    BY <2>1, AliceAssumption DEF Fit, FitCards, SeesCost, RequestFields, SamePoint
  <2> HIDE DEF paid
  <2> QED
    BY <2>2, <2>3
<1> QED
    BY <1>1, <1>2

-----------------------------------------------------------------------------
(* The calculator *)

\* The names of a job are names of a job of the base.
LEMMA ResolvedIsKnown == \A w : Resolve(w) \subseteq DOMAIN Jobs
    BY AliceAssumption DEF Resolve

\* What a use takes is a whole number of ten-thousandths.
LEMMA QuantityIsNat ==
    ASSUME NEW k \in DOMAIN Jobs, NEW d, Calculates(Jobs[k], d), NEW i \in UsesOf(Jobs[k], d)
    PROVE  /\ Quantity(Jobs[k], Jobs[k].uses[i], d) \in Nat
           /\ Jobs[k].uses[i].material \in DOMAIN Package
<1> DEFINE j == Jobs[k]
           c == Jobs[k].uses[i]
<1>1. c.per \in Nat /\ c.material \in DOMAIN Package
    BY KnowledgeAssumption DEF KnowledgeAssumption, UsesOf
<1>2. /\ d.area \in Nat /\ d.length \in Nat /\ d.height \in Nat /\ d.perimeter \in Nat
      /\ d.thickness \in Nat /\ d.coats \in Nat
  <2>1. \A m \in DOMAIN Limits : d[m] \in 0 .. Limits[m]
    BY DEF Calculates, Validar
  <2>2. /\ DOMAIN Limits = {"area", "length", "height", "perimeter", "thickness", "coats"}
        /\ \A m \in DOMAIN Limits : Limits[m] \in Nat
    BY AliceAssumption
  <2>3. \A m \in DOMAIN Limits : d[m] \in Nat
    BY <2>1, <2>2
  <2> QED
    BY <2>2, <2>3
<1>3. GrandezaBase(j, d) \in Nat
    BY <1>2 DEF GrandezaBase
<1>4. j.base = "m3" => Thickness(j, d) \in Nat
  <2>1. j.base = "m3" => j.thickness[2] \in Nat /\ j.thickness[3] \in Nat
    BY KnowledgeAssumption DEF KnowledgeAssumption
  <2>2. j.base = "m3" => Thickness(j, d) \in j.thickness[2] .. j.thickness[3]
    BY DEF Calculates
  <2> QED
    BY <2>1, <2>2
<1>5. Base(j, c, d) \in Nat
    BY <1>3, <1>4 DEF Base
<1>6. Coats(j, d) \in Nat
    BY <1>2 DEF Coats
<1>7. Overridden(c, d) \in Nat
    BY AliceAssumption DEF Overridden
<1> HIDE DEF j, c
<1>8. Quantity(j, c, d) \in Nat
    BY <1>1, <1>5, <1>6, <1>7 DEF Quantity
<1> QED
    BY <1>1, <1>8 DEF j, c

\* The items of one job buy enough of every material, and no package more.
LEMMA CalculatedBuysEnough ==
    ASSUME NEW k \in DOMAIN Jobs, NEW d, Calculates(Jobs[k], d)
    PROVE  /\ DOMAIN Calcular(Jobs[k], d) = UsesOf(Jobs[k], d) /\ IsFiniteSet(UsesOf(Jobs[k], d))
           /\ \A i \in UsesOf(Jobs[k], d) :
                 /\ BuysEnough(Calcular(Jobs[k], d)[i])
                 /\ Calcular(Jobs[k], d)[i].exact \in Nat
                 /\ Calcular(Jobs[k], d)[i].material \in DOMAIN Package
<1>1. DOMAIN Calcular(Jobs[k], d) = UsesOf(Jobs[k], d)
    BY DEF Calcular
<1>2. IsFiniteSet(UsesOf(Jobs[k], d))
  <2>1. UsesOf(Jobs[k], d) \subseteq DOMAIN Jobs[k].uses /\ IsFiniteSet(DOMAIN Jobs[k].uses)
    BY KnowledgeAssumption DEF KnowledgeAssumption, UsesOf
  <2> QED
    BY <2>1, FS_Subset
<1>3. ASSUME NEW i \in UsesOf(Jobs[k], d)
      PROVE  /\ BuysEnough(Calcular(Jobs[k], d)[i])
             /\ Calcular(Jobs[k], d)[i].exact \in Nat
             /\ Calcular(Jobs[k], d)[i].material \in DOMAIN Package
  <2> DEFINE q == Quantity(Jobs[k], Jobs[k].uses[i], d)
             m == Jobs[k].uses[i].material
             n == Embalagens(q, Package[m])
  <2>1. q \in Nat /\ m \in DOMAIN Package /\ Package[m] \in Nat \ {0}
    BY QuantityIsNat, AliceAssumption
  <2>2. Calcular(Jobs[k], d)[i] = [material |-> m, exact |-> q, parts |-> 0, packages |-> n]
    BY DEF Calcular
  <2> HIDE DEF q, m
  <2>3. n \in Nat /\ n * Package[m] >= q /\ ((n - 1) * Package[m] < q \/ n = 0)
    BY <2>1, PackagesHold
  <2> HIDE DEF n
  <2>4. (n - 1) * Package[m] < q
    BY <2>1, <2>3
  <2> QED
    BY <2>1, <2>2, <2>3, <2>4 DEF BuysEnough
<1> QED
    BY <1>1, <1>2, <1>3

\* The items of some jobs are finitely many.
LEMMA ItemsAreFinite ==
    ASSUME NEW results, IsFiniteSet(DOMAIN results),
           \A i \in DOMAIN results : IsFiniteSet(DOMAIN results[i])
    PROVE  IsFiniteSet(ItemsOf(results))
<1> DEFINE Of(i) == {<<i, k>> : k \in DOMAIN results[i]}
           f == [i \in DOMAIN results |-> Of(i)]
<1>1. ASSUME NEW i \in DOMAIN results PROVE IsFiniteSet(Of(i))
  <2> DEFINE g == [k \in DOMAIN results[i] |-> <<i, k>>]
             T == {g[k] : k \in DOMAIN results[i]}
  <2>1. T = Of(i)
    OBVIOUS
  <2>2. IsFiniteSet(T)
    <3> HIDE DEF g
    <3> QED
      BY ImageIsFinite
  <2> QED
    BY <2>1, <2>2
<1> DEFINE all == {f[i] : i \in DOMAIN results}
<1>2. all = {Of(i) : i \in DOMAIN results}
    OBVIOUS
<1>3. IsFiniteSet(all)
  <2> HIDE DEF f
  <2> QED
    BY ImageIsFinite
<1>4. \A T \in all : IsFiniteSet(T)
    BY <1>1, <1>2
<1>5. ItemsOf(results) = UNION all
    BY <1>2 DEF ItemsOf
<1> HIDE DEF all
<1> QED
    BY <1>3, <1>4, <1>5, FS_UNION

\* The list of several jobs buys enough of every material, and no package more, but for
\* the thousandths their quantities were rounded by.
LEMMA ListOfJobsBuysEnough ==
    ASSUME NEW results, IsFiniteSet(DOMAIN results),
           \A i \in DOMAIN results :
               /\ IsFiniteSet(DOMAIN results[i])
               /\ \A k \in DOMAIN results[i] : /\ results[i][k].exact \in Nat
                                               /\ results[i][k].material \in DOMAIN Package
    PROVE  /\ IsFiniteSet(DOMAIN Consolidar(results))
           /\ \A m \in DOMAIN Consolidar(results) : BuysEnough(Consolidar(results)[m])
<1> DEFINE items == ItemsOf(results)
           exact == [x \in items |-> results[x[1]][x[2]].exact]
           rounded == [x \in items |-> Arred(exact[x])]
           off == [x \in items |-> rounded[x] - exact[x]]
           of == [x \in items |-> results[x[1]][x[2]].material]
           Of(m) == {x \in items : of[x] = m}
           materials == {of[x] : x \in items}
<1>1. IsFiniteSet(items)
    BY ItemsAreFinite
<1>2. \A x \in items : x[1] \in DOMAIN results /\ x[2] \in DOMAIN results[x[1]]
    BY DEF ItemsOf
<1>3. \A x \in items : /\ exact[x] \in Nat /\ rounded[x] \in Nat /\ off[x] = rounded[x] - exact[x]
                       /\ off[x] \in -5 .. 5 /\ of[x] \in DOMAIN Package
    BY <1>2, RoundedByFive
<1>4. DOMAIN Consolidar(results) = materials
    BY DEF Consolidar
<1>5. \A m \in materials : Consolidar(results)[m] =
          [material |-> m, exact |-> SumOver(exact, Of(m)), parts |-> Cardinality(Of(m)),
           packages |-> Embalagens(SumOver(rounded, Of(m)), Package[m])]
  <2>1. \A m : Of(m) = {x \in items : results[x[1]][x[2]].material = m}
    OBVIOUS
  <2> QED
    BY <2>1 DEF Consolidar
<1> HIDE DEF items, exact, rounded, off, of
<1>6. IsFiniteSet(materials)
    BY <1>1, ImageIsFinite
<1>7. ASSUME NEW m \in materials PROVE BuysEnough(Consolidar(results)[m])
  <2> DEFINE E == SumOver(exact, Of(m))
             R == SumOver(rounded, Of(m))
             p == Cardinality(Of(m))
             n == Embalagens(R, Package[m])
  <2>1. IsFiniteSet(Of(m)) /\ p \in Nat
    BY <1>1, FS_Subset, FS_CardinalityType
  <2>2. Package[m] \in Nat \ {0}
    BY <1>3, AliceAssumption
  <2>3. R - E \in -(5 * p) .. 5 * p
    BY <1>3, <2>1, SumOfLittle, SumOfDifference
  <2>4. E \in Nat /\ R \in Nat
    BY <1>3, <2>1, SumOfPart
  <2>5. Consolidar(results)[m] = [material |-> m, exact |-> E, parts |-> p, packages |-> n]
    BY <1>5
  <2> HIDE DEF E, R, p, Of, materials
  <2>6. n \in Nat /\ n * Package[m] >= R /\ ((n - 1) * Package[m] < R \/ n = 0)
    BY <2>2, <2>4, PackagesHold
  <2> HIDE DEF n
  <2>7. n * Package[m] + 5 * p >= E
    <3> DEFINE h == n * Package[m]
    <3>1. h \in Nat
      BY <2>2, <2>6
    <3> HIDE DEF h
    <3> QED
      BY <2>1, <2>3, <2>4, <2>6, <3>1 DEF h
  <2>8. (n - 1) * Package[m] < E + 5 * p
    <3>1. CASE n = 0
      <4>1. (n - 1) * Package[m] < 0
        BY <2>2, <3>1
      <4> QED
        BY <2>1, <2>2, <2>4, <3>1, <4>1
    <3>2. CASE n # 0
      <4> DEFINE h == (n - 1) * Package[m]
      <4>1. h \in Nat /\ h < R
        BY <2>2, <2>6, <3>2
      <4> HIDE DEF h
      <4>2. h < E + 5 * p
        BY <2>1, <2>3, <2>4, <4>1
      <4> QED
        BY <4>2 DEF h
    <3> QED
      BY <3>1, <3>2
  <2> QED
    BY <2>5, <2>7, <2>8 DEF BuysEnough
<1> QED
    BY <1>4, <1>6, <1>7

-----------------------------------------------------------------------------
(* The tools of Alice *)

\* What a tool leaves of a request is one that fits, at the same point of its turn.
AllFit(t, outcomes) == \A u \in outcomes : Fit(u) /\ SamePoint(u, t)

\* One product looked for after another stays within the budget.
LEMMA ProductsFoundFit ==
    ASSUME NEW t, Fit(t), NEW materials \in Nat, NEW wanted
    PROVE  AllFit(t, FindProducts(t, materials, wanted))
<1> SUFFICES ASSUME NEW u \in FindProducts(t, materials, wanted) PROVE Fit(u) /\ SamePoint(u, t)
    BY DEF AllFit
<1> DEFINE all == IF t.left < materials THEN t.left ELSE materials
<1>1. PICK n \in 0 .. all, ps \in SUBSET DOMAIN Catalogue : u = AddProducts(Searched(t, n), ps, {})
    BY DEF FindProducts
<1>2. n \in Nat /\ n <= t.left
    BY DEF Fit
<1>3. Fit(Searched(t, n)) /\ SamePoint(Searched(t, n), t)
    BY <1>2, SearchedKeeps
<1> QED
    BY <1>1, <1>3, CardsKeep DEF SamePoint

\* What is found and enriched with its costs.
LEMMA EnrichedFit ==
    ASSUME NEW t, Fit(t), NEW ps, IsFiniteSet(ps), ps \subseteq DOMAIN Catalogue
    PROVE  AllFit(t, {AddProducts(e.talk, ps, e.costs) : e \in Enrich(t, ps)})
<1> SUFFICES ASSUME NEW e \in Enrich(t, ps)
             PROVE  /\ Fit(AddProducts(e.talk, ps, e.costs))
                    /\ SamePoint(AddProducts(e.talk, ps, e.costs), t)
    BY DEF AllFit
<1>1. Fit(e.talk) /\ SamePoint(e.talk, t)
    BY EnrichKeeps
<1> QED
    BY <1>1, CardsKeep DEF SamePoint

\* A search for a word.
LEMMA SearchFits ==
    ASSUME NEW t, Fit(t), NEW w \in Terms
    PROVE  AllFit(t, SearchProducts(t, w))
<1>1. CASE t.left = 0
    BY <1>1 DEF SearchProducts, AllFit, SamePoint
<1>2. CASE t.left # 0
  <2>1. Fit(Spend(t)) /\ SamePoint(Spend(t), t)
    BY <1>2, SpendKeeps DEF Fit
  <2>2. Fit(Ungrounded(Spend(t), {w})) /\ SamePoint(Ungrounded(Spend(t), {w}), t)
    <3>1. IsFiniteSet({w}) /\ {w} \subseteq Terms
      BY FS_Singleton
    <3> QED
      BY <2>1, <3>1, UngroundedKeeps DEF SamePoint
  <2>3. ASSUME NEW ps \in SUBSET DOMAIN Catalogue \ {{}}
        PROVE  AllFit(t, {AddProducts(e.talk, ps, e.costs) : e \in Enrich(Spend(t), ps)})
    <3>1. IsFiniteSet(ps)
      BY FS_Subset, AliceAssumption
    <3> QED
      BY <2>1, <3>1, EnrichedFit DEF AllFit, SamePoint
  <2> QED
    BY <1>2, <2>1, <2>2, <2>3 DEF SearchProducts, AllFit
<1> QED
    BY <1>1, <1>2

\* One product, opened.
LEMMA GetFits ==
    ASSUME NEW t, Fit(t)
    PROVE  AllFit(t, GetProduct(t))
<1>1. CASE t.left = 0
    BY <1>1 DEF GetProduct, AllFit, SamePoint
<1>2. CASE t.left # 0
  <2>1. Fit(Spend(t)) /\ SamePoint(Spend(t), t)
    BY <1>2, SpendKeeps DEF Fit
  <2>2. ASSUME NEW p \in DOMAIN Catalogue
        PROVE  AllFit(t, {AddProducts(e.talk, {p}, e.costs) : e \in Enrich(Spend(t), {p})})
    <3>1. IsFiniteSet({p}) /\ {p} \subseteq DOMAIN Catalogue
      BY FS_Singleton
    <3>2. AllFit(Spend(t), {AddProducts(e.talk, {p}, e.costs) : e \in Enrich(Spend(t), {p})})
      BY <2>1, <3>1, EnrichedFit
    <3> QED
      BY <2>1, <3>2 DEF AllFit, SamePoint
  <2> QED
    BY <1>2, <2>1, <2>2 DEF GetProduct, AllFit
<1> QED
    BY <1>1, <1>2

\* The categories of the store.
LEMMA CategoriesFit ==
    ASSUME NEW t, Fit(t)
    PROVE  AllFit(t, ListCategories(t))
<1>1. t.left # 0 => Fit(Spend(t)) /\ SamePoint(Spend(t), t)
    BY SpendKeeps DEF Fit
<1> QED
    BY <1>1 DEF ListCategories, AllFit, SamePoint

\* How a job is done, of every job that the name may be.
LEMMA ExplanationFits ==
    ASSUME NEW t, Fit(t), NEW w \in Terms
    PROVE  AllFit(t, ExplainJob(t, w))
<1>1. Fit(Ungrounded(t, {w})) /\ SamePoint(Ungrounded(t, {w}), t)
    BY UngroundedKeeps, FS_Singleton
<1>2. \A j : Fit(Told(t, {j})) /\ SamePoint(Told(t, {j}), t)
    BY ToldKeeps
<1> QED
    BY <1>1, <1>2 DEF ExplainJob, AllFit

\* What a job takes, with the products that the store has for it or without.
LEMMA CalculationFits ==
    ASSUME NEW t, Fit(t), NEW w \in Terms, NEW d, NEW priced
    PROVE  AllFit(t, CalculateMaterial(t, w, d, priced))
<1> SUFFICES ASSUME NEW u \in CalculateMaterial(t, w, d, priced) PROVE Fit(u) /\ SamePoint(u, t)
    BY DEF AllFit
<1>1. CASE Resolve(w) = {}
  <2>1. Fit(Ungrounded(t, {w})) /\ SamePoint(Ungrounded(t, {w}), t)
    BY UngroundedKeeps, FS_Singleton
  <2> QED
    BY <1>1, <2>1 DEF CalculateMaterial
<1>2. CASE Resolve(w) # {}
  <2> DEFINE told(j) == [Told(t, {j}) EXCEPT !.bought = Calcular(Jobs[j], d)]
  <2>1. PICK j \in Resolve(w) :
            u \in IF ~Calculates(Jobs[j], d) THEN {Told(t, {j})}
                  ELSE IF priced THEN FindProducts(told(j), Cardinality(UsesOf(Jobs[j], d)), MaxMapped)
                       ELSE {told(j)}
    BY <1>2 DEF CalculateMaterial
  <2>2. j \in DOMAIN Jobs /\ Fit(Told(t, {j})) /\ SamePoint(Told(t, {j}), t)
    BY ResolvedIsKnown, ToldKeeps
  <2>3. CASE ~Calculates(Jobs[j], d)
    BY <2>1, <2>2, <2>3
  <2>4. CASE Calculates(Jobs[j], d)
    <3>1. /\ \A i \in DOMAIN Calcular(Jobs[j], d) : BuysEnough(Calcular(Jobs[j], d)[i])
          /\ IsFiniteSet(UsesOf(Jobs[j], d))
      BY <2>2, <2>4, CalculatedBuysEnough
    <3>2. Fit(told(j)) /\ SamePoint(told(j), t)
      BY <2>2, <3>1, BoughtKeeps DEF SamePoint
    <3>3. Cardinality(UsesOf(Jobs[j], d)) \in Nat
      BY <3>1, FS_CardinalityType
    <3> HIDE DEF told
    <3>4. AllFit(told(j), FindProducts(told(j), Cardinality(UsesOf(Jobs[j], d)), MaxMapped))
      BY <3>2, <3>3, ProductsFoundFit
    <3> QED
      BY <2>1, <2>4, <3>2, <3>4 DEF AllFit, SamePoint
  <2> QED
    BY <2>3, <2>4
<1> QED
    BY <1>1, <1>2

\* The list of several works, of those that are known and can be calculated.
LEMMA ListFits ==
    ASSUME NEW t, Fit(t), NEW asks \in Lists
    PROVE  AllFit(t, ListOfWorks(t, asks))
<1> SUFFICES ASSUME NEW u \in ListOfWorks(t, asks) PROVE Fit(u) /\ SamePoint(u, t)
    BY DEF AllFit
<1> DEFINE kept == {i \in DOMAIN asks : i <= MaxListed}
           known == {i \in kept : Resolve(asks[i].word) # {}}
           choices == {f \in [known -> DOMAIN Jobs] : \A i \in known : f[i] \in Resolve(asks[i].word)}
           Done(f) == {i \in known : Calculates(Jobs[f[i]], asks[i].dims)}
           missed == {asks[i].word : i \in kept \ known}
           Heard(f) == Told(Ungrounded(t, missed), {f[i] : i \in known})
           Each(f) == [i \in Done(f) |-> Calcular(Jobs[f[i]], asks[i].dims)]
           Summed(f) == Consolidar(Each(f))
           Listed(f) == [Heard(f) EXCEPT !.bought = Summed(f)]
<1>1. PICK f \in choices : u \in IF Done(f) = {} THEN {Heard(f)}
                                 ELSE FindProducts(Listed(f), Cardinality(DOMAIN Summed(f)), MaxMapped)
    BY DEF ListOfWorks
<1>2. IsFiniteSet(Done(f)) /\ IsFiniteSet(kept \ known) /\ DOMAIN Each(f) = Done(f)
  <2>1. IsFiniteSet(DOMAIN asks)
    BY AliceAssumption
  <2> QED
    BY <2>1, FS_Subset
<1>3. Fit(Heard(f)) /\ SamePoint(Heard(f), t)
  <2> DEFINE words == [i \in kept \ known |-> asks[i].word]
             T == {words[i] : i \in kept \ known}
  <2>1. T = missed
    OBVIOUS
  <2>2. IsFiniteSet(T)
    <3> HIDE DEF words, kept, known
    <3> QED
      BY <1>2, ImageIsFinite
  <2>3. IsFiniteSet(missed) /\ missed \subseteq Terms
    BY <2>1, <2>2, AliceAssumption
  <2> HIDE DEF missed
  <2>4. Fit(Ungrounded(t, missed)) /\ SamePoint(Ungrounded(t, missed), t)
    BY <2>3, UngroundedKeeps
  <2> QED
    BY <2>4, ToldKeeps DEF SamePoint
<1>4. \A i \in DOMAIN Each(f) :
         /\ IsFiniteSet(DOMAIN Each(f)[i])
         /\ \A k \in DOMAIN Each(f)[i] : /\ Each(f)[i][k].exact \in Nat
                                         /\ Each(f)[i][k].material \in DOMAIN Package
  <2> SUFFICES ASSUME NEW i \in Done(f)
               PROVE  /\ IsFiniteSet(DOMAIN Each(f)[i])
                      /\ \A k \in DOMAIN Each(f)[i] : /\ Each(f)[i][k].exact \in Nat
                                                      /\ Each(f)[i][k].material \in DOMAIN Package
      OBVIOUS
  <2>1. f[i] \in DOMAIN Jobs /\ Calculates(Jobs[f[i]], asks[i].dims)
    OBVIOUS
  <2>2. Each(f)[i] = Calcular(Jobs[f[i]], asks[i].dims)
    OBVIOUS
  <2> HIDE DEF Each, Done
  <2> QED
    BY <2>1, <2>2, CalculatedBuysEnough
<1> HIDE DEF Each, Done, Heard
<1>5. IsFiniteSet(DOMAIN Summed(f)) /\ \A m \in DOMAIN Summed(f) : BuysEnough(Summed(f)[m])
    BY <1>2, <1>4, ListOfJobsBuysEnough
<1> HIDE DEF Summed
<1>6. Fit(Listed(f)) /\ SamePoint(Listed(f), t)
    BY <1>3, <1>5, BoughtKeeps DEF SamePoint
<1> HIDE DEF Listed
<1>7. AllFit(Listed(f), FindProducts(Listed(f), Cardinality(DOMAIN Summed(f)), MaxMapped))
    BY <1>5, <1>6, FS_CardinalityType, ProductsFoundFit
<1> QED
    BY <1>1, <1>3, <1>6, <1>7 DEF AllFit, SamePoint

\* What a job takes besides.
LEMMA ComplementsFit ==
    ASSUME NEW t, Fit(t), NEW w \in Terms
    PROVE  AllFit(t, SuggestComplements(t, w))
<1>1. Fit(Ungrounded(t, {w})) /\ SamePoint(Ungrounded(t, {w}), t)
    BY UngroundedKeeps, FS_Singleton
<1>2. ASSUME NEW j \in Resolve(w)
      PROVE  AllFit(t, FindProducts(t, Cardinality(DOMAIN Jobs[j].uses), MaxComplements))
  <2>1. IsFiniteSet(DOMAIN Jobs[j].uses)
    BY ResolvedIsKnown, KnowledgeAssumption DEF KnowledgeAssumption
  <2> QED
    BY <2>1, FS_CardinalityType, ProductsFoundFit
<1> QED
    BY <1>1, <1>2 DEF SuggestComplements, AllFit

\* Another product than one.
LEMMA AlternativesFit ==
    ASSUME NEW t, Fit(t), NEW motive
    PROVE  AllFit(t, SuggestAlternatives(t, motive))
<1> SUFFICES ASSUME NEW u \in SuggestAlternatives(t, motive) PROVE Fit(u) /\ SamePoint(u, t)
    BY DEF AllFit
<1>1. CASE t.left = 0
    BY <1>1 DEF SuggestAlternatives, SamePoint
<1>2. CASE t.left # 0
  <2>1. Fit(Spend(t)) /\ SamePoint(Spend(t), t)
    BY <1>2, SpendKeeps DEF Fit
  <2>2. CASE u = Spend(t)
    BY <2>1, <2>2
  <2>3. CASE u # Spend(t)
    <3> DEFINE seen(p) == AddProducts(Spend(t), {p}, {})
    <3>1. PICK ref \in DOMAIN Catalogue, ps \in SUBSET DOMAIN Catalogue :
              u = IF seen(ref).left = 0 THEN seen(ref) ELSE AddProducts(Spend(seen(ref)), ps, {})
      BY <1>2, <2>3 DEF SuggestAlternatives
    <3>2. Fit(seen(ref)) /\ SamePoint(seen(ref), t)
      BY <2>1, CardsKeep DEF SamePoint
    <3> HIDE DEF seen
    <3>3. seen(ref).left # 0 => Fit(Spend(seen(ref))) /\ SamePoint(Spend(seen(ref)), t)
      BY <3>2, SpendKeeps DEF Fit, SamePoint
    <3> QED
      BY <3>1, <3>2, <3>3, CardsKeep DEF SamePoint
  <2> QED
    BY <2>2, <2>3
<1> QED
    BY <1>1, <1>2

\* What the library has to say.
LEMMA CitationsFit ==
    ASSUME NEW t, Fit(t), NEW w \in Terms
    PROVE  AllFit(t, CiteDocuments(t, w))
<1>1. Fit(Ungrounded(t, {w})) /\ SamePoint(Ungrounded(t, {w}), t)
    BY UngroundedKeeps, FS_Singleton
<1> QED
    BY <1>1 DEF CiteDocuments, AllFit, SamePoint

-----------------------------------------------------------------------------
(* The conversation *)

\* The registry keeps what it has, and takes every theme that is not personal, or as
\* many as fill it.
LEMMA RegistryKeeps ==
    ASSUME NEW themes, IsFiniteSet(themes), NEW ws, IsFiniteSet(ws), NEW g \in Registrar(themes, ws)
    PROVE  /\ IsFiniteSet(g) /\ g \subseteq themes \union ws
           /\ \A w \in ws : w \in g \union Personal \/ Cardinality(g) >= MaxThemes
<1> DEFINE new == {w \in ws : w \notin Personal \union themes}
           room == MaxThemes - Cardinality(themes)
<1>1. PICK k \in SUBSET new : /\ g = themes \union k
                              /\ \/ k = new
                                 \/ Cardinality(k) = room
    BY DEF Registrar
<1>2. IsFiniteSet(k) /\ IsFiniteSet(g)
    BY <1>1, FS_Subset, FS_Union
<1>3. CASE k = new
    BY <1>1, <1>2, <1>3
<1>4. CASE Cardinality(k) = room
  <2>1. themes \intersect k = {}
    OBVIOUS
  <2>2. Cardinality(g) = Cardinality(themes) + Cardinality(k) - Cardinality(themes \intersect k)
    BY <1>1, <1>2, FS_Union
  <2>3. Cardinality(g) = MaxThemes
    <3>1. /\ Cardinality(themes) \in Nat /\ Cardinality(themes \intersect k) = 0
          /\ Cardinality(k) \in Nat /\ MaxThemes \in Nat
      BY <1>2, <2>1, FS_EmptySet, FS_CardinalityType, AliceAssumption
    <3> QED
      BY <1>4, <2>2, <3>1
  <2>4. Cardinality(g) >= MaxThemes
    BY <2>3, AliceAssumption
  <2>5. g \subseteq themes \union ws
    BY <1>1
  <2> QED
    BY <1>2, <2>4, <2>5
<1> QED
    BY <1>1, <1>3, <1>4

\* After one of its tools a request still fits, and it is not answered.
LEMMA AfterFits ==
    ASSUME NEW t, Fit(t), t.phase # "answered"
    PROVE  Fit(After(t)) /\ After(t).phase # "answered"
    BY DEF After, Fit, FitCards, SeesCost, RequestFields

\* It is in its next turn, or the request is done.
LEMMA AfterPaces ==
    ASSUME NEW t, Fit(t), Paced(t), t.phase = "tools"
    PROVE  /\ After(t).turn \in 0 .. MaxTurns
           /\ After(t).turn # MaxTurns => Paced(After(t))
<1>1. MaxTurns \in Nat /\ MaxToolUses \in Nat
    BY AliceAssumption
<1> DEFINE u == [t EXCEPT !.todo = @ - 1]
<1>2. DOMAIN u = RequestFields /\ u.todo = t.todo - 1 /\ u.turn = t.turn /\ u.phase = "tools"
    BY DEF Fit, RequestFields
<1>3. After(t) = IF u.todo > 0 THEN u ELSE [u EXCEPT !.phase = "model", !.turn = @ + 1]
    BY DEF After
<1> HIDE DEF u
<1>4. CASE u.todo > 0
    BY <1>1, <1>2, <1>3, <1>4 DEF Paced
<1>5. CASE ~(u.todo > 0)
  <2>1. After(t).phase = "model" /\ After(t).turn = t.turn + 1 /\ After(t).todo = u.todo
    BY <1>2, <1>3, <1>5 DEF RequestFields
  <2> QED
    BY <1>1, <1>2, <1>5, <2>1 DEF Paced
<1> QED
    BY <1>4, <1>5

\* An answered request fits, and its cards show a customer no cost.
LEMMA AnsweredFits ==
    ASSUME NEW t, Fit(t)
    PROVE  /\ Fit(Answered(t)) /\ Answered(t).ungrounded = t.ungrounded
           /\ Answered(t).phase = "answered" /\ Answered(t).turn = t.turn /\ Answered(t).todo = 0
<1> DEFINE no == FALSE
           Bare(c) == [c EXCEPT !.cost = no]
           cards == IF SeesCost(t) THEN t.cards ELSE {Bare(c) : c \in t.cards}
           u == [t EXCEPT !.phase = "answered", !.todo = 0, !.cards = cards]
<1>1. Answered(t) = u
    BY DEF Answered
<1>2. \A c \in t.cards : c = [product |-> c.product, cost |-> c.cost] /\ (c.cost => SeesCost(t))
    BY DEF Fit, FitCards
<1>3. \A c, d \in t.cards : c.product = d.product => c = d
    BY DEF Fit, FitCards
<1>4. ASSUME NEW c \in t.cards
      PROVE  /\ Bare(c) = [product |-> Bare(c).product, cost |-> Bare(c).cost]
             /\ Bare(c).product = c.product /\ Bare(c).cost = no
  <2> DEFINE p == c.product
             k == c.cost
  <2>1. c = [product |-> p, cost |-> k]
    BY <1>2
  <2> HIDE DEF no, p, k
  <2>2. Bare(c) = [product |-> p, cost |-> no]
    BY <2>1
  <2> QED
    BY <2>2 DEF p
<1>5. \A c \in cards : c = [product |-> c.product, cost |-> c.cost] /\ (c.cost => SeesCost(t))
  <2>1. CASE SeesCost(t)
    BY <1>2, <2>1
  <2>2. CASE ~SeesCost(t)
    <3>1. ~no
      OBVIOUS
    <3> HIDE DEF Bare, no
    <3> QED
      BY <1>4, <2>2, <3>1
  <2> QED
    BY <2>1, <2>2
<1>6. \A c, d \in cards : c.product = d.product => c = d
  <2> HIDE DEF Bare, no
  <2> QED
    BY <1>3, <1>4
<1>7. DOMAIN u = RequestFields /\ u.cards = cards /\ u.mode = t.mode
      /\ u.phase = "answered" /\ u.turn = t.turn /\ u.todo = 0
      /\ u.left = t.left /\ u.calls = t.calls /\ u.warned = t.warned /\ u.owed = t.owed
      /\ u.ungrounded = t.ungrounded /\ u.bought = t.bought
  <2> HIDE DEF cards
  <2> QED
    BY DEF Fit, RequestFields
<1>9. \A c \in cards : c.product \in DOMAIN Catalogue /\ c.cost \in BOOLEAN
  <2>1. \A c \in t.cards : c.product \in DOMAIN Catalogue /\ c.cost \in BOOLEAN
    BY DEF Fit, FitCards
  <2>2. no \in BOOLEAN
    OBVIOUS
  <2> HIDE DEF Bare, no
  <2> QED
    BY <1>4, <2>1, <2>2
<1> HIDE DEF cards, u
<1>8. FitCards(u)
    BY <1>5, <1>6, <1>7, <1>9 DEF FitCards, SeesCost
<1> QED
    BY <1>1, <1>7, <1>8 DEF Fit

\* The end of a request.
LEMMA FinishKeeps ==
    ASSUME NEW t, Fit(t), t.turn \in 0 .. MaxTurns,
           NEW themes, IsFiniteSet(themes), themes \subseteq Terms, FinishWith(themes, t)
    PROVE  AliceInv'
<1>1. IsFiniteSet(t.ungrounded) /\ t.ungrounded \subseteq Terms
    BY DEF Fit
<1>2. /\ IsFiniteSet(gaps') /\ gaps' \subseteq Terms
      /\ \A w \in t.ungrounded : w \in gaps' \union Personal \/ Cardinality(gaps') >= MaxThemes
  <2>1. PICK g \in Registrar(themes, t.ungrounded) : gaps' = g
    BY DEF FinishWith
  <2> QED
    BY <1>1, <2>1, RegistryKeeps
<1>3. talk' = Answered(t)
    BY DEF FinishWith
<1>4. /\ Fit(Answered(t)) /\ Answered(t).ungrounded = t.ungrounded
      /\ Answered(t).phase = "answered" /\ Answered(t).turn = t.turn /\ Answered(t).todo = 0
    BY AnsweredFits
<1>5. Fit(talk)'
    BY <1>3, <1>4 DEF Fit, FitCards, SeesCost
<1>6. Paced(talk)'
    BY <1>3, <1>4, AliceAssumption DEF Paced
<1>7. Kept(talk, gaps)'
    BY <1>2, <1>3, <1>4 DEF Kept
<1> QED
    BY <1>2, <1>5, <1>6, <1>7 DEF AliceInv

\* A tool is run, of what it may leave behind.
LEMMA RanKeeps ==
    ASSUME AliceInv, NEW outcomes, Fit(talk) => AllFit(talk, outcomes), Ran(outcomes)
    PROVE  AliceInv'
<1>1. /\ talk.phase = "tools" /\ Fit(talk) /\ Paced(talk)
      /\ IsFiniteSet(gaps) /\ gaps \subseteq Terms
    BY DEF AliceInv, Ran, Idle
<1>2. PICK t \in outcomes : IF After(t).turn = MaxTurns THEN FinishTalk(After(t))
                            ELSE talk' = After(t) /\ UNCHANGED gaps
    BY DEF Ran
<1>3. /\ Fit(After(t)) /\ After(t).phase # "answered" /\ After(t).turn \in 0 .. MaxTurns
      /\ After(t).turn # MaxTurns => Paced(After(t))
  <2>1. Fit(t) /\ SamePoint(t, talk)
    BY <1>1 DEF AllFit
  <2>2. Paced(t) /\ t.phase = "tools"
    BY <1>1, <2>1 DEF SamePoint, Paced
  <2> QED
    BY <2>1, <2>2, AfterFits, AfterPaces
<1>4. CASE After(t).turn = MaxTurns
    BY <1>1, <1>2, <1>3, <1>4, FinishKeeps DEF FinishTalk
<1>5. CASE After(t).turn # MaxTurns
  <2>1. talk' = After(t) /\ gaps' = gaps
    BY <1>2, <1>5
  <2>2. Fit(talk)' /\ Paced(talk)'
    BY <1>3, <1>5, <2>1 DEF Fit, FitCards, SeesCost, Paced
  <2> QED
    BY <1>1, <1>3, <2>1, <2>2 DEF AliceInv, Kept
<1> QED
    BY <1>4, <1>5

\* A question starts with the whole budget.
LEMMA AskKeeps ==
    ASSUME AliceInv, NEW b, NEW risks \in MessageRisks, Ask(b, risks)
    PROVE  AliceInv'
<1>1. /\ DOMAIN talk' = RequestFields /\ talk'.left = MaxCatalogCalls /\ talk'.calls = 0
      /\ talk'.cards = {} /\ talk'.owed = risks /\ talk'.warned = risks
      /\ talk'.bought = <<>> /\ talk'.ungrounded = {} /\ talk'.phase = "model"
      /\ talk'.mode = ModeFromClaims(b) /\ talk'.turn = 0 /\ talk'.todo = 0
    BY DEF Ask, RequestFields
<1>2. IsFiniteSet({}) /\ MaxCatalogCalls \in Nat /\ Warnings(risks) \subseteq risks /\ DOMAIN <<>> = {}
    BY FS_EmptySet, AliceAssumption DEF Warnings
<1>3. Fit(talk)'
  <2>1. risks \subseteq Risks /\ ModeFromClaims(b) \in {"customer", "counter"}
    BY AliceAssumption DEF ModeFromClaims
  <2> QED
    BY <1>1, <1>2, <2>1 DEF Fit, FitCards
<1>4. Paced(talk)'
    BY <1>1, AliceAssumption DEF Paced
<1>5. Kept(talk, gaps)'
    BY <1>1 DEF Kept
<1> QED
    BY <1>3, <1>4, <1>5 DEF AliceInv, Ask

\* The model answers, or calls some tools.
LEMMA CompleteKeeps ==
    ASSUME AliceInv, NEW n \in 0 .. MaxToolUses, Complete(n)
    PROVE  AliceInv'
<1>1. /\ Fit(talk) /\ Paced(talk) /\ talk.phase = "model" /\ IsFiniteSet(gaps)
      /\ gaps \subseteq Terms
    BY DEF AliceInv, Complete, Idle
<1>2. CASE n = 0
    BY <1>1, <1>2, FinishKeeps DEF Complete, Paced, FinishTalk
<1>3. CASE n # 0
  <2>1. talk' = [talk EXCEPT !.phase = "tools", !.todo = n] /\ gaps' = gaps
    BY <1>3 DEF Complete
  <2>2. /\ Fit(talk)' /\ talk'.phase = "tools" /\ talk'.todo = n /\ talk'.turn = talk.turn
    BY <1>1, <2>1 DEF Fit, FitCards, SeesCost, RequestFields
  <2>3. Paced(talk)'
    BY <1>1, <1>3, <2>2, AliceAssumption DEF Paced
  <2>4. Kept(talk, gaps)'
    BY <2>2 DEF Kept
  <2> QED
    BY <1>1, <2>1, <2>2, <2>3, <2>4 DEF AliceInv
<1> QED
    BY <1>2, <1>3

\* A question the model could not answer is registered at once.
LEMMA RegisterKeeps ==
    ASSUME AliceInv, NEW w \in Terms, RunRegister(w)
    PROVE  AliceInv'
<1>1. /\ talk.phase = "tools" /\ Fit(talk) /\ Paced(talk)
      /\ IsFiniteSet(gaps) /\ gaps \subseteq Terms
    BY DEF AliceInv, RunRegister, Idle
<1>2. PICK themes \in Registrar(gaps, {w}) :
          IF After(talk).turn = MaxTurns THEN FinishWith(themes, After(talk))
          ELSE talk' = After(talk) /\ gaps' = themes
    BY DEF RunRegister
<1>3. IsFiniteSet(themes) /\ themes \subseteq Terms
  <2>1. IsFiniteSet({w}) /\ {w} \subseteq Terms
    BY FS_Singleton
  <2> QED
    BY <1>1, <2>1, RegistryKeeps
<1>4. /\ Fit(After(talk)) /\ After(talk).phase # "answered" /\ After(talk).turn \in 0 .. MaxTurns
      /\ After(talk).turn # MaxTurns => Paced(After(talk))
    BY <1>1, AfterFits, AfterPaces
<1>5. CASE After(talk).turn = MaxTurns
    BY <1>2, <1>3, <1>4, <1>5, FinishKeeps
<1>6. CASE After(talk).turn # MaxTurns
  <2>1. talk' = After(talk) /\ gaps' = themes
    BY <1>2, <1>6
  <2>2. Fit(talk)' /\ Paced(talk)'
    BY <1>4, <1>6, <2>1 DEF Fit, FitCards, SeesCost, Paced
  <2>3. Kept(talk, gaps)'
    BY <1>4, <2>1 DEF Kept
  <2> QED
    BY <1>3, <2>1, <2>2, <2>3 DEF AliceInv
<1> QED
    BY <1>5, <1>6

\* The steps of a conversation keep its invariant.
LEMMA AliceInvAlways == AliceSpec => []AliceInv
<1>1. AliceInit => AliceInv
    BY FS_EmptySet DEF AliceInit, AliceInv
<1>2. AliceInv /\ [AliceNext]_aliceVars => AliceInv'
  <2> SUFFICES ASSUME AliceInv, [AliceNext]_aliceVars PROVE AliceInv'
      OBVIOUS
  <2>1. ASSUME NEW b \in Bearers, NEW risks \in MessageRisks, Ask(b, risks) PROVE AliceInv'
    BY <2>1, AskKeeps
  <2>2. ASSUME NEW n \in 0 .. MaxToolUses, Complete(n) PROVE AliceInv'
    BY <2>2, CompleteKeeps
  <2>3. ASSUME ModelFails \/ AliceRestarts PROVE AliceInv'
    BY <2>3, FS_EmptySet DEF AliceInv, ModelFails, AliceRestarts
  <2>4. ASSUME NEW w \in Terms, RunSearch(w) PROVE AliceInv'
    BY <2>4, SearchFits, RanKeeps DEF RunSearch
  <2>5. ASSUME NEW w \in Terms, RunExplain(w) PROVE AliceInv'
    BY <2>5, ExplanationFits, RanKeeps DEF RunExplain
  <2>6. ASSUME NEW w \in Terms, RunComplements(w) PROVE AliceInv'
    BY <2>6, ComplementsFit, RanKeeps DEF RunComplements
  <2>7. ASSUME NEW w \in Terms, RunCite(w) PROVE AliceInv'
    BY <2>7, CitationsFit, RanKeeps DEF RunCite
  <2>8. ASSUME NEW w \in Terms, RunRegister(w) PROVE AliceInv'
    BY <2>8, RegisterKeeps
  <2>9. ASSUME RunGet PROVE AliceInv'
    BY <2>9, GetFits, RanKeeps DEF RunGet
  <2>10. ASSUME RunCategories PROVE AliceInv'
    BY <2>10, CategoriesFit, RanKeeps DEF RunCategories
  <2>11. ASSUME NEW w \in Terms, NEW d \in Measures, NEW priced \in BOOLEAN, RunCalculate(w, d, priced)
         PROVE  AliceInv'
    BY <2>11, CalculationFits, RanKeeps DEF RunCalculate
  <2>12. ASSUME NEW asks \in Lists, RunList(asks) PROVE AliceInv'
    BY <2>12, ListFits, RanKeeps DEF RunList
  <2>13. ASSUME NEW motive \in {"stock", "price", "discount"}, RunAlternatives(motive) PROVE AliceInv'
    BY <2>13, AlternativesFit, RanKeeps DEF RunAlternatives
  <2>14. ASSUME UNCHANGED aliceVars PROVE AliceInv'
    BY <2>14 DEF aliceVars, AliceInv, Fit, FitCards, SeesCost, Kept, Paced
  <2> QED
    BY <2>1, <2>2, <2>3, <2>4, <2>5, <2>6, <2>7, <2>8, <2>9, <2>10, <2>11, <2>12, <2>13, <2>14
       DEF AliceNext
<1> QED
    BY <1>1, <1>2, PTL DEF AliceSpec

\* The types of the conversation.
LEMMA AliceTypesAlways == AliceSpec => []AliceTypeOK
<1>1. AliceInv => AliceTypeOK
  <2> SUFFICES ASSUME AliceInv, talk # Idle
               PROVE  /\ talk.left \in 0 .. MaxCatalogCalls /\ talk.calls \in Nat
                      /\ talk.cards \subseteq [product : DOMAIN Catalogue, cost : BOOLEAN]
      BY DEF AliceInv, AliceTypeOK, Fit, Paced
  <2>1. Fit(talk) /\ MaxCatalogCalls \in Nat
    BY AliceAssumption DEF AliceInv
  <2>2. ASSUME NEW c \in talk.cards PROVE c \in [product : DOMAIN Catalogue, cost : BOOLEAN]
    <3>1. c = [product |-> c.product, cost |-> c.cost] /\ c.product \in DOMAIN Catalogue
          /\ c.cost \in BOOLEAN
      BY <2>1 DEF Fit, FitCards
    <3> DEFINE p == c.product
               k == c.cost
    <3> HIDE DEF p, k
    <3>2. [product |-> p, cost |-> k] \in [product : DOMAIN Catalogue, cost : BOOLEAN]
      BY <3>1 DEF p, k
    <3> QED
      BY <3>1, <3>2 DEF p, k
  <2> QED
    BY <2>1, <2>2 DEF Fit
<1> QED
    BY <1>1, AliceInvAlways, PTL

(* Whatever the model asks for, in whatever order, and whichever of two jobs a   *)
(* name stands for, Alice keeps within her budget of the catalogue, warns of     *)
(* every risk, shows a customer no cost, buys enough and never a package more,   *)
(* and keeps the gaps of an answered request (Engine.Chat, enriquecer,           *)
(* Embalagens, Registrar).                                                       *)
THEOREM AliceAlwaysKeepsHerWord == AliceSpec => []AliceKeepsHerWord
<1>1. AliceInv => AliceKeepsHerWord
  <2> SUFFICES ASSUME Fit(talk), Kept(talk, gaps) PROVE AliceKeepsHerWord
      BY DEF AliceInv, AliceKeepsHerWord
  <2>1. WithinItsBudget
    BY AliceAssumption DEF Fit, WithinItsBudget
  <2>2. EveryRiskIsWarned /\ CardsAreFit
    BY DEF Fit, FitCards, EveryRiskIsWarned, CardsAreFit
  <2>3. ListBuysEnough
    BY DEF Fit, BuysEnough, ListBuysEnough
  <2>4. GapsAreKept
    BY DEF Kept, GapsAreKept
  <2> QED
    BY <2>1, <2>2, <2>3, <2>4 DEF AliceKeepsHerWord
<1> QED
    BY <1>1, AliceInvAlways, PTL
-----------------------------------------------------------------------------
(* The types: what a variable holds, the bounds of the counters included.      *)

\* What AfterInv does not say of the returns: no return asks for more than was bought, not
\* even one that is turned down later, and none is in a status no handler writes.
ReturnsHold ==
    /\ \A r \in Returns : /\ ret[r].status \notin {"in_transit", "cancelled"}
                         /\ \A i \in Items : ret[r].items[i] <= Bought[i]
    /\ order \in Orders /\ today \in Days /\ lot \in Nat /\ slips \in 0..MaxSlips
    /\ pspRow \in [Returns -> {"none", "requested", "refunded"}] /\ LedgerType

\* A row keeps its goods, and takes only statuses a handler writes.
LEMMA RowHolds ==
    ASSUME AfterInv, ReturnsHold, NEW r \in Returns, NEW row,
           ret' = [ret EXCEPT ![r] = row],
           row.status \notin {"in_transit", "cancelled"}, \A i \in Items : row.items[i] <= Bought[i]
    PROVE  \A k \in Returns : /\ ret'[k].status \notin {"in_transit", "cancelled"}
                              /\ \A i \in Items : ret'[k].items[i] <= Bought[i]
    BY DEF AfterInv, AfterTypes, ReturnsHold
\* The same of a flag, set or not.
LEMMA FlagHolds ==
    ASSUME AfterInv, ReturnsHold, NEW r \in Returns, NEW row \in ReturnRow,
           row.items = ret[r].items, row.status = ret[r].status,
           SetFlag([ret EXCEPT ![r] = row])
    PROVE  /\ \A k \in Returns : /\ ret'[k].status \notin {"in_transit", "cancelled"}
                                 /\ \A i \in Items : ret'[k].items[i] <= Bought[i]
           /\ slips' \in 0..MaxSlips
<1>1. MaxSlips \in Nat
    BY OrderAssumption
<1>2. CASE ret' = [ret EXCEPT ![r] = row] /\ UNCHANGED slips
    BY <1>2, RowHolds DEF ReturnsHold
<1>3. CASE Slip /\ UNCHANGED ret
    BY <1>1, <1>3 DEF Slip, ReturnsHold
<1> QED
    BY <1>2, <1>3 DEF SetFlag

\* Every step of a request keeps it.
LEMMA ReturnsStep == AfterInv /\ ReturnsHold /\ [AfterNext]_afterVars => ReturnsHold'
<1> SUFFICES ASSUME AfterInv, ReturnsHold, [AfterNext]_afterVars PROVE ReturnsHold'
    OBVIOUS
<1>0. /\ ret \in [Returns -> ReturnRow] /\ desk \in [Desks -> DeskState] /\ MaxSlips \in Nat
      /\ pspRow \in [Returns -> {"none", "requested", "refunded"}] /\ ledger \in [Returns -> Nat]
    BY OrderAssumption DEF AfterInv, AfterTypes, ReturnsHold, LedgerType
<1>1. \A d \in Desks : desk[d].step \in {"restock", "ask", "psp", "mark", "book"} => desk[d].ret \in Returns
    BY <1>0 DEF DeskState, IdleDesk
<1>2. ASSUME NEW r \in Returns, NEW q \in Wanted, NEW actor, NEW reason,
             OpenReturn(r, q, actor, reason)
      PROVE  ReturnsHold'
  <2>1. q \in Parcels
    BY UpToACap DEF Wanted
  <2>2. PICK row \in ReturnRow : /\ ret' = [ret EXCEPT ![r] = row] /\ row.items = q
                                /\ row.status = IF RegretOpen THEN "approved" ELSE "requested"
    BY <1>2, <2>1, OpenedRow
  <2>3. ASSUME NEW i \in Items PROVE q[i] <= Bought[i]
    <3>1. q[i] <= UnitsLeft(i)
      BY <1>2 DEF OpenReturn, Evaluate, Resolvable
    <3>2. Returned(i) \in Nat
      BY ReturnedIs DEF AfterInv
    <3>3. q[i] \in Nat /\ Bought[i] \in Nat
      BY <2>1, OrderNumbers DEF Parcels
    <3> QED BY <3>1, <3>2, <3>3 DEF UnitsLeft
  <2>4. row.status \notin {"in_transit", "cancelled"} /\ \A i \in Items : row.items[i] <= Bought[i]
    BY <2>2, <2>3
  <2>5. \A k \in Returns : /\ ret'[k].status \notin {"in_transit", "cancelled"}
                           /\ \A i \in Items : ret'[k].items[i] <= Bought[i]
    BY <2>2, <2>4, RowHolds
  <2> QED BY <1>2, <2>5 DEF OpenReturn, pspVars, ReturnsHold, LedgerType
<1>3. ASSUME NEW r \in Returns, NEW to \in {"approved", "rejected", "received", "refunded"},
             ret' = [ret EXCEPT ![r].status = to]
      PROVE  \A k \in Returns : /\ ret'[k].status \notin {"in_transit", "cancelled"}
                                /\ \A i \in Items : ret'[k].items[i] <= Bought[i]
  <2> DEFINE row == [ret[r] EXCEPT !.status = to]
  <2>1. ret[r] \in ReturnRow /\ \A i \in Items : ret[r].items[i] <= Bought[i]
    BY <1>0 DEF ReturnsHold
  <2>2. row.status = to /\ row.items = ret[r].items /\ ret' = [ret EXCEPT ![r] = row]
    BY <1>3, <2>1 DEF ReturnRow
  <2> HIDE DEF row
  <2> QED BY <2>1, <2>2, RowHolds
<1>4. ASSUME NEW r \in Returns, NEW to \in {"approved", "rejected"}, NEW note, DecideReturn(r, to, note)
      PROVE  ReturnsHold'
    BY <1>3, <1>4 DEF DecideReturn, pspVars, ReturnsHold, LedgerType
<1>5. ASSUME NEW d \in Desks, NEW r \in Returns, NEW q, ReceiveReturn(d, r, q)
      PROVE  ReturnsHold'
    BY <1>3, <1>5 DEF ReceiveReturn, pspVars, ReturnsHold, LedgerType
<1>6. ASSUME NEW d \in Desks, RestockReturn(d) PROVE ReturnsHold'
  <2>1. PICK r \in Returns : r = desk[d].ret
    BY <1>1, <1>6 DEF RestockReturn
  <2> DEFINE row == [ret[r] EXCEPT !.stock = TRUE]
  <2>2. row \in ReturnRow /\ row.status = ret[r].status /\ row.items = ret[r].items
    <3>1. ret[r] \in ReturnRow
      BY <1>0
    <3> QED BY <3>1 DEF ReturnRow
  <2>3. SetFlag([ret EXCEPT ![r] = row])
    BY <1>6, <2>1 DEF RestockReturn
  <2> HIDE DEF row
  <2>4. /\ \A k \in Returns : /\ ret'[k].status \notin {"in_transit", "cancelled"}
                              /\ \A i \in Items : ret'[k].items[i] <= Bought[i]
        /\ slips' \in 0..MaxSlips
    BY <2>2, <2>3, FlagHolds
  <2> QED BY <1>6, <2>4 DEF RestockReturn, pspVars, ReturnsHold, LedgerType
<1>7. ASSUME NEW d \in Desks, PostRefund(d) PROVE ReturnsHold'
  <2>1. PICK r \in Returns : r = desk[d].ret
    BY <1>1, <1>7 DEF PostRefund
  <2> DEFINE row == [ret[r] EXCEPT !.posted = TRUE]
  <2>2. row \in ReturnRow /\ row.status = ret[r].status /\ row.items = ret[r].items
    <3>1. ret[r] \in ReturnRow
      BY <1>0
    <3> QED BY <3>1 DEF ReturnRow
  <2>3. SetFlag([ret EXCEPT ![r] = row])
    BY <1>7, <2>1 DEF PostRefund
  <2> HIDE DEF row
  <2>4. /\ \A k \in Returns : /\ ret'[k].status \notin {"in_transit", "cancelled"}
                              /\ \A i \in Items : ret'[k].items[i] <= Bought[i]
        /\ slips' \in 0..MaxSlips
    BY <2>2, <2>3, FlagHolds
  <2>5. LedgerType'
    BY <1>7, PostMaps DEF ReturnsHold
  <2> QED BY <1>7, <2>4, <2>5 DEF PostRefund, pspVars, ReturnsHold
<1>8. ASSUME NEW d \in Desks, MarkRefunded(d) PROVE ReturnsHold'
  <2>1. PICK r \in Returns : r = desk[d].ret
    BY <1>1, <1>8 DEF MarkRefunded
  <2>2. ret' = ret \/ ret' = [ret EXCEPT ![r].status = "refunded"]
    BY <1>8, <2>1 DEF MarkRefunded
  <2>3. \A k \in Returns : /\ ret'[k].status \notin {"in_transit", "cancelled"}
                           /\ \A i \in Items : ret'[k].items[i] <= Bought[i]
    BY <1>3, <2>2 DEF ReturnsHold
  <2>4. lot' \in Nat
    BY <1>8 DEF MarkRefunded, ReturnsHold
  <2> QED BY <1>8, <2>3, <2>4 DEF MarkRefunded, pspVars, ReturnsHold, LedgerType
<1>9. ASSUME NEW d \in Desks,
             \/ ReserveRefund(d) \/ PspRefunds(d) \/ PspRefuses(d)
             \/ StepFails(d) \/ PspAnswerLost(d) \/ PaymentDies(d)
      PROVE  ReturnsHold'
  <2>1. desk[d].ret \in Returns \/ UNCHANGED pspRow
    BY <1>1, <1>9 DEF ReserveRefund, PspRefunds, PspRefuses, StepFails, PspAnswerLost, PaymentDies, pspVars
  <2>2. pspRow' \in [Returns -> {"none", "requested", "refunded"}]
    BY <1>0, <1>9, <2>1 DEF ReserveRefund, PspRefunds, PspRefuses, StepFails, PspAnswerLost,
                            PaymentDies, pspVars, DropRow
  <2>3. slips' \in 0..MaxSlips
    BY <1>0, <1>9 DEF ReserveRefund, PspRefunds, PspRefuses, StepFails, PspAnswerLost,
                      PaymentDies, Slip, ReturnsHold
  <2>4. UNCHANGED <<ret, order, today, lot, ledger>>
    BY <1>9 DEF ReserveRefund, PspRefunds, PspRefuses, StepFails, PspAnswerLost, PaymentDies
  <2> QED BY <2>2, <2>3, <2>4 DEF ReturnsHold, LedgerType
<1>10. ASSUME \/ \E d \in Desks, r \in Returns : BeginRefund(d, r)
              \/ NextDay \/ UNCHANGED afterVars
       PROVE  ReturnsHold'
    BY <1>10 DEF BeginRefund, NextDay, afterVars, pspVars, ReturnsHold, LedgerType
<1> QED
    BY <1>2, <1>4, <1>5, <1>6, <1>7, <1>8, <1>9, <1>10 DEF AfterNext

\* The returns.
LEMMA AfterTypesAlways == AfterSpec => []AfterTypeOK
<1>1. AfterInit => ReturnsHold
    BY OrderAssumption DEF AfterInit, ReturnsHold, LedgerType, NoOne
<1>2. AfterInv /\ ReturnsHold => AfterTypeOK
  <2> SUFFICES ASSUME AfterInv, ReturnsHold PROVE AfterTypeOK
    OBVIOUS
  <2>1. ASSUME NEW r \in Returns
        PROVE  /\ ret[r].status \in {"none", "requested", "approved", "rejected", "received", "refunded"}
               /\ ret[r].kind \in {"regret", "defect"}
               /\ \A i \in Items : ret[r].items[i] \in 0..Bought[i]
    <3>1. ret[r] \in ReturnRow
      BY DEF AfterInv, AfterTypes
    <3> QED BY <3>1, OrderNumbers DEF ReturnRow, Parcels, ReturnsHold
  <2> QED BY <2>1 DEF ReturnsHold, LedgerType, AfterTypeOK
<1> QED
    BY AfterInvAlways, ReturnsStep, <1>1, <1>2, PTL DEF AfterSpec

-----------------------------------------------------------------------------
\* The counter sales.
LEMMA CounterTypesAlways == CounterSpec => []CounterTypeOK
<1> DEFINE TokensAreStores == token \in [People -> Stores \union {Nobody}]
<1>1. CounterInit => TokensAreStores
    BY CounterAssumption DEF CounterInit
<1>2. CounterInv /\ TokensAreStores /\ [CounterNext]_counterVars => TokensAreStores'
  <2> SUFFICES ASSUME CounterInv, TokensAreStores, [CounterNext]_counterVars PROVE TokensAreStores'
    OBVIOUS
  <2>1. UNCHANGED token \/ \E p \in People : token' = [token EXCEPT ![p] = bond[p].store]
    BY DEF CounterNext, counterVars, SellAtCounter, DecideApproval, BeginSettle, SettleSale,
           PostToLedger, CommitStock, TillDies, ConfirmByPSP, CancelSale, SweepSale,
           RefreshToken, Rebind
  <2>2. \A p \in People : bond[p].store \in Stores \union {Nobody}
    BY CounterAssumption DEF CounterInv, CounterTypes
  <2> QED BY <2>1, <2>2
<1>3. CounterInv /\ TokensAreStores => CounterTypeOK
    BY DEF CounterInv, CounterTypes, CounterTypeOK, SaleRow
<1> QED
    BY CounterInvAlways, <1>1, <1>2, <1>3, PTL DEF CounterSpec

\* Cashback and coupons.
LEMMA PromoTypesAlways == PromoSpec => []PromoTypeOK
<1> DEFINE EditsAreBounded == edits \in 0..MaxEdits
<1>1. PromoInit => EditsAreBounded
    BY PromotionAssumption DEF PromoInit
<1>2. EditsAreBounded /\ [PromoNext]_promoVars => EditsAreBounded'
  <2> SUFFICES ASSUME EditsAreBounded, [PromoNext]_promoVars PROVE EditsAreBounded'
    OBVIOUS
  <2>1. UNCHANGED edits \/ AdminEdit
    BY DEF PromoNext, promoVars, Quote, ReadBalance, Place, DropCart, CreditLot, ReverseLot,
           Lapse, UpdateConfig, SetCategoryRate, DeleteCoupon, DeleteCategoryRate,
           CreateCoupon, UpdateCoupon
  <2> QED BY <2>1, PromotionAssumption DEF AdminEdit
<1>3. PromoInv /\ EditsAreBounded => PromoTypeOK
  <2> SUFFICES ASSUME PromoInv, EditsAreBounded PROVE PromoTypeOK
    OBVIOUS
  <2>1. \A c \in Carts : lots[c] \in LotRow /\ cart[c] \in CartRow /\ lots[c].remaining <= lots[c].earned
    BY DEF PromoInv, PromoTypes, NotOverdrawn
  <2>2. \A c \in Carts : lots[c].remaining \in 0..lots[c].earned
    BY <2>1 DEF LotRow
  <2>3. \A c \in Carts : cart[c].step \in {"new", "quoted", "open", "dropped", "placed", "paid", "returned"}
    BY <2>1 DEF CartRow
  <2> QED BY <2>2, <2>3 DEF PromoTypeOK, PromoInv, PromoTypes
<1> QED
    BY PromoInvAlways, <1>1, <1>2, <1>3, PTL DEF PromoSpec

-----------------------------------------------------------------------------
\* Every document that is open or in the book is of a month there is, and valid; a month is
\* closed once it is over.
DocumentsAreValid ==
    /\ clock \in LedgerMonths /\ DOMAIN period \subseteq LedgerMonths
    /\ \A k \in DOMAIN book : book[k].month \in LedgerMonths /\ ValidEntry(book[k].lines)
    /\ DOMAIN writer = Writers
    /\ \A w \in Writers : writer[w] # NoDoc => writer[w].month \in LedgerMonths /\ ValidEntry(writer[w].lines)
    /\ DOMAIN closing = Closers
    /\ \A c \in Closers : closing[c].step # "idle" => closing[c].month \in LedgerMonths

\* An entry passes Validate before it is inserted.
LEMMA InsertsAreValid ==
    ASSUME DocumentsAreValid, NEW w \in Writers, NEW key, NEW month \in LedgerMonths, NEW lines,
           InsertEntry(w, key, month, lines)
    PROVE  DocumentsAreValid'
<1> DEFINE doc == [key |-> key, month |-> month, lines |-> lines]
<1>1. /\ writer' = [writer EXCEPT ![w] = doc] /\ ValidEntry(lines)
      /\ UNCHANGED <<clock, period, book, closing>>
    BY DEF InsertEntry
<1>2. doc.month = month /\ doc.lines = lines
    OBVIOUS
<1> HIDE DEF doc
<1> QED BY <1>1, <1>2 DEF DocumentsAreValid

\* The ledger.
LEMMA LedgerTypesAlways == LedgerSpec => []LedgerTypeOK
<1>1. LedgerInit => DocumentsAreValid
    BY LedgerAssumption DEF LedgerInit, DocumentsAreValid, LedgerMonths, NotClosing
<1>2. LedgerInv /\ DocumentsAreValid /\ [LedgerNext]_ledgerVars => DocumentsAreValid'
  <2> SUFFICES ASSUME LedgerInv, DocumentsAreValid, [LedgerNext]_ledgerVars PROVE DocumentsAreValid'
    OBVIOUS
  <2>0. clock \in LedgerMonths /\ Dated \subseteq LedgerMonths
    BY DEF DocumentsAreValid, Dated
  <2>1. ASSUME NEW w \in Writers,
               \/ \E p \in Payments : PostSale(w, p)
               \/ \E s \in Sales : PostExternalSale(w, s)
               \/ \E r \in Refunds : PostReturnRefund(w, r)
               \/ \E k \in Reversible : ReverseEntry(w, k)
        PROVE  DocumentsAreValid'
    BY <2>0, <2>1, InsertsAreValid DEF PostSale, PostExternalSale, PostReturnRefund, ReverseEntry
  <2>2. ASSUME NEW w \in Writers, CommitEntry(w) PROVE DocumentsAreValid'
    <3> DEFINE doc == writer[w]
               row == [month |-> doc.month, lines |-> doc.lines]
    <3>1. doc # NoDoc /\ book' = With(book, doc.key, row) /\ writer' = [writer EXCEPT ![w] = NoDoc]
          /\ UNCHANGED <<clock, period, closing>>
      BY <2>2 DEF CommitEntry
    <3>2. row.month \in LedgerMonths /\ ValidEntry(row.lines)
      BY <3>1 DEF DocumentsAreValid
    <3> HIDE DEF row, doc
    <3>3. \A k \in DOMAIN book' : book'[k] = row \/ (k \in DOMAIN book /\ book'[k] = book[k])
      BY <3>1 DEF With
    <3> QED BY <3>1, <3>2, <3>3 DEF DocumentsAreValid
  <2>3. ASSUME NEW w \in Writers, RollbackEntry(w) PROVE DocumentsAreValid'
    BY <2>3 DEF RollbackEntry, DocumentsAreValid
  <2>4. ASSUME NEW c \in Closers, NEW m \in LedgerMonths, BeginClose(c, m) PROVE DocumentsAreValid'
    <3> DEFINE e == [step |-> "balances", month |-> m, balances |-> TrialBalance(m)]
    <3>1. closing' = [closing EXCEPT ![c] = e] /\ UNCHANGED <<clock, period, book, writer>>
      BY <2>4 DEF BeginClose, bookVars
    <3>2. e.month \in LedgerMonths
      OBVIOUS
    <3> HIDE DEF e
    <3> QED BY <3>1, <3>2 DEF DocumentsAreValid
  <2>5. ASSUME NEW c \in Closers, ReadTotals(c) PROVE DocumentsAreValid'
    <3> DEFINE m == closing[c].month
               e == [step |-> "totals", month |-> m, balances |-> closing[c].balances,
                     net |-> RevenueIn(m) - RefundedIn(m)]
    <3>1. /\ closing' = [closing EXCEPT ![c] = e] /\ UNCHANGED <<clock, period, book, writer>>
          /\ closing[c].step = "balances"
      BY <2>5 DEF ReadTotals, bookVars
    <3>2. e.month \in LedgerMonths
      BY <3>1 DEF DocumentsAreValid
    <3> HIDE DEF e
    <3> QED BY <3>1, <3>2 DEF DocumentsAreValid
  <2>6. ASSUME NEW c \in Closers, WritePeriod(c) PROVE DocumentsAreValid'
    <3>1. /\ closing' = [closing EXCEPT ![c] = NotClosing] /\ UNCHANGED <<clock, book, writer>>
          /\ closing[c].step = "totals"
      BY <2>6 DEF WritePeriod, bookVars
    <3>2. DOMAIN period' \subseteq DOMAIN period \union {closing[c].month}
      BY <2>6 DEF WritePeriod, With
    <3> QED BY <3>1, <3>2 DEF DocumentsAreValid, NotClosing
  <2>7. ASSUME NEW c \in Closers, GiveUpClosing(c) PROVE DocumentsAreValid'
    BY <2>7 DEF GiveUpClosing, bookVars, DocumentsAreValid, NotClosing
  <2>8. CASE NextMonth
    BY <2>8, LedgerAssumption DEF NextMonth, bookVars, DocumentsAreValid, LedgerMonths
  <2>9. CASE \/ \E p \in Payments : PSPDecides(p) \/ WebhookFinds(p) \/ SyncPayment(p)
             \/ BeginRun \/ FinishRun \/ \E a \in BOOLEAN : CheckPayment(a)
             \/ UNCHANGED ledgerVars
    BY <2>9 DEF PSPDecides, WebhookFinds, SyncPayment, BeginRun, FinishRun, CheckPayment, ledgerVars,
                bookVars, DocumentsAreValid
  <2> QED
    BY <2>1, <2>2, <2>3, <2>4, <2>5, <2>6, <2>7, <2>8, <2>9 DEF LedgerNext, BookNext, ClosingNext, ReconNext
<1>3. LedgerInv /\ DocumentsAreValid => LedgerTypeOK
    BY DEF LedgerInv, RunTypes, NoRun, DocumentsAreValid, LedgerTypeOK
<1> QED
    BY LedgerInvAlways, <1>1, <1>2, <1>3, PTL DEF LedgerSpec
-----------------------------------------------------------------------------
\* A score counts some of the authors, and a write under way was counted at its start.
MayBeScore(t) == t.count \in 0..Cardinality(Authors) /\ t.sum \in Nat
BusyHands == {h \in ReviewHands : hand[h].step # "idle"}
\* A moderation is entered in the trail at most once, by the write it followed.
ReviewsHold ==
    /\ MayBeScore(score)
    /\ \A h \in ReviewHands : /\ hand[h].step \in {"idle", "wrote", "trail"}
                              /\ hand[h].step = "wrote" => MayBeScore(hand[h].seen)
    /\ reviewWrites \in 0..MaxReviewWrites /\ moderated \in Nat
    /\ IsFiniteSet(BusyHands) /\ moderated + Cardinality(BusyHands) <= reviewWrites

\* What the trigger counts of any table.
LEMMA TalliesMayBe ==
    ASSUME NEW rows, rows \in [Authors -> ReviewRow]
    PROVE  MayBeScore(Tally(rows))
<1> DEFINE stars == [a \in Authors |-> rows[a].rating]
<1>1. IsFiniteSet(Authors) /\ Published(rows) \in SUBSET Authors
    BY ReviewsAssumption DEF Published
<1>2. \A a \in Authors : stars[a] \in Nat
  <2> SUFFICES ASSUME NEW a \in Authors PROVE rows[a].rating \in Nat
    OBVIOUS
  <2>1. rows[a] \in ReviewRow
    OBVIOUS
  <2>2. \A n \in Ratings : n \in Nat
    BY ReviewsAssumption
  <2> DEFINE row == rows[a]
  <2>3. CASE row = NoReview
    BY <2>3 DEF NoReview
  <2>4. CASE row # NoReview
    <3>1. row.rating \in Ratings
      BY <2>1, <2>4 DEF ReviewRow
    <3> QED BY <3>1, <2>2
  <2> QED BY <2>3, <2>4
<1>3. Tally(rows) = [count |-> Cardinality(Published(rows)), sum |-> SumOver(stars, Published(rows))]
    BY DEF Tally
<1> HIDE DEF stars
<1>4. SumOver(stars, Published(rows)) \in Nat
    BY <1>1, <1>2, SumOfPart
<1>5. Cardinality(Published(rows)) \in 0..Cardinality(Authors)
    BY <1>1, FS_Subset, FS_CardinalityType
<1> QED BY <1>3, <1>4, <1>5 DEF MayBeScore

\* A hand that takes something up, and one that lets go.
LEMMA OneHandMore ==
    ASSUME ReviewsHold, NEW h \in ReviewHands, NEW w, hand' = [hand EXCEPT ![h] = w],
           DOMAIN hand = ReviewHands, hand[h].step = "idle", w.step # "idle"
    PROVE  IsFiniteSet(BusyHands') /\ Cardinality(BusyHands') = Cardinality(BusyHands) + 1
<1>1. BusyHands' = BusyHands \union {h} /\ h \notin BusyHands
    BY DEF BusyHands
<1> QED BY <1>1, FS_AddElement DEF ReviewsHold
\* The same, one away.
LEMMA OneHandLess ==
    ASSUME ReviewsHold, NEW h \in ReviewHands, hand' = [hand EXCEPT ![h] = FreeHand],
           DOMAIN hand = ReviewHands, hand[h].step # "idle"
    PROVE  IsFiniteSet(BusyHands') /\ Cardinality(BusyHands') = Cardinality(BusyHands) - 1
<1>1. BusyHands' = BusyHands \ {h} /\ h \in BusyHands
    BY DEF BusyHands, FreeHand
<1> QED BY <1>1, FS_RemoveElement DEF ReviewsHold

\* Every step keeps it.
LEMMA ReviewsHoldStep == ReviewInv /\ ReviewsHold /\ [ReviewNext]_reviewVars => ReviewsHold'
<1> SUFFICES ASSUME ReviewInv, ReviewsHold, [ReviewNext]_reviewVars PROVE ReviewsHold'
    OBVIOUS
<1>0. /\ DOMAIN hand = ReviewHands /\ review \in [Authors -> ReviewRow] /\ MaxReviewWrites \in Nat
      /\ IsFiniteSet(BusyHands) /\ Cardinality(BusyHands) \in Nat
    BY ReviewsAssumption, FS_CardinalityType
       DEF ReviewInv, ReviewRows, HandsAtWork, ReviewsHold
<1>1. ASSUME NEW h \in ReviewHands, NEW a \in Authors,
           \/ \E g \in Grants, n \in Ratings, t \in {"none", "flagged"} : CreateReview(h, a, g, n, t)
           \/ \E n \in Ratings, t \in {"none", "flagged"} : UpdateMine(h, a, n, t)
           \/ DeleteMine(h, a)
           \/ \E s \in {"published", "rejected"} : Moderate(h, a, s)
      PROVE  ReviewsHold'
  <2>1. PICK op \in {"insert", "edit", "delete", "moderate"}, row \in ReviewRow :
               WriteReview(h, op, a, row)
    BY <1>1, AskedWrites
  <2> DEFINE rows == [review EXCEPT ![a] = row]
             w == [step |-> "wrote", op |-> op, author |-> a, row |-> row, seen |-> Tally(rows),
                   missed |-> FALSE]
  <2>2. /\ hand[h].step = "idle" /\ reviewWrites < MaxReviewWrites /\ reviewWrites' = reviewWrites + 1
        /\ hand' = [hand EXCEPT ![h] = w] /\ UNCHANGED <<score, moderated>>
    BY <2>1 DEF WriteReview
  <2>3. rows \in [Authors -> ReviewRow]
    BY <1>0
  <2> HIDE DEF rows
  <2>4. w.step = "wrote" /\ MayBeScore(w.seen)
    BY <2>3, TalliesMayBe
  <2> HIDE DEF w
  <2>5. IsFiniteSet(BusyHands') /\ Cardinality(BusyHands') = Cardinality(BusyHands) + 1
    BY <1>0, <2>2, <2>4, OneHandMore
  <2>6. \A k \in ReviewHands : hand'[k] = IF k = h THEN w ELSE hand[k]
    BY <1>0, <2>2
  <2> QED BY <1>0, <2>2, <2>4, <2>5, <2>6 DEF ReviewsHold
<1>2. ASSUME NEW h \in ReviewHands, SaveReview(h) PROVE ReviewsHold'
  <2> DEFINE w == hand[h]
             rows == [review EXCEPT ![w.author] = w.row]
             after(k) == IF k = h THEN IF w.op = "moderate" THEN [step |-> "trail"] ELSE FreeHand
                         ELSE IF hand[k].step = "wrote" THEN [hand[k] EXCEPT !.missed = TRUE]
                         ELSE hand[k]
  <2>1. /\ w.step = "wrote" /\ score' = IF LooksAgain(w.op) THEN Tally(rows) ELSE w.seen
        /\ hand' = [k \in ReviewHands |-> after(k)] /\ UNCHANGED <<moderated, reviewWrites>>
    BY <1>2 DEF SaveReview
  <2>2. rows \in [Authors -> ReviewRow] /\ \A k \in ReviewHands : hand[k].step = "wrote" => Writing(hand[k])
    BY <1>0, <2>1 DEF ReviewInv, HandsAtWork, Writing
  <2>3. MayBeScore(score')
    BY <2>1, <2>2, TalliesMayBe DEF ReviewsHold
  <2>4. ASSUME NEW k \in ReviewHands
        PROVE  /\ hand'[k].step \in {"idle", "wrote", "trail"}
               /\ hand'[k].step = "wrote" => MayBeScore(hand'[k].seen)
               /\ hand'[k].step # "idle" => hand[k].step # "idle"
    <3>1. hand'[k] = after(k)
      BY <2>1
    <3>2. CASE k = h
      BY <2>1, <3>1, <3>2 DEF FreeHand
    <3>3. CASE k # h /\ hand[k].step = "wrote"
      <4>1. after(k) = [hand[k] EXCEPT !.missed = TRUE] /\ Writing(hand[k])
        BY <2>2, <3>3
      <4>2. after(k).step = "wrote" /\ after(k).seen = hand[k].seen
        BY <4>1 DEF Writing
      <4> HIDE DEF after
      <4> QED BY <3>1, <3>3, <4>2 DEF ReviewsHold
    <3>4. CASE k # h /\ hand[k].step # "wrote"
      BY <3>1, <3>4 DEF ReviewsHold
    <3> QED BY <3>2, <3>3, <3>4
  <2>5. BusyHands' \in SUBSET BusyHands
    BY <2>4 DEF BusyHands
  <2>6. IsFiniteSet(BusyHands') /\ Cardinality(BusyHands') <= Cardinality(BusyHands)
        /\ Cardinality(BusyHands') \in Nat
    BY <1>0, <2>5, FS_Subset, FS_CardinalityType
  <2> HIDE DEF after
  <2> QED BY <1>0, <2>1, <2>3, <2>4, <2>6 DEF ReviewsHold
<1>3. ASSUME NEW h \in ReviewHands, AuditModeration(h) \/ LoseWrite(h) PROVE ReviewsHold'
  <2>1. /\ hand[h].step # "idle" /\ hand' = [hand EXCEPT ![h] = FreeHand]
        /\ moderated' \in {moderated, moderated + 1} /\ UNCHANGED <<score, reviewWrites>>
    BY <1>3 DEF AuditModeration, LoseWrite
  <2>2. IsFiniteSet(BusyHands') /\ Cardinality(BusyHands') = Cardinality(BusyHands) - 1
    BY <1>0, <2>1, OneHandLess
  <2> QED BY <1>0, <2>1, <2>2 DEF ReviewsHold, FreeHand
<1>4. CASE ReadScore \/ ReadShares \/ LeaveReviews \/ UNCHANGED reviewVars
    BY <1>4 DEF ReadScore, ReadShares, LeaveReviews, reviewVars, ReviewsHold, BusyHands
<1> QED BY <1>1, <1>2, <1>3, <1>4 DEF ReviewNext

\* The reviews.
LEMMA ReviewTypesAlways == ReviewSpec => []ReviewTypeOK
<1>1. ReviewInit => ReviewsHold
  <2> SUFFICES ASSUME ReviewInit PROVE ReviewsHold
    OBVIOUS
  <2>1. BusyHands = {}
    BY DEF ReviewInit, BusyHands, FreeHand
  <2>2. Cardinality(Authors) \in Nat /\ Cardinality({}) = 0 /\ IsFiniteSet({})
    BY ReviewsAssumption, FS_CardinalityType, FS_EmptySet
  <2> QED BY <2>1, <2>2, ReviewsAssumption DEF ReviewInit, ReviewsHold, MayBeScore, FreeHand
<1>2. ReviewInv /\ ReviewsHold => ReviewTypeOK
  <2> SUFFICES ASSUME ReviewInv, ReviewsHold PROVE ReviewTypeOK
    OBVIOUS
  <2>1. ReviewRow \subseteq [rating : Ratings \union {0},
                             status : {"none", "pending", "published", "rejected"}]
    BY DEF ReviewRow, NoReview
  <2>2. Cardinality(BusyHands) \in Nat
    BY FS_CardinalityType DEF ReviewsHold
  <2>3. moderated \in 0..MaxReviewWrites
    BY <2>2, ReviewsAssumption DEF ReviewsHold
  <2> QED BY <2>1, <2>3 DEF ReviewInv, ReviewRows, ScoreIsRight, ReaderIsRight, ReviewsHold,
                            MayBeScore, ReviewTypeOK
<1> QED BY ReviewInvAlways, ReviewsHoldStep, <1>1, <1>2, PTL DEF ReviewSpec
-----------------------------------------------------------------------------
(* The money of returns, on its way *)

\* A desk that asks the PSP holds the row of its return, and no other desk does; where
\* nothing has failed yet, who was paid still has a row and nobody asks again.
AsksTheMoney(d, r) == desk[d].step = "psp" /\ desk[d].ret = r
Reserved == \A d \in Desks, r \in Returns : AsksTheMoney(d, r) => pspRow[r] = "requested"
OneAsks == \A d, e \in Desks, r \in Returns : AsksTheMoney(d, r) /\ AsksTheMoney(e, r) => d = e
PaidKeepsItsRow ==
    \A r \in Returns : slips = 0 /\ paidOut[r] # 0 =>
        pspRow[r] # "none" /\ \A d \in Desks : ~AsksTheMoney(d, r)
MoneyInv == /\ pspRow \in [Returns -> {"none", "requested", "refunded"}]
            /\ paidOut \in [Returns -> Int] /\ slips \in Nat
            /\ Reserved /\ OneAsks /\ PaidKeepsItsRow

\* Nobody has asked.
LEMMA InitMoney == AfterInit => MoneyInv
BY DEF AfterInit, MoneyInv, Reserved, OneAsks, PaidKeepsItsRow, AsksTheMoney, IdleDesk

\* What the PSP pays is a number of cents.
LEMMA PaymentsAreCents ==
    ASSUME AfterInv, MoneyInv, NEW d \in Desks, desk[d].step = "psp"
    PROVE  PspPays(d) \in Int
<1>1. desk[d].amount \in Nat
    BY DEF AfterInv, AfterTypes, DeskState, IdleDesk
<1>2. PaidOut \in Int
    BY OrderNumbers, SumType DEF PaidOut, MoneyInv
<1>3. Captured \in Int
  <2>1. Bought \in Parcels
    BY OrderNumbers DEF Parcels
  <2> QED
    BY <2>1, UnitsAreCounted, OrderNumbers DEF Captured
<1> QED
    BY <1>1, <1>2, <1>3 DEF PspPays

\* A desk that does not come to ask asks nothing, and the money stays where it is.
LEMMA OtherDesksKeepTheMoney ==
    ASSUME AfterInv, MoneyInv, UNCHANGED <<pspRow, paidOut>>, slips' \in Nat, slips' = 0 => slips = 0,
           \A k \in Desks, r \in Returns : AsksTheMoney(k, r)' => AsksTheMoney(k, r)
    PROVE  MoneyInv'
<1>1. Reserved' /\ OneAsks'
    BY DEF MoneyInv, Reserved, OneAsks
<1>2. PaidKeepsItsRow'
    BY DEF MoneyInv, PaidKeepsItsRow
<1> QED
    BY <1>1, <1>2 DEF MoneyInv

\* The desk of a reserved row leaves it, paid or not.
LEMMA LeavingTheRow ==
    ASSUME MoneyInv, NEW d \in Desks, NEW r \in Returns, AsksTheMoney(d, r),
           desk \in [Desks -> DeskState], NEW e \in DeskState, e.step # "psp",
           desk' = [desk EXCEPT ![d] = e], NEW to \in {"none", "requested", "refunded"},
           pspRow' = [pspRow EXCEPT ![r] = to],
           paidOut' \in [Returns -> Int], \A k \in Returns \ {r} : paidOut'[k] = paidOut[k],
           slips' \in Nat, slips' = 0 => slips = 0 /\ (to # "none" \/ paidOut'[r] = paidOut[r])
    PROVE  MoneyInv'
<1>1. \A k \in Desks, q \in Returns : AsksTheMoney(k, q)' <=> AsksTheMoney(k, q) /\ k # d
    BY DEF AsksTheMoney
<1>2. /\ pspRow' \in [Returns -> {"none", "requested", "refunded"}] /\ pspRow'[r] = to
      /\ \A q \in Returns \ {r} : pspRow'[q] = pspRow[q]
    BY DEF MoneyInv
<1>3. \A k \in Desks : ~AsksTheMoney(k, r)'
    BY <1>1 DEF MoneyInv, OneAsks
<1>4. Reserved' /\ OneAsks'
    BY <1>1, <1>2, <1>3 DEF MoneyInv, Reserved, OneAsks
<1>5. ASSUME NEW q \in Returns, slips' = 0, paidOut'[q] # 0
      PROVE  pspRow'[q] # "none" /\ \A k \in Desks : ~AsksTheMoney(k, q)'
  <2>1. CASE q = r
    <3>1. paidOut[r] = 0
      BY <1>5 DEF MoneyInv, PaidKeepsItsRow
    <3>2. to # "none"
      BY <1>5, <2>1, <3>1
    <3> QED
      BY <1>2, <1>3, <2>1, <3>2
  <2>2. CASE q # r
    BY <1>1, <1>2, <1>5, <2>2 DEF MoneyInv, PaidKeepsItsRow
  <2> QED
    BY <2>1, <2>2
<1>6. PaidKeepsItsRow'
    BY <1>5 DEF PaidKeepsItsRow
<1> QED
    BY <1>2, <1>4, <1>6 DEF MoneyInv

\* The row of a return is reserved by one desk.
LEMMA ReservingKeepsTheMoney ==
    ASSUME AfterInv, MoneyInv, NEW d \in Desks, ReserveRefund(d)
    PROVE  MoneyInv'
<1>1. PICK r \in Returns : r = desk[d].ret /\ desk[d].step = "ask"
    BY DEF ReserveRefund, AfterInv, AfterTypes, DeskState, IdleDesk
<1>2. paidOut' = paidOut /\ slips' = slips /\ desk \in [Desks -> DeskState]
    BY DEF ReserveRefund, AfterInv, AfterTypes
<1>3. CASE pspRow' = pspRow /\ desk' = [desk EXCEPT ![d] = [step |-> "mark", ret |-> r]]
  <2>1. \A k \in Desks, q \in Returns : AsksTheMoney(k, q)' => AsksTheMoney(k, q)
    BY <1>2, <1>3 DEF AsksTheMoney
  <2> QED
    BY <1>2, <1>3, <2>1, OtherDesksKeepTheMoney DEF MoneyInv
<1>4. CASE /\ pspRow[r] = "none" /\ pspRow' = [pspRow EXCEPT ![r] = "requested"]
           /\ desk' = [desk EXCEPT ![d].step = "psp"]
  <2>1. desk'[d].step = "psp" /\ desk'[d].ret = r /\ \A k \in Desks \ {d} : desk'[k] = desk[k]
    <3>1. desk[d] \in [step : {"ask", "psp"}, ret : Returns, all : BOOLEAN, amount : Nat]
      BY <1>1, <1>2 DEF DeskState, IdleDesk
    <3>2. desk'[d] = [desk[d] EXCEPT !.step = "psp"]
      BY <1>2, <1>4
    <3> QED
      BY <1>1, <1>2, <1>4, <3>1, <3>2
  <2>2. \A k \in Desks : ~AsksTheMoney(k, r)
    BY <1>4 DEF MoneyInv, Reserved
  <2>3. \A k \in Desks, q \in Returns :
            AsksTheMoney(k, q)' <=> AsksTheMoney(k, q) \/ (k = d /\ q = r)
    BY <1>1, <2>1 DEF AsksTheMoney
  <2>4. /\ pspRow' \in [Returns -> {"none", "requested", "refunded"}] /\ pspRow'[r] = "requested"
        /\ \A q \in Returns \ {r} : pspRow'[q] = pspRow[q]
    BY <1>4 DEF MoneyInv
  <2>5. Reserved' /\ OneAsks'
    BY <2>2, <2>3, <2>4 DEF MoneyInv, Reserved, OneAsks
  <2>6. PaidKeepsItsRow'
    BY <1>2, <1>4, <2>3, <2>4 DEF MoneyInv, PaidKeepsItsRow
  <2> QED
    BY <1>2, <2>4, <2>5, <2>6 DEF MoneyInv
<1> QED
    BY <1>1, <1>3, <1>4 DEF ReserveRefund

\* The PSP pays, refuses, or its answer is lost.
LEMMA AnswersKeepTheMoney ==
    ASSUME AfterInv, MoneyInv, NEW d \in Desks,
           PspRefunds(d) \/ PspRefuses(d) \/ PspAnswerLost(d)
    PROVE  MoneyInv'
<1>1. PICK r \in Returns : r = desk[d].ret
    BY DEF PspRefunds, PspRefuses, PspAnswerLost, AfterInv, AfterTypes, DeskState, IdleDesk
<1>2. /\ AsksTheMoney(d, r) /\ desk \in [Desks -> DeskState] /\ desk[d].step = "psp"
      /\ pspRow[r] = "requested" /\ paidOut \in [Returns -> Int] /\ slips \in Nat
      /\ pspRow \in [Returns -> {"none", "requested", "refunded"}]
    BY <1>1 DEF PspRefunds, PspRefuses, PspAnswerLost, AsksTheMoney, AfterInv, AfterTypes,
               MoneyInv, Reserved
<1>3. PspPays(d) \in Int
    BY <1>2, PaymentsAreCents
<1>4. \A n \in Int : /\ [paidOut EXCEPT ![r] = @ + n] \in [Returns -> Int]
                     /\ \A k \in Returns \ {r} : [paidOut EXCEPT ![r] = @ + n][k] = paidOut[k]
    BY <1>2
<1>5. CASE PspRefunds(d)
  <2> DEFINE e == [step |-> "mark", ret |-> r]
  <2>1. e \in DeskState /\ e.step # "psp"
    BY DEF DeskState
  <2>2. PICK to \in {"requested", "refunded"} : pspRow' = [pspRow EXCEPT ![r] = to]
    BY <1>1, <1>5 DEF PspRefunds
  <2>3. /\ desk' = [desk EXCEPT ![d] = e] /\ slips' = slips
        /\ paidOut' = [paidOut EXCEPT ![r] = @ + PspPays(d)]
    BY <1>1, <1>5 DEF PspRefunds
  <2> HIDE DEF e
  <2>4. paidOut' \in [Returns -> Int] /\ \A k \in Returns \ {r} : paidOut'[k] = paidOut[k]
    BY <1>3, <1>4, <2>3
  <2> QED
    BY <1>2, <2>1, <2>2, <2>3, <2>4, LeavingTheRow
<1>6. ASSUME pspRow' = [pspRow EXCEPT ![r] = IF @ = "requested" THEN "none" ELSE @]
      PROVE  pspRow' = [pspRow EXCEPT ![r] = "none"]
    BY <1>2, <1>6
<1>7. IdleDesk \in DeskState /\ IdleDesk.step # "psp"
    BY DEF DeskState, IdleDesk
<1>8. CASE PspRefuses(d)
  <2>1. /\ desk' = [desk EXCEPT ![d] = IdleDesk] /\ slips' = slips /\ paidOut' = paidOut
        /\ pspRow' = [pspRow EXCEPT ![r] = "none"]
    BY <1>1, <1>6, <1>8 DEF PspRefuses, DropRow
  <2> QED
    BY <1>2, <1>7, <2>1, LeavingTheRow
<1>9. CASE PspAnswerLost(d)
  <2>1. /\ desk' = [desk EXCEPT ![d] = IdleDesk] /\ slips' = slips + 1
        /\ pspRow' = [pspRow EXCEPT ![r] = "none"]
        /\ paidOut' = paidOut \/ paidOut' = [paidOut EXCEPT ![r] = @ + PspPays(d)]
    BY <1>1, <1>6, <1>9 DEF PspAnswerLost, DropRow, Slip
  <2>2. paidOut' \in [Returns -> Int] /\ \A k \in Returns \ {r} : paidOut'[k] = paidOut[k]
    BY <1>2, <1>3, <1>4, <2>1
  <2>3. slips' \in Nat /\ slips' # 0
    BY <1>2, <2>1
  <2> QED
    BY <1>2, <1>7, <2>1, <2>2, <2>3, LeavingTheRow
<1> QED
    BY <1>5, <1>8, <1>9

\* Every step keeps track of the money.
LEMMA MoneyStep ==
    ASSUME AfterInv, MoneyInv, [AfterNext]_afterVars
    PROVE  MoneyInv'
<1>0. slips \in Nat /\ desk \in [Desks -> DeskState]
    BY DEF MoneyInv, AfterInv, AfterTypes
<1>1. CASE \E d \in Desks : ReserveRefund(d)
    BY <1>1, ReservingKeepsTheMoney
<1>2. CASE \E d \in Desks : PspRefunds(d) \/ PspRefuses(d) \/ PspAnswerLost(d)
    BY <1>2, AnswersKeepTheMoney
<1>3. ASSUME NEW d \in Desks, NEW e, e.step # "psp", desk' = [desk EXCEPT ![d] = e]
      PROVE  \A k \in Desks, r \in Returns : AsksTheMoney(k, r)' => AsksTheMoney(k, r)
    BY <1>0, <1>3 DEF AsksTheMoney
<1>4. ASSUME NEW d \in Desks, NEW r \in Returns, BeginRefund(d, r) PROVE MoneyInv'
  <2>1. PICK e : e.step # "psp" /\ desk' = [desk EXCEPT ![d] = e]
    BY <1>4 DEF BeginRefund
  <2>2. UNCHANGED <<pspRow, paidOut>> /\ slips' = slips
    BY <1>4 DEF BeginRefund, pspVars
  <2> QED
    BY <1>0, <1>3, <2>1, <2>2, OtherDesksKeepTheMoney
<1>5. ASSUME NEW d \in Desks, NEW r \in Returns, NEW q \in UsableUnits(r), ReceiveReturn(d, r, q)
      PROVE  MoneyInv'
  <2> DEFINE e == IF UnitsIn(q) = 0 THEN IdleDesk
                  ELSE [step |-> "restock", ret |-> r, items |-> q]
  <2>1. e.step # "psp" /\ desk' = [desk EXCEPT ![d] = e]
    BY <1>5 DEF ReceiveReturn, IdleDesk
  <2> HIDE DEF e
  <2>2. UNCHANGED <<pspRow, paidOut>> /\ slips' = slips
    BY <1>5 DEF ReceiveReturn, pspVars
  <2> QED
    BY <1>0, <1>3, <2>1, <2>2, OtherDesksKeepTheMoney
<1>6. ASSUME NEW d \in Desks,
             RestockReturn(d) \/ PostRefund(d) \/ StepFails(d) \/ PaymentDies(d)
      PROVE  MoneyInv'
  <2>1. desk' = [desk EXCEPT ![d] = IdleDesk] /\ IdleDesk.step # "psp"
    BY <1>6 DEF RestockReturn, PostRefund, StepFails, PaymentDies, IdleDesk
  <2>2. UNCHANGED <<pspRow, paidOut>> /\ (slips' = slips \/ slips' = slips + 1)
    BY <1>6 DEF RestockReturn, PostRefund, StepFails, PaymentDies, pspVars, SetFlag, Slip
  <2>3. slips' \in Nat /\ (slips' = 0 => slips = 0)
    BY <1>0, <2>2
  <2> QED
    BY <1>3, <2>1, <2>2, <2>3, OtherDesksKeepTheMoney
<1>7. ASSUME NEW d \in Desks, MarkRefunded(d) PROVE MoneyInv'
  <2>1. desk[d] \in [step : {"mark", "book"}, ret : Returns]
    BY <1>0, <1>7 DEF MarkRefunded, DeskState, IdleDesk
  <2>2. desk' = [desk EXCEPT ![d] = [desk[d] EXCEPT !.step = "book"]]
    BY <1>0, <1>7 DEF MarkRefunded
  <2>3. [desk[d] EXCEPT !.step = "book"].step = "book"
    BY <2>1
  <2>4. UNCHANGED <<pspRow, paidOut>> /\ slips' = slips
    BY <1>7 DEF MarkRefunded, pspVars
  <2> QED
    BY <1>0, <1>3, <2>2, <2>3, <2>4, OtherDesksKeepTheMoney
<1>8. CASE \/ UNCHANGED afterVars \/ NextDay
           \/ \E r \in Returns, q \in Wanted, actor \in {"owner", "staff", "stranger"},
                 reason \in BOOLEAN : OpenReturn(r, q, actor, reason)
           \/ \E r \in Returns, to \in {"approved", "rejected"}, note \in BOOLEAN :
                 DecideReturn(r, to, note)
  <2>1. UNCHANGED <<desk, pspRow, paidOut, slips>>
    BY <1>8 DEF OpenReturn, DecideReturn, NextDay, afterVars, pspVars
  <2>2. \A k \in Desks, r \in Returns : AsksTheMoney(k, r)' => AsksTheMoney(k, r)
    BY <2>1 DEF AsksTheMoney
  <2> QED
    BY <1>0, <2>1, <2>2, OtherDesksKeepTheMoney
<1> QED
    BY <1>1, <1>2, <1>4, <1>5, <1>6, <1>7, <1>8 DEF AfterNext

\* The PSP pays on account of a return only after its goods were counted in and for the one
\* request that reserved its row (refund_psp.go), and pays a second time only where something
\* has failed: a lost answer undoes the row of what was paid.
THEOREM MoneyWaitsForTheGoods == AfterSpec => MoneyLeavesAfterTheGoods
<1> DEFINE A == \A r \in Returns : paidOut'[r] # paidOut[r] =>
                    /\ ret[r].status \in {"received", "refunded"} /\ pspRow[r] = "requested"
                    /\ paidOut[r] = 0 \/ slips > 0
<1>1. ASSUME AfterInv, MoneyInv, [AfterNext]_afterVars PROVE A
  <2> SUFFICES ASSUME NEW r \in Returns, paidOut'[r] # paidOut[r]
               PROVE  /\ ret[r].status \in {"received", "refunded"} /\ pspRow[r] = "requested"
                      /\ paidOut[r] = 0 \/ slips > 0
      OBVIOUS
  <2>1. PICK d \in Desks : PspRefunds(d) \/ PspAnswerLost(d)
    BY <1>1 DEF AfterNext, afterVars, pspVars, OpenReturn, DecideReturn, ReceiveReturn,
                BeginRefund, RestockReturn, ReserveRefund, PspRefuses, MarkRefunded, PostRefund,
                StepFails, PaymentDies, NextDay
  <2>2. AsksTheMoney(d, r)
    <3>1. paidOut \in [Returns -> Int]
      BY <1>1 DEF MoneyInv
    <3>2. desk[d].step = "psp" /\ paidOut' = [paidOut EXCEPT ![desk[d].ret] = @ + PspPays(d)]
      BY <2>1 DEF PspRefunds, PspAnswerLost
    <3> QED
      BY <3>1, <3>2 DEF AsksTheMoney
  <2>3. ret[r].status \in {"received", "refunded"}
    BY <1>1, <2>2 DEF AfterInv, DesksAreInTime, InTime, Inspected, AsksTheMoney
  <2>4. pspRow[r] = "requested" /\ slips \in Nat /\ (slips = 0 => paidOut[r] = 0)
    BY <1>1, <2>2 DEF MoneyInv, Reserved, PaidKeepsItsRow
  <2> QED
    BY <2>3, <2>4
<1>2. AfterInv /\ MoneyInv /\ [AfterNext]_afterVars => MoneyInv'
    BY MoneyStep
<1>3. AfterInv /\ MoneyInv /\ [AfterNext]_afterVars => [A]_afterVars
    BY <1>1
<1>4. AfterSpec => [][A]_afterVars
  <2> HIDE DEF A
  <2> QED
    BY <1>2, <1>3, AfterInvAlways, InitMoney, PTL DEF AfterSpec
<1> QED
    BY <1>4 DEF MoneyLeavesAfterTheGoods

-----------------------------------------------------------------------------
(* What the ledger says of returns *)

\* What a row of order_returns is worth. Who asks for a refund asks for something, what is
\* refunded was worth something, and the ledger and the flag of the row say so.
Worth(row) == UnitsIn(row.items) + row.shipping
Asking(e) == e.step \in {"ask", "psp", "mark"}
WorthInv ==
    /\ LedgerType
    /\ \A d \in Desks : Asking(desk[d]) => Worth(ret[desk[d].ret]) > 0
    /\ \A r \in Returns : ret[r].status = "refunded" => Worth(ret[r]) > 0
    /\ \A r \in Returns :
         /\ ledger[r] > 0 => ret[r].status = "refunded" /\ ledger[r] = Worth(ret[r])
         /\ ret[r].posted => ledger[r] > 0

\* A return changes, and is worth what it was, or had not come back yet.
LEMMA RowKeepsWorth ==
    ASSUME AfterInv, WorthInv, NEW r \in Returns, NEW row \in ReturnRow,
           ret' = [ret EXCEPT ![r] = row], ledger' = ledger,
           Worth(row) = Worth(ret[r]) \/ ret[r].status \notin Inspected,
           ret[r].status = "refunded" => row.status = "refunded",
           row.status = "refunded" => Worth(row) > 0,
           row.posted => ret[r].posted,
           \A d \in Desks : desk'[d] = desk[d] \/ ~Asking(desk'[d])
    PROVE  WorthInv'
<1>1. ret'[r] = row /\ \A k \in Returns \ {r} : ret'[k] = ret[k]
    BY DEF AfterInv, AfterTypes
<1>2. ASSUME NEW d \in Desks, Asking(desk[d])
      PROVE  /\ desk[d].ret \in Returns /\ ret[desk[d].ret].status \in Inspected
             /\ Worth(ret[desk[d].ret]) > 0
    BY <1>2 DEF AfterInv, AfterTypes, DesksAreInTime, InTime, DeskState, IdleDesk, Asking, WorthInv
<1>3. ASSUME NEW d \in Desks, Asking(desk'[d]) PROVE Worth(ret'[desk'[d].ret]) > 0
    BY <1>1, <1>2, <1>3
<1>4. ASSUME NEW k \in Returns
      PROVE  /\ ret'[k].status = "refunded" => Worth(ret'[k]) > 0
             /\ ledger[k] > 0 => ret'[k].status = "refunded" /\ ledger[k] = Worth(ret'[k])
             /\ ret'[k].posted => ledger[k] > 0
    BY <1>1 DEF WorthInv, Inspected
<1>5. LedgerType'
    BY DEF WorthInv, LedgerType
<1>6. \A d \in Desks : Asking(desk'[d]) => Worth(ret'[desk'[d].ret]) > 0
    BY <1>3
<1>7. \A k \in Returns : ret'[k].status = "refunded" => Worth(ret'[k]) > 0
    BY <1>4
<1>8. \A k \in Returns : /\ ledger'[k] > 0 => ret'[k].status = "refunded" /\ ledger'[k] = Worth(ret'[k])
                         /\ ret'[k].posted => ledger'[k] > 0
    BY <1>4
<1> QED
    BY <1>5, <1>6, <1>7, <1>8 DEF WorthInv, Worth, Asking

\* A desk moves, and asks for a return that is worth something.
LEMMA DeskKeepsWorth ==
    ASSUME AfterInv, WorthInv, NEW d \in Desks, NEW e, desk' = [desk EXCEPT ![d] = e],
           ret' = ret, ledger' = ledger, Asking(e) => Worth(ret[e.ret]) > 0
    PROVE  WorthInv'
<1>1. desk'[d] = e /\ \A k \in Desks \ {d} : desk'[k] = desk[k]
    BY DEF AfterInv, AfterTypes
<1>2. \A k \in Desks : Asking(desk'[k]) => Worth(ret'[desk'[k].ret]) > 0
    BY <1>1 DEF WorthInv
<1> QED
    BY <1>2 DEF WorthInv, Worth, Asking, LedgerType

\* A flag of a return says nothing of its worth.
LEMMA FlagsAreWorthNothing ==
    ASSUME NEW row \in ReturnRow
    PROVE  /\ [row EXCEPT !.stock = TRUE] \in ReturnRow /\ [row EXCEPT !.posted = TRUE] \in ReturnRow
           /\ Worth([row EXCEPT !.stock = TRUE]) = Worth(row)
           /\ Worth([row EXCEPT !.posted = TRUE]) = Worth(row)
           /\ [row EXCEPT !.stock = TRUE].status = row.status
           /\ [row EXCEPT !.posted = TRUE].status = row.status
           /\ [row EXCEPT !.stock = TRUE].posted = row.posted
           /\ [row EXCEPT !.posted = TRUE].posted
           /\ Worth(row) \in Nat
<1>1. /\ [row EXCEPT !.stock = TRUE] \in ReturnRow /\ [row EXCEPT !.posted = TRUE] \in ReturnRow
      /\ [row EXCEPT !.stock = TRUE].items = row.items
      /\ [row EXCEPT !.stock = TRUE].shipping = row.shipping
      /\ [row EXCEPT !.posted = TRUE].items = row.items
      /\ [row EXCEPT !.posted = TRUE].shipping = row.shipping
      /\ [row EXCEPT !.stock = TRUE].status = row.status
      /\ [row EXCEPT !.posted = TRUE].status = row.status
      /\ [row EXCEPT !.stock = TRUE].posted = row.posted
      /\ [row EXCEPT !.posted = TRUE].posted
    BY DEF ReturnRow
<1>2. UnitsIn(row.items) \in Nat /\ row.shipping \in Nat
    BY UnitsAreCounted DEF ReturnRow
<1> QED
    BY <1>1, <1>2 DEF Worth

\* A return changes its status.
LEMMA StatusKeepsWorth ==
    ASSUME AfterInv, WorthInv, NEW r \in Returns, NEW to, CanTransition(ret[r].status, to),
           ret' = [ret EXCEPT ![r].status = to], ledger' = ledger,
           to = "refunded" => Worth(ret[r]) > 0,
           \A d \in Desks : desk'[d] = desk[d] \/ ~Asking(desk'[d])
    PROVE  WorthInv'
<1> DEFINE row == [ret[r] EXCEPT !.status = to]
<1>1. ret[r] \in ReturnRow /\ ret' = [ret EXCEPT ![r] = row]
    BY DEF AfterInv, AfterTypes
<1>2. to \in {"approved", "rejected", "cancelled", "in_transit", "received", "refunded"}
      /\ ret[r].status # "refunded"
    BY DEF CanTransition
<1>3. /\ row \in ReturnRow /\ row.items = ret[r].items /\ row.shipping = ret[r].shipping
      /\ row.status = to /\ row.posted = ret[r].posted
    BY <1>1, <1>2 DEF ReturnRow
<1>4. Worth(row) = Worth(ret[r])
    BY <1>3 DEF Worth
<1>5. /\ ret[r].status = "refunded" => row.status = "refunded"
      /\ row.status = "refunded" => Worth(row) > 0
      /\ row.posted => ret[r].posted
    BY <1>2, <1>3, <1>4
<1> HIDE DEF row
<1>6. row \in ReturnRow
    BY <1>3
<1> QED
    BY <1>1, <1>4, <1>5, <1>6, RowKeepsWorth

\* The entry of a refund, and its flag.
LEMMA PostKeepsWorth ==
    ASSUME AfterInv, WorthInv, NEW d \in Desks, PostRefund(d)
    PROVE  WorthInv'
<1>0. desk[d].ret \in Returns
    BY DEF PostRefund, AfterInv, AfterTypes, DeskState, IdleDesk
<1> PICK r \in Returns : r = desk[d].ret
    BY <1>0
<1> DEFINE row == [ret[r] EXCEPT !.posted = TRUE]
<1>1. /\ ret \in [Returns -> ReturnRow] /\ ret[r] \in ReturnRow /\ ret[r].status = "refunded"
      /\ ledger \in [Returns -> Nat]
    BY DEF PostRefund, AfterInv, AfterTypes, DesksAreInTime, InTime, DeskState, IdleDesk,
           WorthInv, LedgerType
<1>2. row \in ReturnRow /\ row.status = ret[r].status /\ Worth(row) = Worth(ret[r])
      /\ Worth(ret[r]) \in Nat /\ Worth(ret[r]) > 0
    BY <1>1, FlagsAreWorthNothing DEF WorthInv
<1>3. /\ ret' = [ret EXCEPT ![r] = row] \/ ret' = ret
      /\ desk' = [desk EXCEPT ![d] = IdleDesk]
    BY DEF PostRefund, SetFlag
<1>4. ledger' = [ledger EXCEPT ![r] = IF @ = 0 THEN Worth(ret[r]) ELSE @]
    BY DEF PostRefund, BookRefund, RefundValue, Worth
<1> HIDE DEF row
<1>5. /\ ledger' \in [Returns -> Nat] /\ ledger'[r] = Worth(ret[r])
      /\ \A k \in Returns \ {r} : ledger'[k] = ledger[k]
    BY <1>1, <1>2, <1>4 DEF WorthInv
<1>6. /\ \A k \in Returns : ret'[k].status = ret[k].status /\ Worth(ret'[k]) = Worth(ret[k])
      /\ \A k \in Returns \ {r} : ret'[k] = ret[k]
    BY <1>1, <1>2, <1>3
<1>7. \A k \in Desks : Asking(desk'[k]) => k # d /\ desk'[k] = desk[k] /\ desk[k].ret \in Returns
    BY <1>3 DEF AfterInv, AfterTypes, DeskState, IdleDesk, Asking
<1>8. \A k \in Desks : Asking(desk'[k]) => Worth(ret'[desk'[k].ret]) > 0
    BY <1>6, <1>7 DEF WorthInv
<1>9. \A k \in Returns : ret'[k].status = "refunded" => Worth(ret'[k]) > 0
    BY <1>6 DEF WorthInv
<1>10. ASSUME NEW k \in Returns
       PROVE  /\ ledger'[k] > 0 => ret'[k].status = "refunded" /\ ledger'[k] = Worth(ret'[k])
              /\ ret'[k].posted => ledger'[k] > 0
  <2>1. CASE k = r
    BY <1>1, <1>2, <1>5, <1>6, <2>1
  <2>2. CASE k # r
    BY <1>5, <1>6, <2>2 DEF WorthInv
  <2> QED
    BY <2>1, <2>2
<1>11. LedgerType'
    BY <1>5 DEF LedgerType
<1> QED
    BY <1>8, <1>9, <1>10, <1>11 DEF WorthInv, Worth, Asking

\* Every step keeps the ledger in line with the returns.
LEMMA WorthStep ==
    ASSUME AfterInv, WorthInv, [AfterNext]_afterVars
    PROVE  WorthInv'
<1>0. ret \in [Returns -> ReturnRow] /\ desk \in [Desks -> DeskState]
    BY DEF AfterInv, AfterTypes
<1>1. ASSUME NEW r \in Returns, NEW q \in Wanted, NEW actor, NEW reason,
             OpenReturn(r, q, actor, reason)
      PROVE  WorthInv'
  <2> DEFINE row == ret'[r]
  <2>1. /\ ret[r].status = "none" /\ desk' = desk /\ ledger' = ledger
        /\ \E x : ret' = [ret EXCEPT ![r] = x]
    BY <1>1 DEF OpenReturn
  <2>2. AfterInv'
    BY <1>1, OpenKeeps
  <2>3. row \in ReturnRow /\ ret' = [ret EXCEPT ![r] = row]
    BY <1>0, <2>1, <2>2 DEF AfterInv, AfterTypes
  <2>4. row.status \in {"approved", "requested"} /\ ~row.posted
    BY <1>0, <1>1 DEF OpenReturn, NoOne
  <2> HIDE DEF row
  <2>5. /\ ret[r].status \notin Inspected /\ (ret[r].status = "refunded" => row.status = "refunded")
        /\ (row.status = "refunded" => Worth(row) > 0) /\ (row.posted => ret[r].posted)
    BY <2>1, <2>4 DEF Inspected
  <2> QED
    BY <2>1, <2>3, <2>5, RowKeepsWorth
<1>2. ASSUME NEW r \in Returns, NEW to \in {"approved", "rejected"}, NEW note, DecideReturn(r, to, note)
      PROVE  WorthInv'
    BY <1>2, StatusKeepsWorth DEF DecideReturn
<1>3. ASSUME NEW d \in Desks, NEW r \in Returns, NEW q \in UsableUnits(r), ReceiveReturn(d, r, q)
      PROVE  WorthInv'
  <2>1. \A k \in Desks : desk'[k] = desk[k] \/ ~Asking(desk'[k])
    BY <1>0, <1>3 DEF ReceiveReturn, Asking, IdleDesk
  <2> QED
    BY <1>3, <2>1, StatusKeepsWorth DEF ReceiveReturn
<1>4. ASSUME NEW d \in Desks, RestockReturn(d) PROVE WorthInv'
  <2>1. PICK r \in Returns : r = desk[d].ret
    BY <1>0, <1>4 DEF RestockReturn, DeskState, IdleDesk
  <2> DEFINE row == [ret[r] EXCEPT !.stock = TRUE]
  <2>2. /\ row \in ReturnRow /\ Worth(row) = Worth(ret[r]) /\ row.status = ret[r].status
        /\ row.posted = ret[r].posted
    BY <1>0, FlagsAreWorthNothing
  <2>3. /\ ret' = [ret EXCEPT ![r] = row] \/ ret' = ret
        /\ desk' = [desk EXCEPT ![d] = IdleDesk] /\ ledger' = ledger
    BY <1>4, <2>1 DEF RestockReturn, SetFlag
  <2>4. (\A k \in Desks : desk'[k] = desk[k] \/ ~Asking(desk'[k])) /\ ~Asking(IdleDesk)
    BY <1>0, <2>3 DEF Asking, IdleDesk
  <2>5. ret[r].status = "refunded" => Worth(row) > 0
    BY <2>2 DEF WorthInv
  <2> HIDE DEF row
  <2>6. CASE ret' = [ret EXCEPT ![r] = row]
    BY <2>2, <2>3, <2>4, <2>5, <2>6, RowKeepsWorth
  <2>7. CASE ret' = ret
    BY <2>3, <2>4, <2>7, DeskKeepsWorth
  <2> QED
    BY <2>3, <2>6, <2>7
<1>5. ASSUME NEW d \in Desks, NEW r \in Returns, BeginRefund(d, r) PROVE WorthInv'
  <2>1. CASE desk' = [desk EXCEPT ![d] = [step |-> "book", ret |-> r]]
    BY <1>5, <2>1, DeskKeepsWorth DEF BeginRefund, Asking
  <2>2. CASE /\ RefundValue(r) > 0
             /\ desk' = [desk EXCEPT ![d] = [step |-> "ask", ret |-> r, all |-> FullReturn,
                                             amount |-> RefundValue(r)]]
    <3> DEFINE e == [step |-> "ask", ret |-> r, all |-> FullReturn, amount |-> RefundValue(r)]
    <3>1. Worth(ret[e.ret]) > 0
      BY <2>2 DEF RefundValue, Worth
    <3> HIDE DEF e
    <3> QED
      BY <1>5, <2>2, <3>1, DeskKeepsWorth DEF BeginRefund, e
  <2> QED
    BY <1>5, <2>1, <2>2 DEF BeginRefund
<1>6. ASSUME NEW d \in Desks,
             \/ ReserveRefund(d) \/ PspRefunds(d) \/ PspRefuses(d)
             \/ StepFails(d) \/ PspAnswerLost(d) \/ PaymentDies(d)
      PROVE  WorthInv'
  <2>1. ret' = ret /\ ledger' = ledger
    BY <1>6 DEF ReserveRefund, PspRefunds, PspRefuses, StepFails, PspAnswerLost, PaymentDies
  <2>2. CASE desk' = [desk EXCEPT ![d] = IdleDesk]
    BY <2>1, <2>2, DeskKeepsWorth DEF Asking, IdleDesk
  <2>3. CASE /\ desk[d].step \in {"ask", "psp"}
             /\ desk' = [desk EXCEPT ![d] = [step |-> "mark", ret |-> desk[d].ret]]
    <3> DEFINE e == [step |-> "mark", ret |-> desk[d].ret]
    <3>1. Worth(ret[e.ret]) > 0
      BY <2>3 DEF WorthInv, Asking
    <3> HIDE DEF e
    <3> QED
      BY <2>1, <2>3, <3>1, DeskKeepsWorth DEF e
  <2>4. CASE desk[d].step = "ask" /\ desk' = [desk EXCEPT ![d].step = "psp"]
    <3> DEFINE e == [desk[d] EXCEPT !.step = "psp"]
    <3>1. desk[d] \in [step : {"ask", "psp"}, ret : Returns, all : BOOLEAN, amount : Nat]
      BY <1>0, <2>4 DEF DeskState, IdleDesk
    <3>2. e.ret = desk[d].ret /\ desk' = [desk EXCEPT ![d] = e]
      BY <2>4, <3>1
    <3>3. Worth(ret[e.ret]) > 0
      BY <2>4, <3>2 DEF WorthInv, Asking
    <3> HIDE DEF e
    <3> QED
      BY <2>1, <3>2, <3>3, DeskKeepsWorth
  <2> QED
    BY <1>6, <2>2, <2>3, <2>4 DEF ReserveRefund, PspRefunds, PspRefuses, StepFails,
                                  PspAnswerLost, PaymentDies
<1>7. ASSUME NEW d \in Desks, MarkRefunded(d) PROVE WorthInv'
  <2>1. PICK r \in Returns : r = desk[d].ret /\ desk[d] = [step |-> "mark", ret |-> r]
    BY <1>0, <1>7 DEF MarkRefunded, DeskState, IdleDesk
  <2>2. Worth(ret[r]) > 0 /\ ret[r].status \in Inspected
    <3>1. desk[d].step = "mark" /\ desk[d].ret = r /\ Asking(desk[d])
      BY <2>1 DEF Asking
    <3>2. Worth(ret[desk[d].ret]) > 0
      BY <3>1 DEF WorthInv
    <3>3. ret[desk[d].ret].status \in Inspected
      BY <3>1 DEF AfterInv, DesksAreInTime, InTime
    <3> QED
      BY <3>1, <3>2, <3>3
  <2>3. /\ desk' = [desk EXCEPT ![d] = [step |-> "book", ret |-> r]] /\ ledger' = ledger
    <3>1. [desk[d] EXCEPT !.step = "book"] = [step |-> "book", ret |-> r]
      BY <2>1
    <3> QED
      BY <1>0, <1>7, <3>1 DEF MarkRefunded
  <2>4. CASE ret' = ret
    BY <2>3, <2>4, DeskKeepsWorth DEF Asking
  <2>5. CASE ret[r].status # "refunded" /\ ret' = [ret EXCEPT ![r].status = "refunded"]
    <3>1. CanTransition(ret[r].status, "refunded")
      BY <2>2, <2>5 DEF Inspected, CanTransition
    <3>2. \A k \in Desks : desk'[k] = desk[k] \/ ~Asking(desk'[k])
      BY <1>0, <2>3 DEF Asking
    <3> QED
      BY <2>2, <2>3, <2>5, <3>1, <3>2, StatusKeepsWorth
  <2> QED
    BY <1>7, <2>1, <2>4, <2>5 DEF MarkRefunded
<1>8. ASSUME NEW d \in Desks, PostRefund(d) PROVE WorthInv'
    BY <1>8, PostKeepsWorth
<1>9. CASE NextDay \/ UNCHANGED afterVars
    BY <1>9 DEF NextDay, afterVars, WorthInv, Worth, Asking, LedgerType
<1> QED
    BY <1>1, <1>2, <1>3, <1>4, <1>5, <1>6, <1>7, <1>8, <1>9 DEF AfterNext

\* The ledger has of a return exactly what it is worth, once it is refunded for good, and what
\* its row says was posted is in the ledger (return_refund.go, returns.go), whatever answers
\* were lost and however often it was posted.
THEOREM RefundsStayInTheBook == AfterSpec => []RefundsAreBookedAsDecided
<1>1. AfterInit => WorthInv
  <2> SUFFICES ASSUME AfterInit PROVE WorthInv
    OBVIOUS
  <2>1. \A r \in Returns : ret[r].status = "none" /\ ~ret[r].posted /\ ledger[r] = 0
    BY DEF AfterInit, NoOne
  <2>2. \A d \in Desks : ~Asking(desk[d])
    BY DEF AfterInit, IdleDesk, Asking
  <2>3. LedgerType
    BY DEF AfterInit, LedgerType
  <2> QED
    BY <2>1, <2>2, <2>3 DEF WorthInv
<1>2. WorthInv => RefundsAreBookedAsDecided
    BY DEF WorthInv, RefundsAreBookedAsDecided, RefundValue, Worth
<1> QED
    BY <1>1, <1>2, WorthStep, AfterInvAlways, PTL DEF AfterSpec
-----------------------------------------------------------------------------
(* What an order is worth once its coupon and its cashback are off *)

\* What is off a cart is at most its goods, and what it asks of the balance at most what is
\* left of them; a coupon was not created with a negative value.
FairInv ==
    /\ coupon.code => coupon.value >= 0
    /\ \A c \in Carts :
         /\ cart[c].step \in {"quoted", "open"} => cart[c].off \in 0..Gross(c)
         /\ cart[c].step = "open" => cart[c].want \in 0..Net(c)
    /\ NobodyIsPaidToBuy

\* A share of an amount, rounded, is an amount; at most a hundred hundredths are at most it.
LEMMA ShareIsWithin ==
    \A n, p \in Nat : Rounded(n * p, 100) \in Nat /\ (p <= 100 => Rounded(n * p, 100) <= n)
<1> SUFFICES ASSUME NEW n \in Nat, NEW p \in Nat
             PROVE  Rounded(n * p, 100) \in Nat /\ (p <= 100 => Rounded(n * p, 100) <= n)
    OBVIOUS
<1> DEFINE m == n * p
<1>1. m \in Nat
    OBVIOUS
<1>2. p <= 100 => m <= 100 * n
  <2> SUFFICES ASSUME p <= 100 PROVE m <= 100 * n
    OBVIOUS
  <2>1. 100 - p \in Nat
    OBVIOUS
  <2>2. n * (100 - p) \in Nat
    BY <2>1
  <2>3. n * (100 - p) = 100 * n - m
    OBVIOUS
  <2> QED
    BY <1>1, <2>2, <2>3
<1> HIDE DEF m
<1>3. (2 * m + 100) \div 200 \in Nat /\ (m <= 100 * n => (2 * m + 100) \div 200 <= n)
    BY <1>1
<1>4. Rounded(m, 100) = (2 * m + 100) \div 200
    BY DEF Rounded
<1>5. Rounded(n * p, 100) = Rounded(m, 100)
    BY DEF m
<1> QED
    BY <1>2, <1>3, <1>4, <1>5

\* A coupon takes something off the goods, and no more than them.
LEMMA DiscountIsWithin ==
    ASSUME PromoTypes, FairInv, coupon.code, NEW net \in Nat
    PROVE  Discount(coupon, net) \in 0..net
<1>1. coupon.value \in Nat
    BY DEF PromoTypes, NoCoupon, CouponRow, FairInv
<1>2. Rounded(net * coupon.value, 100) \in Nat
    BY <1>1, ShareIsWithin
<1> QED
    BY <1>1, <1>2 DEF Discount, Least

\* What may be redeemed is at most the goods.
LEMMA RedeemIsWithin ==
    ASSUME PromoTypes, NEW asked \in Int, NEW net \in Nat
    PROVE  ClampRedeem(asked, Balance, net) \in 0..net
<1>1. programme.redeemMax \in 0..100
    BY PromotionAssumption DEF PromoTypes
<1> DEFINE share == Rounded(net * programme.redeemMax, 100)
           b == Balance
           w == ClampRedeem(asked, b, net)
<1>2. share \in Nat /\ share <= net
    BY <1>1, ShareIsWithin
<1>3. ClampRedeem(asked, Balance, net) \in Int
    BY RedeemIsInt
<1>4. b \in Int
    BY BalanceIsInt
<1>5. \/ w = 0
      \/ asked > 0 /\ b > 0 /\ w = Least(asked, Least(b, share))
    BY <1>4 DEF ClampRedeem
<1> HIDE DEF share, b
<1>6. w \in 0..net
    BY <1>2, <1>4, <1>5 DEF Least
<1> QED
    BY <1>6 DEF b

\* Every step keeps the price of an order fair.
LEMMA FairStep ==
    ASSUME PromoInv, FairInv, [PromoNext]_promoVars
    PROVE  FairInv'
<1>0. /\ cart \in [Carts -> CartRow] /\ PromoTypes
      /\ \A c \in Carts : Gross(c) \in Nat /\ Ship[c] \in Nat
    BY GrossIsNat, PromotionAssumption DEF PromoInv, PromoTypes
<1>1. ASSUME NEW c \in Carts, NEW row \in CartRow, cart' = [cart EXCEPT ![c] = row],
             coupon'.code => coupon'.value >= 0,
             row.step \in {"quoted", "open"} => row.off \in 0..Gross(c),
             row.step = "open" => row.want \in 0..Gross(c) - row.off,
             row.step \in {"placed", "paid", "returned"} => row.total >= Ship[c]
      PROVE  FairInv'
  <2>1. cart'[c] = row /\ \A k \in Carts \ {c} : cart'[k] = cart[k]
    BY <1>0, <1>1
  <2>2. ASSUME NEW k \in Carts
        PROVE  /\ cart'[k].step \in {"quoted", "open"} => cart'[k].off \in 0..Gross(k)
               /\ cart'[k].step = "open" => cart'[k].want \in 0..Gross(k) - cart'[k].off
               /\ cart'[k].step \in {"placed", "paid", "returned"} => cart'[k].total >= Ship[k]
    <3>1. CASE k = c
      BY <1>1, <2>1, <3>1
    <3>2. CASE k # c
      BY <2>1, <3>2 DEF FairInv, Net, NobodyIsPaidToBuy
    <3> QED
      BY <3>1, <3>2
  <2> QED
    BY <1>1, <2>2 DEF FairInv, Net, Gross, NobodyIsPaidToBuy
<1>2. ASSUME cart' = cart, coupon'.code => coupon'.value >= 0 PROVE FairInv'
    BY <1>2 DEF FairInv, Net, Gross, NobodyIsPaidToBuy
<1>3. coupon' = coupon => (coupon'.code => coupon'.value >= 0)
    BY DEF FairInv
<1>4. ASSUME NEW c \in Carts, NEW b \in BOOLEAN, Quote(c, b) PROVE FairInv'
  <2> DEFINE off == IF b THEN Discount(coupon, Gross(c)) ELSE 0
             u == [cart[c] EXCEPT !.step = "quoted"]
             v == [u EXCEPT !.coupon = b]
             row == [v EXCEPT !.off = off]
  <2>1. off \in 0..Gross(c)
    <3>1. CASE b = TRUE
      <4>1. coupon.code
        BY <1>4, <3>1 DEF Quote, CouponUsable
      <4> QED
        BY <1>0, <3>1, <4>1, DiscountIsWithin
    <3>2. CASE b = FALSE
      BY <1>0, <3>2
    <3> QED
      BY <3>1, <3>2
  <2>2. cart' = [cart EXCEPT ![c] = row] /\ coupon' = coupon
    BY <1>0, <1>4 DEF Quote
  <2> HIDE DEF off
  <2>3. u \in CartRow /\ u.step = "quoted"
    BY <1>0 DEF CartRow
  <2> HIDE DEF u
  <2>4. v \in CartRow /\ v.step = "quoted"
    BY <2>3 DEF CartRow
  <2> HIDE DEF v
  <2>5. off \in Int
    BY <1>0, <2>1
  <2>6. row \in CartRow /\ row.step = "quoted" /\ row.off = off
    BY <2>4, <2>5 DEF CartRow
  <2> HIDE DEF row
  <2> QED
    BY <1>1, <1>3, <2>1, <2>2, <2>6
<1>5. ASSUME NEW c \in Carts, NEW asked \in {0, Gross(c)}, ReadBalance(c, asked) PROVE FairInv'
  <2> DEFINE want == ClampRedeem(asked, Balance, Net(c))
             u == [cart[c] EXCEPT !.step = "open"]
             row == [u EXCEPT !.want = want]
  <2>1. cart[c].off \in 0..Gross(c)
    BY <1>5 DEF ReadBalance, FairInv
  <2>2. Net(c) = Gross(c) - cart[c].off /\ Net(c) \in Nat /\ asked \in Int
    BY <1>0, <2>1 DEF Net
  <2>3. want \in 0..Net(c)
    BY <1>0, <2>2, RedeemIsWithin
  <2>4. cart' = [cart EXCEPT ![c] = row] /\ coupon' = coupon
    BY <1>0, <1>5 DEF ReadBalance
  <2> HIDE DEF want
  <2>5. u \in CartRow /\ u.step = "open" /\ u.off = cart[c].off
    BY <1>0 DEF CartRow
  <2> HIDE DEF u
  <2>6. want \in Int
    BY <2>2, <2>3
  <2>7. row \in CartRow /\ row.step = "open" /\ row.off = cart[c].off /\ row.want = want
    BY <2>5, <2>6 DEF CartRow
  <2> HIDE DEF row
  <2>8. row.off \in 0..Gross(c) /\ row.want \in 0..Gross(c) - row.off
    BY <2>1, <2>2, <2>3, <2>7
  <2> QED
    BY <1>1, <1>3, <2>4, <2>7, <2>8
<1>6. ASSUME NEW c \in Carts, Place(c) PROVE FairInv'
  <2>1. PICK taken \in Redemptions(cart[c].want) :
            cart' = [cart EXCEPT ![c].step = "placed", ![c].spent = SumOver(taken, Carts),
                          ![c].total = Net(c) + Ship[c] - SumOver(taken, Carts)]
    BY <1>6 DEF Place
  <2> DEFINE spent == SumOver(taken, Carts)
             total == Net(c) + Ship[c] - spent
             u == [cart[c] EXCEPT !.step = "placed"]
             v == [u EXCEPT !.spent = spent]
             row == [v EXCEPT !.total = total]
  <2>2. /\ cart[c].off \in 0..Gross(c) /\ cart[c].want \in 0..Net(c)
        /\ spent = Least(cart[c].want, Balance)
    BY <1>6 DEF Place, FairInv, Redemptions
  <2>3. Net(c) \in Nat /\ Net(c) = Gross(c) - cart[c].off
    BY <1>0, <2>2 DEF Net
  <2>4. spent \in Int /\ spent <= Net(c)
    <3>1. Balance \in Int
      BY <1>0, BalanceIsInt
    <3>2. cart[c].want \in 0..Net(c)
      BY <2>2
    <3>3. spent = Least(cart[c].want, Balance)
      BY <2>2
    <3> HIDE DEF spent
    <3> QED
      BY <2>3, <3>1, <3>2, <3>3 DEF Least
  <2>5. cart' = [cart EXCEPT ![c] = row]
    BY <1>0, <2>1
  <2>6. total \in Int /\ total >= Ship[c]
    <3> HIDE DEF spent
    <3> QED
      BY <1>0, <2>3, <2>4
  <2> HIDE DEF total, spent
  <2>7. u \in CartRow /\ u.step = "placed"
    BY <1>0 DEF CartRow
  <2> HIDE DEF u
  <2>8. v \in CartRow /\ v.step = "placed"
    BY <2>4, <2>7 DEF CartRow
  <2> HIDE DEF v
  <2>9. row \in CartRow /\ row.step = "placed" /\ row.total = total
    BY <2>6, <2>8 DEF CartRow
  <2> HIDE DEF row
  <2>10. coupon'.code => coupon'.value >= 0
    <3>1. coupon \in {NoCoupon} \union CouponRow
      BY <1>0 DEF PromoTypes
    <3>2. CASE coupon' = coupon
      BY <1>3, <3>2
    <3>3. CASE coupon.code /\ coupon' = [coupon EXCEPT !.uses = @ + 1]
      <4>1. coupon \in CouponRow
        BY <3>1, <3>3 DEF NoCoupon
      <4>2. coupon'.value = coupon.value
        BY <3>3, <4>1 DEF CouponRow
      <4> QED
        BY <3>3, <4>2 DEF FairInv
    <3> QED
      BY <1>6, <3>2, <3>3 DEF Place, UseCoupon
  <2> QED
    BY <1>1, <2>5, <2>6, <2>9, <2>10
<1>7. ASSUME NEW c \in Carts, DropCart(c) PROVE FairInv'
  <2> DEFINE row == [NewCart EXCEPT !.step = "dropped"]
  <2>1. NewCart \in CartRow
    BY DEF CartRow, NewCart
  <2>2. row \in CartRow /\ row.step = "dropped"
    BY <2>1 DEF CartRow
  <2>3. cart' = [cart EXCEPT ![c] = row] /\ coupon' = coupon
    BY <1>7 DEF DropCart
  <2> HIDE DEF row
  <2> QED
    BY <1>1, <1>3, <2>2, <2>3
<1>8. ASSUME NEW c \in Carts, CreditLot(c) \/ ReverseLot(c) PROVE FairInv'
  <2> PICK to \in {"paid", "returned"} : cart' = [cart EXCEPT ![c].step = to]
    BY <1>8 DEF CreditLot, ReverseLot
  <2> DEFINE row == [cart[c] EXCEPT !.step = to]
  <2>1. cart[c].total >= Ship[c] /\ coupon' = coupon
    BY <1>8 DEF CreditLot, ReverseLot, FairInv, NobodyIsPaidToBuy
  <2>2. row \in CartRow /\ row.step = to /\ row.total = cart[c].total
    BY <1>0 DEF CartRow
  <2>3. cart' = [cart EXCEPT ![c] = row]
    BY <1>0
  <2> HIDE DEF row
  <2> QED
    BY <1>1, <1>3, <2>1, <2>2, <2>3
<1>9. ASSUME NEW in \in CouponInputs, CreateCoupon(in) PROVE FairInv'
  <2>1. cart' = cart /\ coupon'.value = in.value /\ in.value >= 0
    BY <1>9 DEF CreateCoupon, ValidForCreate
  <2> QED
    BY <1>2, <2>1
<1>10. ASSUME NEW a, NEW e, NEW max, UpdateCoupon(a, e, max) PROVE FairInv'
  <2>1. coupon.code /\ coupon \in CouponRow
    BY <1>0, <1>10 DEF UpdateCoupon, PromoTypes, NoCoupon
  <2>2. cart' = cart /\ coupon'.value = coupon.value
    BY <1>10, <2>1 DEF UpdateCoupon, CouponRow
  <2> QED
    BY <1>2, <2>1, <2>2 DEF FairInv
<1>11. CASE DeleteCoupon
    BY <1>2, <1>11 DEF DeleteCoupon, NoCoupon
<1>12. CASE \/ \E c \in Carts : Lapse(c)
            \/ UpdateConfig \/ SetCategoryRate
            \/ \E k \in Categories : DeleteCategoryRate(k)
            \/ UNCHANGED promoVars
    BY <1>2, <1>3, <1>12 DEF Lapse, UpdateConfig, SetCategoryRate, DeleteCategoryRate, promoVars
<1> QED
    BY <1>4, <1>5, <1>6, <1>7, <1>8, <1>9, <1>10, <1>11, <1>12 DEF PromoNext

\* A coupon and cashback never pay for more than the goods (coupon.Apply, ClampRedeem): what
\* is left to pay covers the delivery, though the coupon, the programme, the balance and the
\* lots an order was priced with may all have changed by the time it is written.
THEOREM OrdersCoverTheirDelivery == PromoSpec => []NobodyIsPaidToBuy
<1>1. PromoInit => FairInv
    BY DEF PromoInit, FairInv, NobodyIsPaidToBuy, NewCart, NoCoupon
<1>2. FairInv => NobodyIsPaidToBuy
    BY DEF FairInv
<1> QED
    BY <1>1, <1>2, FairStep, PromoInvAlways, PTL DEF PromoSpec
-----------------------------------------------------------------------------
(* Orders.  A transaction that has decided holds its order's row alone until it ends,   *)
(* so the status it decided on is still the committed one when it commits.              *)
TxStages == {"begun", "orphan", "found", "lost", "recorded", "ignored", "locked", "written"}
GoodTx(tx) == tx = NoHand \/ (/\ tx.at \in TxStages
                              /\ tx.job.order \in Purchases /\ tx.job.to \in Moves)
OneLocker == \A o \in Purchases, g, h \in OrderHands : Locks(g, o) /\ Locks(h, o) => g = h
StillAllowed == \A h \in OrderHands : orderTx[h].at \in {"locked", "written"} =>
    OrderCourse!CanTransition(orderStatus[orderTx[h].job.order], orderTx[h].job.to)
OrderTxInv ==
    /\ orderStatus \in [Purchases -> OrderCourse!OrderStatuses \union {"none"}]
    /\ DOMAIN orderStamps = Purchases /\ DOMAIN orderTimeline = Purchases
    /\ consumed \subseteq Notices
    /\ DOMAIN orderTx = OrderHands /\ \A h \in OrderHands : GoodTx(orderTx[h])
    /\ OneLocker /\ StillAllowed

\* What the shapes of a transaction are.
LEMMA TxShapes ==
    /\ NoHand.at = "idle"
    /\ \A j, a : OpenTx(j, a).at = a /\ OpenTx(j, a).job = j
    /\ \A o, t : MoveFor(o, t).order = o /\ MoveFor(o, t).to = t
    /\ \A n \in Notices : n.order \in Purchases /\ n.to \in Moves
BY NoticesAssumption DEF NoHand, OpenTx, MoveFor, Moves

\* Advance's decision: to move as the table allows, to ignore, or to give up.
LEMMA DecidedAsAllowed ==
    ASSUME NEW h \in OrderHands, NEW seen
    PROVE  \/ /\ Decided(h, seen) = OpenTx(orderTx[h].job, "locked")
              /\ OrderCourse!CanTransition(seen, orderTx[h].job.to)
           \/ Decided(h, seen) = OpenTx(orderTx[h].job, "ignored")
           \/ Decided(h, seen) = NoHand
BY DEF Decided

\* The hand that takes a step, alone, keeps what the others are doing.
LEMMA OthersGoOn ==
    ASSUME NEW h \in OrderHands, NEW tx, DOMAIN orderTx = OrderHands, Goes(h, tx)
    PROVE  /\ DOMAIN orderTx' = OrderHands /\ orderTx'[h] = tx
           /\ \A g \in Others(h) : orderTx'[g] = orderTx[g]
           /\ \A g \in OrderHands : g = h \/ g \in Others(h)
BY DEF Goes, Others

\* A step that changes one transaction and no committed row keeps the invariant, if the
\* new transaction is sound and does not lock a row another one holds.
LEMMA OneHandMoves ==
    ASSUME OrderTxInv, NEW h \in OrderHands, NEW tx, Goes(h, tx), GoodTx(tx),
           UNCHANGED <<orderRows, consumed>>,
           tx.at \in {"locked", "ignored", "written"} =>
               /\ tx.job = orderTx[h].job
               /\ \/ orderTx[h].at \in {"locked", "ignored", "written"}
                  \/ \A g \in Others(h) : ~Locks(g, tx.job.order),
           tx.at \in {"locked", "written"} =>
               OrderCourse!CanTransition(orderStatus[tx.job.order], tx.job.to)
    PROVE  OrderTxInv'
<1>1. /\ DOMAIN orderTx' = OrderHands /\ orderTx'[h] = tx
      /\ \A g \in Others(h) : orderTx'[g] = orderTx[g]
      /\ \A g \in OrderHands : g = h \/ g \in Others(h)
  BY OthersGoOn DEF OrderTxInv
<1>2. UNCHANGED <<orderStatus, orderStamps, orderTimeline, consumed>>
  BY DEF orderRows
<1>3. \A g \in OrderHands : GoodTx(orderTx'[g])
  BY <1>1 DEF OrderTxInv
<1>4. OneLocker'
  <2> SUFFICES ASSUME NEW o \in Purchases, NEW g \in OrderHands, NEW k \in OrderHands,
                      Locks(g, o)', Locks(k, o)', g # k
               PROVE  FALSE
    BY DEF OneLocker
  <2>1. CASE g # h /\ k # h
    BY <2>1, <1>1 DEF OrderTxInv, OneLocker, Locks, HasJob
  <2>2. ASSUME NEW a \in OrderHands, a # h, Locks(a, o)', Locks(h, o)'
        PROVE  FALSE
    <3>1. tx.at \in {"locked", "ignored", "written"} /\ tx.job.order = o
      BY <1>1, <2>2 DEF Locks, HasJob
    <3>2. Locks(a, o) /\ a \in Others(h)
      BY <1>1, <2>2 DEF Locks, HasJob
    <3>3. orderTx[h].at \in {"locked", "ignored", "written"}
      BY <3>1, <3>2
    <3>4. Locks(h, o)
      BY <3>1, <3>3 DEF Locks, HasJob
    <3> QED BY <3>2, <3>4, <2>2 DEF OrderTxInv, OneLocker
  <2> QED BY <2>1, <2>2
<1>5. StillAllowed'
  <2> SUFFICES ASSUME NEW g \in OrderHands, orderTx'[g].at \in {"locked", "written"}
               PROVE  OrderCourse!CanTransition(orderStatus'[orderTx'[g].job.order],
                                                orderTx'[g].job.to)
    BY <1>2 DEF StillAllowed, OrderCourse!CanTransition
  <2>1. CASE g = h
    BY <2>1, <1>1, <1>2
  <2>2. CASE g # h
    BY <2>2, <1>1, <1>2 DEF OrderTxInv, StillAllowed
  <2> QED BY <2>1, <2>2
<1> QED BY <1>1, <1>2, <1>3, <1>4, <1>5 DEF OrderTxInv, GoodTx

\* Nobody has decided anything at first.
LEMMA OrderTxStarts == OrderTxInit => OrderTxInv
BY TxShapes DEF OrderTxInit, OrderTxInv, OneLocker, StillAllowed, Locks, HasJob, GoodTx

\* A new order has no transaction that decided on it.
LEMMA PurchaseKeepsTx ==
    ASSUME OrderTxInv, NEW o \in Purchases, PlacePurchase(o)
    PROVE  OrderTxInv'
<1>1. orderStatus' \in [Purchases -> OrderCourse!OrderStatuses \union {"none"}]
  BY DEF PlacePurchase, OrderTxInv, OrderCourse!OrderStatuses
<1>2. DOMAIN orderStamps' = Purchases /\ DOMAIN orderTimeline' = Purchases
  BY DEF PlacePurchase, OrderTxInv
<1>3. StillAllowed'
  <2> SUFFICES ASSUME NEW g \in OrderHands, orderTx[g].at \in {"locked", "written"}
               PROVE  OrderCourse!CanTransition(orderStatus'[orderTx[g].job.order],
                                                orderTx[g].job.to)
    BY DEF StillAllowed, OrderCourse!CanTransition, PlacePurchase
  <2>1. OrderCourse!CanTransition(orderStatus[orderTx[g].job.order], orderTx[g].job.to)
    BY DEF OrderTxInv, StillAllowed
  <2>2. orderTx[g].job.order # o
    BY <2>1 DEF PlacePurchase, OrderCourse!CanTransition, OrderCourse!OrderStatuses
  <2>3. orderStatus'[orderTx[g].job.order] = orderStatus[orderTx[g].job.order]
    BY <2>2, TxShapes DEF PlacePurchase, OrderTxInv, GoodTx
  <2> QED BY <2>1, <2>3
<1>4. OneLocker'
  BY DEF OrderTxInv, PlacePurchase, OneLocker, Locks, HasJob
<1> QED BY <1>1, <1>2, <1>3, <1>4 DEF OrderTxInv, PlacePurchase, GoodTx

\* Advance decides under the lock, on the committed status.
LEMMA LockKeeps ==
    ASSUME OrderTxInv, NEW h \in OrderHands, LockOrder(h)
    PROVE  OrderTxInv'
<1> DEFINE o == orderTx[h].job.order
           tx == Decided(h, orderStatus[o])
<1>1. orderTx[h].at \in TxStages /\ o \in Purchases /\ orderTx[h].job.to \in Moves
  BY TxShapes DEF LockOrder, OrderTxInv, GoodTx
<1>2. Goes(h, tx) /\ UNCHANGED <<orderRows, consumed>> /\ \A g \in Others(h) : ~Locks(g, o)
  BY DEF LockOrder
<1>3. \/ tx = OpenTx(orderTx[h].job, "locked")
         /\ OrderCourse!CanTransition(orderStatus[o], orderTx[h].job.to)
      \/ tx = OpenTx(orderTx[h].job, "ignored")
      \/ tx = NoHand
  BY DecidedAsAllowed
<1> HIDE DEF tx
<1>4. GoodTx(tx)
  BY <1>1, <1>3, TxShapes DEF GoodTx, TxStages
<1>5. tx.at \in {"locked", "ignored", "written"} => tx.job = orderTx[h].job
  BY <1>3, TxShapes
<1>6. tx.at \in {"locked", "written"} =>
        OrderCourse!CanTransition(orderStatus[tx.job.order], tx.job.to)
  BY <1>3, TxShapes
<1> QED BY <1>2, <1>4, <1>5, <1>6, OneHandMoves

\* COMMIT: nobody else has decided on the row that changes.
LEMMA CommitOrderKeepsTx ==
    ASSUME OrderTxInv, NEW h \in OrderHands, CommitOrder(h)
    PROVE  OrderTxInv'
<1> DEFINE o == orderTx[h].job.order
           to == orderTx[h].job.to
<1>1. orderTx[h].at \in {"lost", "ignored", "written"} /\ o \in Purchases /\ to \in Moves
  BY TxShapes DEF CommitOrder, OrderTxInv, GoodTx
<1>2. Goes(h, NoHand)
  BY DEF CommitOrder
<1>3. /\ DOMAIN orderTx' = OrderHands /\ orderTx'[h] = NoHand
      /\ \A g \in Others(h) : orderTx'[g] = orderTx[g]
      /\ \A g \in OrderHands : g = h \/ g \in Others(h)
  BY <1>2, OthersGoOn DEF OrderTxInv
<1>4. consumed' \subseteq Notices
  BY DEF CommitOrder, OrderTxInv
<1>5. orderStatus' \in [Purchases -> OrderCourse!OrderStatuses \union {"none"}]
  BY <1>1 DEF CommitOrder, OrderTxInv, orderRows, Moves, OrderCourse!OrderStatuses
<1>6. DOMAIN orderStamps' = Purchases /\ DOMAIN orderTimeline' = Purchases
  BY DEF CommitOrder, OrderTxInv, orderRows
<1>7. \A g \in OrderHands : GoodTx(orderTx'[g])
  BY <1>3 DEF OrderTxInv, GoodTx
<1>8. OneLocker'
  BY <1>3, TxShapes DEF OrderTxInv, OneLocker, Locks, HasJob
<1>9. StillAllowed'
  <2> SUFFICES ASSUME NEW g \in Others(h), orderTx[g].at \in {"locked", "written"}
               PROVE  OrderCourse!CanTransition(orderStatus'[orderTx[g].job.order],
                                                orderTx[g].job.to)
    BY <1>3, TxShapes DEF StillAllowed, OrderCourse!CanTransition
  <2>0. g \in OrderHands /\ g # h
    BY DEF Others
  <2>1. OrderCourse!CanTransition(orderStatus[orderTx[g].job.order], orderTx[g].job.to)
    BY <2>0 DEF OrderTxInv, StillAllowed
  <2>2. orderTx[g].job.order \in Purchases
    BY <2>0, TxShapes DEF OrderTxInv, GoodTx
  <2>3. orderStatus'[orderTx[g].job.order] = orderStatus[orderTx[g].job.order]
    <3>1. CASE orderTx[h].at = "written"
      <4>1. Locks(h, o) /\ Locks(g, orderTx[g].job.order)
        BY <3>1 DEF Locks, HasJob
      <4>2. orderTx[g].job.order # o
        BY <4>1, <2>0, <1>1 DEF OrderTxInv, OneLocker
      <4> QED BY <4>2, <3>1, <1>1, <2>2 DEF CommitOrder, OrderTxInv
    <3>2. CASE orderTx[h].at # "written"
      BY <3>2 DEF CommitOrder, orderRows
    <3> QED BY <3>1, <3>2
  <2> QED BY <2>1, <2>3
<1> QED BY <1>3, <1>4, <1>5, <1>6, <1>7, <1>8, <1>9 DEF OrderTxInv

\* Every step keeps the invariant.
LEMMA OrderTxStepKeeps ==
    OrderTxInv /\ [OrderTxNext]_orderTxVars => OrderTxInv'
<1> SUFFICES ASSUME OrderTxInv, [OrderTxNext]_orderTxVars PROVE OrderTxInv'
  OBVIOUS
<1>1. ASSUME NEW o \in Purchases, PlacePurchase(o) PROVE OrderTxInv'
  BY <1>1, PurchaseKeepsTx
<1>2. ASSUME NEW h \in OrderHands, NEW o \in Purchases, NEW to \in Moves, BeginMove(h, o, to)
      PROVE  OrderTxInv'
  <2> DEFINE tx == OpenTx(MoveFor(o, to), "begun")
  <2>1. Goes(h, tx) /\ UNCHANGED <<orderRows, consumed>>
    BY <1>2 DEF BeginMove
  <2>2. GoodTx(tx) /\ tx.at = "begun"
    BY TxShapes DEF GoodTx, TxStages
  <2> HIDE DEF tx
  <2> QED BY <2>1, <2>2, OneHandMoves
<1>3. ASSUME NEW h \in OrderHands, NEW n \in Notices, BeginNotice(h, n)
      PROVE  OrderTxInv'
  <2> DEFINE tx == OpenTx(n, IF orderStatus[n.order] = "none" THEN "orphan" ELSE "found")
  <2>1. Goes(h, tx) /\ UNCHANGED <<orderRows, consumed>>
    BY <1>3 DEF BeginNotice
  <2>2. GoodTx(tx) /\ tx.at \in {"orphan", "found"}
    BY TxShapes DEF GoodTx, TxStages
  <2> HIDE DEF tx
  <2> QED BY <2>1, <2>2, OneHandMoves
<1>4. ASSUME NEW h \in OrderHands, RecordNotice(h) PROVE OrderTxInv'
  <2>1. GoodTx(orderTx[h]) /\ orderTx[h] # NoHand
    BY <1>4, TxShapes DEF RecordNotice, OrderTxInv
  <2>2. PICK tx \in {NoHand, OpenTx(orderTx[h].job, "lost"), OpenTx(orderTx[h].job, "recorded")} :
          Goes(h, tx)
    BY <1>4 DEF RecordNotice
  <2>3. UNCHANGED <<orderRows, consumed>>
    BY <1>4 DEF RecordNotice
  <2>4. GoodTx(tx) /\ tx.at \in {"idle", "lost", "recorded"}
    BY <2>1, <2>2, TxShapes DEF GoodTx, TxStages
  <2> QED BY <2>2, <2>3, <2>4, OneHandMoves
<1>5. ASSUME NEW h \in OrderHands, LockOrder(h) PROVE OrderTxInv'
  BY <1>5, LockKeeps
<1>6. ASSUME NEW h \in OrderHands, WriteOrder(h) PROVE OrderTxInv'
  <2> DEFINE tx == OpenTx(orderTx[h].job, "written")
  <2>1. orderTx[h].at = "locked" /\ Goes(h, tx) /\ UNCHANGED <<orderRows, consumed>>
    BY <1>6 DEF WriteOrder
  <2>2. GoodTx(tx) /\ tx.job = orderTx[h].job
    BY <2>1, TxShapes DEF GoodTx, TxStages, OrderTxInv
  <2>3. OrderCourse!CanTransition(orderStatus[orderTx[h].job.order], orderTx[h].job.to)
    BY <2>1 DEF OrderTxInv, StillAllowed
  <2> HIDE DEF tx
  <2> QED BY <2>1, <2>2, <2>3, OneHandMoves
<1>7. ASSUME NEW h \in OrderHands, CommitOrder(h) PROVE OrderTxInv'
  BY <1>7, CommitOrderKeepsTx
<1>8. ASSUME NEW h \in OrderHands, AbortOrderTx(h) PROVE OrderTxInv'
  <2>1. Goes(h, NoHand) /\ UNCHANGED <<orderRows, consumed>>
    BY <1>8 DEF AbortOrderTx
  <2>2. GoodTx(NoHand) /\ NoHand.at = "idle"
    BY TxShapes DEF GoodTx
  <2> QED BY <2>1, <2>2, OneHandMoves
<1>9. CASE UNCHANGED orderTxVars
  BY <1>9 DEF orderTxVars, orderRows, OrderTxInv, GoodTx, OneLocker, StillAllowed, Locks, HasJob,
              OrderCourse!CanTransition
<1> QED BY <1>1, <1>2, <1>3, <1>4, <1>5, <1>6, <1>7, <1>8, <1>9 DEF OrderTxNext

\* The invariant of the orders' transactions holds in every behaviour.
LEMMA OrderTxAlways == OrderTxSpec => []OrderTxInv
BY OrderTxStarts, OrderTxStepKeeps, PTL DEF OrderTxSpec

\* Every variable of the orders' transactions holds a value of its kind.
LEMMA OrderTxTypesAlways == OrderTxSpec => []OrderTxTypeOK
<1>1. OrderTxInv => OrderTxTypeOK
  BY DEF OrderTxInv, OrderTxTypeOK, GoodTx, TxStages
<1> QED BY <1>1, OrderTxAlways, PTL

\* A step of a transaction is a step of the order, or none of its rows changes.
LEMMA OrderTxStepSimulates ==
    ASSUME OrderTxInv, [OrderTxNext]_orderTxVars
    PROVE  [OrderCourse!JourneyNext]_(OrderCourse!journey)
<1>1. ASSUME NEW o \in Purchases, PlacePurchase(o) PROVE OrderCourse!JourneyNext
  <2>1. OrderCourse!Place(o)
    BY <1>1 DEF PlacePurchase, OrderCourse!Place
  <2> QED BY <2>1 DEF OrderCourse!JourneyNext
<1>2. ASSUME NEW h \in OrderHands, CommitOrder(h), orderTx[h].at = "written"
      PROVE  OrderCourse!JourneyNext
  <2>1. orderTx[h].job.order \in Purchases /\ orderTx[h].job.to \in OrderCourse!OrderStatuses
    BY <1>2, TxShapes DEF OrderTxInv, GoodTx, Moves, OrderCourse!OrderStatuses
  <2>2. OrderCourse!Advance(orderTx[h].job.order, orderTx[h].job.to)
    BY <1>2 DEF OrderTxInv, StillAllowed, CommitOrder, OrderCourse!Advance
  <2> QED BY <2>1, <2>2 DEF OrderCourse!JourneyNext
<1>3. ASSUME UNCHANGED orderRows PROVE UNCHANGED OrderCourse!journey
  BY <1>3 DEF orderRows, OrderCourse!journey
<1>4. \/ \E o \in Purchases : PlacePurchase(o)
      \/ \E h \in OrderHands : CommitOrder(h) /\ orderTx[h].at = "written"
      \/ UNCHANGED orderRows
  BY DEF OrderTxNext, orderTxVars, BeginMove, BeginNotice, RecordNotice, LockOrder, WriteOrder,
         CommitOrder, AbortOrderTx
<1> QED BY <1>1, <1>2, <1>3, <1>4

\* However the transactions of customers, operators, settlements and payment events
\* interleave, statement by statement, an order goes along its state machine.
THEOREM OrderTransactionsKeepTheJourney == OrderTxSpec => ImplementsOrderJourney
<1>1. OrderTxInit => OrderCourse!JourneyInit
  BY DEF OrderTxInit, OrderCourse!JourneyInit
<1>2. OrderTxInv /\ [OrderTxNext]_orderTxVars => [OrderCourse!JourneyNext]_(OrderCourse!journey)
  BY OrderTxStepSimulates
<1> QED BY <1>1, <1>2, OrderTxAlways, PTL
        DEF OrderTxSpec, ImplementsOrderJourney, OrderCourse!JourneySpec
=============================================================================
