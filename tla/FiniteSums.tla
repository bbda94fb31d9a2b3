----------------------------- MODULE FiniteSums -----------------------------
(***************************************************************************)
(* Sums over finite sets (SumFunctionOnSet of the community modules), and  *)
(* the two forms of induction that the facts about them rest on.           *)
(*                                                                         *)
(* An induction is stated of the set of the values for which the claim     *)
(* holds, not of a predicate: so it is a first-order fact, which follows   *)
(* from the library's well-founded orderings by a least counterexample.    *)
(***************************************************************************)
EXTENDS Integers, FiniteSets, FiniteSetTheorems, TLAPS

\* A set of naturals that is not empty has a least element.
LEMMA LeastNatural ==
  ASSUME NEW S \in SUBSET Nat, S # {}
  PROVE  \E m \in S : \A k \in S : m <= k
<1> DEFINE R == OpToRel(<, Nat)
<1>1. R = {ss \in Nat \X Nat : ss[1] < ss[2]}
  BY Zenon DEF OpToRel
<1>2. IsWellFoundedOn(R, Nat)
  BY Zenon, NatLessThanWellFounded
<1>3. ASSUME NEW x \in S, NEW y \in S, ~(<<y, x>> \in R) PROVE x <= y
  <2>1. <<y, x>> \in Nat \X Nat /\ <<y, x>>[1] = y /\ <<y, x>>[2] = x
    OBVIOUS
  <2>2. ~(y < x)
    <3> HIDE DEF R
    <3> QED BY <1>1, <1>3, <2>1
  <2> QED BY <2>2
<1> HIDE DEF R
<1>4. PICK x \in S : \A y \in S : ~(<<y, x>> \in R)
  BY <1>2, WFMin
<1> QED BY <1>3, <1>4

\* Induction over the naturals.
LEMMA EveryNatural ==
  ASSUME NEW S, 0 \in S, \A n \in Nat : n \in S => n + 1 \in S
  PROVE  Nat \subseteq S
<1> DEFINE Missing == Nat \ S
<1> SUFFICES ASSUME Missing # {} PROVE FALSE
  OBVIOUS
<1>1. PICK m \in Missing : \A k \in Missing : m <= k
  BY LeastNatural
<1>2. m \in Nat /\ m # 0
  OBVIOUS
<1>3. m - 1 \in Nat /\ m - 1 \in S
  BY <1>1, <1>2
<1>4. (m - 1) + 1 \in S
  BY <1>3
<1> QED BY <1>1, <1>2, <1>4

\* Induction over the subsets of a finite set, one element at a time.
LEMMA EverySubset ==
  ASSUME NEW S, IsFiniteSet(S), NEW Good, {} \in Good,
         \A T \in SUBSET S : T \in Good => \A x \in S \ T : T \cup {x} \in Good
  PROVE  \A T \in SUBSET S : T \in Good
<1> DEFINE Sizes == {n \in Nat : \A T \in SUBSET S : Cardinality(T) = n => T \in Good}
<1>1. \A T \in SUBSET S : IsFiniteSet(T) /\ Cardinality(T) \in Nat
  BY FS_Subset, FS_CardinalityType
<1>2. 0 \in Sizes
  BY <1>1, FS_EmptySet
<1>3. ASSUME NEW n \in Nat, n \in Sizes PROVE n + 1 \in Sizes
  <2> SUFFICES ASSUME NEW T \in SUBSET S, Cardinality(T) = n + 1 PROVE T \in Good
    OBVIOUS
  <2>1. PICK x \in T : TRUE
    BY <1>1, FS_EmptySet
  <2>2. Cardinality(T \ {x}) = n
    <3>1. Cardinality(T \ {x}) = Cardinality(T) - 1
      BY <1>1, <2>1, FS_RemoveElement
    <3> QED BY <3>1
  <2>3. T \ {x} \in Good
    BY <1>3, <2>2
  <2>4. (T \ {x}) \cup {x} = T
    BY <2>1
  <2> QED BY <2>3, <2>4
<1>4. Nat \subseteq Sizes
  <2> HIDE DEF Sizes
  <2> QED BY <1>2, <1>3, EveryNatural
<1> QED BY <1>1, <1>4

------------------------------------------------------------------------------

Picked(s) == CHOOSE x \in s : TRUE

LEMMA PickedIn == \A s : s # {} => Picked(s) \in s
BY DEF Picked

\* One step of the recursion of MapThenFoldSet, for a sum.
SumStep(f, g, s) == IF s = {} THEN 0 ELSE f[Picked(s)] + g[s \ {Picked(s)}]

SumIter(f, S) == CHOOSE g : g = [s \in SUBSET S |-> SumStep(f, g, s)]

LEMMA SumIsIter ==
  ASSUME NEW f, NEW S
  PROVE  SumFunctionOnSet(f, S) = SumIter(f, S)[S]
BY Zenon DEF SumFunctionOnSet, FoldFunctionOnSet, MapThenFoldSet, SumIter, SumStep, Picked

\* The recursion defines a function.
LEMMA SumIterExists ==
  ASSUME NEW f, NEW S, IsFiniteSet(S)
  PROVE  SumIter(f, S) = [s \in SUBSET S |-> SumStep(f, SumIter(f, S), s)]
<1> DEFINE Small(n) == {s \in SUBSET S : Cardinality(s) <= n}
           Solves(g, n) == \A s \in Small(n) : g[s] = SumStep(f, g, s)
           Solved == {n \in Nat : \E g : Solves(g, n)}
<1>1. \A s \in SUBSET S : IsFiniteSet(s) /\ Cardinality(s) \in Nat /\ Cardinality(s) <= Cardinality(S)
  BY FS_Subset, FS_CardinalityType
<1>2. ASSUME NEW s \in SUBSET S, s # {}
      PROVE  s \ {Picked(s)} \in SUBSET S /\ Cardinality(s \ {Picked(s)}) = Cardinality(s) - 1
  BY <1>1, <1>2, PickedIn, FS_RemoveElement
<1>3. ASSUME NEW n \in Nat, NEW g, Solves(g, n)
      PROVE  LET h == [s \in SUBSET S |-> SumStep(f, g, s)] IN Solves(h, n + 1)
  <2> DEFINE h == [s \in SUBSET S |-> SumStep(f, g, s)]
  <2> SUFFICES ASSUME NEW s \in Small(n + 1) PROVE h[s] = SumStep(f, h, s)
    OBVIOUS
  <2>1. CASE s = {}
    BY <2>1 DEF SumStep
  <2>2. CASE s # {}
    <3> DEFINE r == s \ {Picked(s)}
    <3>1. r \in SUBSET S /\ Cardinality(r) <= n
      BY <1>1, <1>2, <2>2
    <3>2. h[r] = g[r]
      BY <1>3, <3>1
    <3> QED BY <2>2, <3>2 DEF SumStep
  <2> QED BY <2>1, <2>2
<1>4. 0 \in Solved
  <2> DEFINE g == [s \in SUBSET S |-> 0]
  <2>1. \A s \in Small(0) : s = {}
    BY <1>1, FS_EmptySet
  <2>2. Solves(g, 0)
    BY <2>1 DEF SumStep
  <2> QED BY <2>2
<1>5. ASSUME NEW n \in Nat, n \in Solved PROVE n + 1 \in Solved
  <2>1. PICK g : Solves(g, n)
    BY <1>5
  <2>2. \E h : Solves(h, n + 1)
    <3> HIDE DEF Solves
    <3> QED BY <1>3, <2>1
  <2> QED BY <2>2
<1>6. Cardinality(S) \in Solved
  <2>1. Nat \subseteq Solved
    <3> HIDE DEF Solved
    <3> QED BY <1>4, <1>5, EveryNatural
  <2> QED BY <1>1, <2>1
<1>7. PICK g : Solves(g, Cardinality(S))
  BY <1>6
<1>8. \A s \in SUBSET S : g[s] = SumStep(f, g, s)
  BY <1>1, <1>7
<1> DEFINE h == [s \in SUBSET S |-> SumStep(f, g, s)]
<1>9. h = [s \in SUBSET S |-> SumStep(f, h, s)]
  <2>1. ASSUME NEW s \in SUBSET S PROVE SumStep(f, h, s) = SumStep(f, g, s)
    <3>1. CASE s = {}
      BY <3>1 DEF SumStep
    <3>2. CASE s # {}
      <4>1. h[s \ {Picked(s)}] = g[s \ {Picked(s)}]
        BY <1>2, <1>8, <3>2
      <4> QED BY <4>1 DEF SumStep
    <3> QED BY <3>1, <3>2
  <2> QED BY <2>1
<1> HIDE DEF h
<1> QED BY <1>9 DEF SumIter

\* What the sums over the subsets of S are, in whatever order they are added.
LEMMA SumIterFacts ==
  ASSUME NEW f, NEW S, IsFiniteSet(S), \A x \in S : f[x] \in Int
  PROVE  /\ SumIter(f, S)[{}] = 0
         /\ \A T \in SUBSET S : SumIter(f, S)[T] \in Int
         /\ \A T \in SUBSET S : \A x \in S \ T :
              SumIter(f, S)[T \cup {x}] = SumIter(f, S)[T] + f[x]
<1>1. PICK I : I = SumIter(f, S) /\ \A s \in SUBSET S : I[s] = SumStep(f, I, s)
  <2>1. \A s \in SUBSET S : SumIter(f, S)[s] = SumStep(f, SumIter(f, S), s)
    <3>1. PICK h : h = SumIter(f, S) /\ h = [s \in SUBSET S |-> SumStep(f, SumIter(f, S), s)]
      BY SumIterExists
    <3>2. \A s \in SUBSET S : h[s] = SumStep(f, SumIter(f, S), s)
      BY <3>1
    <3> QED BY <3>1, <3>2
  <2>2. PICK I : I = SumIter(f, S)
    OBVIOUS
  <2> QED BY <2>1, <2>2
<1>2. \A s \in SUBSET S : IsFiniteSet(s) /\ Cardinality(s) \in Nat
  BY FS_Subset, FS_CardinalityType
<1>3. I[{}] = 0
  BY <1>1 DEF SumStep
<1>4. ASSUME NEW s \in SUBSET S, s # {}
      PROVE  Picked(s) \in s /\ I[s] = f[Picked(s)] + I[s \ {Picked(s)}]
  BY <1>1, <1>4, PickedIn DEF SumStep
<1>5. ASSUME NEW s \in SUBSET S, NEW x \in s
      PROVE  s \ {x} \in SUBSET S /\ Cardinality(s \ {x}) = Cardinality(s) - 1
  BY <1>2, FS_RemoveElement
<1>6. ASSUME NEW s \in SUBSET S PROVE Cardinality(s) = 0 <=> s = {}
  BY <1>2, FS_EmptySet
\* Every sum is an integer.
<1> DEFINE Typed == {n \in Nat : \A s \in SUBSET S : Cardinality(s) = n => I[s] \in Int}
<1>7. \A s \in SUBSET S : I[s] \in Int
  <2>1. 0 \in Typed
    BY <1>3, <1>6
  <2>2. ASSUME NEW n \in Nat, n \in Typed PROVE n + 1 \in Typed
    <3> SUFFICES ASSUME NEW s \in SUBSET S, Cardinality(s) = n + 1 PROVE I[s] \in Int
      OBVIOUS
    <3>1. PICK c \in s : I[s] = f[c] + I[s \ {c}]
      <4>1. s # {}
        BY <1>6
      <4> QED BY <1>4, <4>1
    <3>2. s \ {c} \in SUBSET S /\ Cardinality(s \ {c}) = n
      BY <1>5
    <3>3. I[s \ {c}] \in Int
      BY <2>2, <3>2
    <3> QED BY <3>1, <3>3
  <2>3. Nat \subseteq Typed
    <3> HIDE DEF Typed
    <3> QED BY <2>1, <2>2, EveryNatural
  <2> QED BY <1>2, <2>3
\* Any element may be the last to be added.
<1> DEFINE Any == {n \in Nat : \A s \in SUBSET S : Cardinality(s) = n =>
                               \A x \in s : I[s] = f[x] + I[s \ {x}]}
<1>8. 0 \in Any
  BY <1>6
<1>9. ASSUME NEW n \in Nat, n \in Any PROVE n + 1 \in Any
  <2> SUFFICES ASSUME NEW s \in SUBSET S, Cardinality(s) = n + 1, NEW x \in s
               PROVE  I[s] = f[x] + I[s \ {x}]
    OBVIOUS
  <2>1. PICK c \in s : I[s] = f[c] + I[s \ {c}]
    BY <1>4
  <2>2. CASE x = c
    BY <2>1, <2>2
  <2>3. CASE x # c
    <3>1. x \in s \ {c} /\ c \in s \ {x}
      BY <2>3
    <3>2. /\ s \ {c} \in SUBSET S /\ Cardinality(s \ {c}) = n
          /\ s \ {x} \in SUBSET S /\ Cardinality(s \ {x}) = n
      BY <1>5
    <3>3. I[s \ {c}] = f[x] + I[(s \ {c}) \ {x}]
      BY <1>9, <3>1, <3>2
    <3>4. I[s \ {x}] = f[c] + I[(s \ {x}) \ {c}]
      BY <1>9, <3>1, <3>2
    <3>5. PICK r \in SUBSET S : r = (s \ {c}) \ {x} /\ r = (s \ {x}) \ {c}
      OBVIOUS
    <3>6. I[r] \in Int /\ f[x] \in Int /\ f[c] \in Int
      BY <1>7
    <3>7. PICK i \in Int, p \in Int, q \in Int : i = I[r] /\ p = f[x] /\ q = f[c]
      BY <3>6
    <3>8. I[s] = q + (p + i) /\ I[s \ {x}] = q + i
      BY <2>1, <3>3, <3>4, <3>5, <3>7
    <3> QED BY <3>7, <3>8
  <2> QED BY <2>2, <2>3
<1>10. Nat \subseteq Any
  <2> HIDE DEF Any
  <2> QED BY <1>8, <1>9, EveryNatural
<1>11. ASSUME NEW T \in SUBSET S, NEW x \in S \ T
       PROVE  I[T \cup {x}] = I[T] + f[x]
  <2>1. T \cup {x} \in SUBSET S /\ x \in T \cup {x} /\ (T \cup {x}) \ {x} = T
    OBVIOUS
  <2>2. I[T \cup {x}] = f[x] + I[T]
    BY <1>2, <1>10, <2>1
  <2>3. I[T] \in Int /\ f[x] \in Int
    BY <1>7
  <2> QED BY <2>2, <2>3
<1> QED BY <1>1, <1>3, <1>7, <1>11

------------------------------------------------------------------------------
(* The facts to cite *)

\* A sum over a subset, wherever the recursion starts.
LEMMA SumOfSubset ==
  ASSUME NEW f, NEW S, IsFiniteSet(S), \A x \in S : f[x] \in Int, NEW T \in SUBSET S
  PROVE  SumFunctionOnSet(f, T) = SumIter(f, S)[T]
<1> DEFINE I == SumIter(f, T)
           J == SumIter(f, S)
           Same == {U \in SUBSET T : I[U] = J[U]}
<1>1. IsFiniteSet(T) /\ \A x \in T : f[x] \in Int
  BY FS_Subset
<1>2. I[{}] = 0 /\ J[{}] = 0
  BY <1>1, SumIterFacts
<1>3. ASSUME NEW U \in SUBSET T, U \in Same, NEW x \in T \ U PROVE U \cup {x} \in Same
  <2>1. I[U \cup {x}] = I[U] + f[x]
    BY <1>1, SumIterFacts
  <2>2. J[U \cup {x}] = J[U] + f[x]
    BY SumIterFacts
  <2> QED BY <1>3, <2>1, <2>2
<1>4. T \in Same
  <2>1. {} \in Same
    BY <1>2
  <2> HIDE DEF Same
  <2> QED BY <1>1, <1>3, <2>1, EverySubset
<1> QED BY <1>4, SumIsIter

LEMMA SumEmpty == \A f : SumFunctionOnSet(f, {}) = 0
BY FS_EmptySet, SumIsIter, SumIterFacts

LEMMA SumAdd ==
  ASSUME NEW f, NEW S, IsFiniteSet(S), NEW x, x \notin S,
         \A y \in S \cup {x} : f[y] \in Int
  PROVE  SumFunctionOnSet(f, S \cup {x}) = SumFunctionOnSet(f, S) + f[x]
<1> DEFINE A == S \cup {x}
<1>1. IsFiniteSet(A) /\ S \in SUBSET A /\ A \in SUBSET A /\ x \in A \ S
  BY FS_AddElement
<1>2. \A y \in A : f[y] \in Int
  OBVIOUS
<1> HIDE DEF A
<1>3. SumIter(f, A)[S \cup {x}] = SumIter(f, A)[S] + f[x]
  BY <1>1, <1>2, SumIterFacts
<1>4. SumFunctionOnSet(f, S) = SumIter(f, A)[S] /\ SumFunctionOnSet(f, A) = SumIter(f, A)[A]
  BY <1>1, <1>2, SumOfSubset
<1> QED BY <1>3, <1>4 DEF A

LEMMA SumNat ==
  ASSUME NEW f, NEW S, IsFiniteSet(S), \A x \in S : f[x] \in Nat
  PROVE  SumFunctionOnSet(f, S) \in Nat
<1> DEFINE Good == {T \in SUBSET S : SumFunctionOnSet(f, T) \in Nat}
<1>1. {} \in Good
  BY SumEmpty
<1>2. ASSUME NEW T \in SUBSET S, T \in Good, NEW x \in S \ T PROVE T \cup {x} \in Good
  <2>1. SumFunctionOnSet(f, T \cup {x}) = SumFunctionOnSet(f, T) + f[x]
    BY FS_Subset, SumAdd
  <2> QED BY <1>2, <2>1
<1>3. S \in Good
  <2> HIDE DEF Good
  <2> QED BY <1>1, <1>2, EverySubset
<1> QED BY <1>3

LEMMA SumInt ==
  ASSUME NEW f, NEW S, IsFiniteSet(S), \A x \in S : f[x] \in Int
  PROVE  SumFunctionOnSet(f, S) \in Int
<1> DEFINE Good == {T \in SUBSET S : SumFunctionOnSet(f, T) \in Int}
<1>1. {} \in Good
  BY SumEmpty
<1>2. ASSUME NEW T \in SUBSET S, T \in Good, NEW x \in S \ T PROVE T \cup {x} \in Good
  <2>1. SumFunctionOnSet(f, T \cup {x}) = SumFunctionOnSet(f, T) + f[x]
    BY FS_Subset, SumAdd
  <2> QED BY <1>2, <2>1
<1>3. S \in Good
  <2> HIDE DEF Good
  <2> QED BY <1>1, <1>2, EverySubset
<1> QED BY <1>3

\* The sum depends only on what is added.
LEMMA SumSame ==
  ASSUME NEW f, NEW g, NEW S, IsFiniteSet(S), \A x \in S : f[x] \in Int /\ g[x] = f[x]
  PROVE  SumFunctionOnSet(g, S) = SumFunctionOnSet(f, S)
<1> DEFINE Good == {T \in SUBSET S : SumFunctionOnSet(g, T) = SumFunctionOnSet(f, T)}
<1>1. {} \in Good
  BY SumEmpty
<1>2. ASSUME NEW T \in SUBSET S, T \in Good, NEW x \in S \ T PROVE T \cup {x} \in Good
  <2>1. SumFunctionOnSet(f, T \cup {x}) = SumFunctionOnSet(f, T) + f[x]
    BY FS_Subset, SumAdd
  <2>2. SumFunctionOnSet(g, T \cup {x}) = SumFunctionOnSet(g, T) + g[x]
    BY FS_Subset, SumAdd
  <2> QED BY <1>2, <2>1, <2>2
<1>3. S \in Good
  <2> HIDE DEF Good
  <2> QED BY <1>1, <1>2, EverySubset
<1> QED BY <1>3

\* Of amounts that are not negative, more add up to no less.
LEMMA SumMonotone ==
  ASSUME NEW f, NEW S, IsFiniteSet(S), \A x \in S : f[x] \in Nat, NEW T \in SUBSET S
  PROVE  SumFunctionOnSet(f, T) <= SumFunctionOnSet(f, S)
<1> DEFINE R == S \ T
           Good == {U \in SUBSET R : SumFunctionOnSet(f, T) <= SumFunctionOnSet(f, T \cup U)}
<1>1. IsFiniteSet(R) /\ SumFunctionOnSet(f, T) \in Nat
  BY FS_Subset, SumNat
<1>2. {} \in Good
  <2>1. T \cup {} = T
    OBVIOUS
  <2> QED BY <1>1, <2>1
<1>3. ASSUME NEW U \in SUBSET R, U \in Good, NEW x \in R \ U PROVE U \cup {x} \in Good
  <2>1. IsFiniteSet(T \cup U) /\ x \notin T \cup U /\ \A y \in T \cup U \cup {x} : f[y] \in Nat
    BY FS_Subset
  <2>2. SumFunctionOnSet(f, (T \cup U) \cup {x}) = SumFunctionOnSet(f, T \cup U) + f[x]
    BY <2>1, SumAdd
  <2>3. SumFunctionOnSet(f, T \cup U) \in Nat
    BY <2>1, SumNat
  <2>4. (T \cup U) \cup {x} = T \cup (U \cup {x})
    OBVIOUS
  <2>5. PICK a \in Nat, b \in Nat, c \in Nat :
          a = SumFunctionOnSet(f, T) /\ b = SumFunctionOnSet(f, T \cup U) /\ c = f[x]
    BY <1>1, <2>3
  <2>6. a <= b
    BY <1>3, <2>5
  <2>7. SumFunctionOnSet(f, T \cup (U \cup {x})) = b + c
    BY <2>2, <2>4, <2>5
  <2>8. SumFunctionOnSet(f, T) <= SumFunctionOnSet(f, T \cup (U \cup {x}))
    BY <2>5, <2>6, <2>7
  <2> QED BY <2>8
<1>4. R \in Good
  <2>1. \A U \in SUBSET R : U \in Good => \A x \in R \ U : U \cup {x} \in Good
    BY <1>3
  <2>2. IsFiniteSet(R)
    BY <1>1
  <2> HIDE DEF Good, R
  <2>3. \A U \in SUBSET R : U \in Good
    BY <1>2, <2>1, <2>2, EverySubset
  <2> QED BY <2>3
<1>5. T \cup R = S
  OBVIOUS
<1> QED BY <1>4, <1>5

\* Sums over sets that share nothing add up.
LEMMA SumDisjoint ==
  ASSUME NEW f, NEW S, NEW T, IsFiniteSet(S), IsFiniteSet(T), S \cap T = {},
         \A x \in S \cup T : f[x] \in Int
  PROVE  SumFunctionOnSet(f, S \cup T) = SumFunctionOnSet(f, S) + SumFunctionOnSet(f, T)
<1> DEFINE Good == {U \in SUBSET T : /\ SumFunctionOnSet(f, U) \in Int
                                   /\ SumFunctionOnSet(f, S \cup U) \in Int
                                   /\ SumFunctionOnSet(f, S \cup U)
                                        = SumFunctionOnSet(f, S) + SumFunctionOnSet(f, U)}
<1>0. SumFunctionOnSet(f, S) \in Int
  BY SumInt
<1>1. {} \in Good
  <2>1. S \cup {} = S /\ SumFunctionOnSet(f, {}) = 0
    BY SumEmpty
  <2> QED BY <1>0, <2>1
<1>2. ASSUME NEW U \in SUBSET T, U \in Good, NEW x \in T \ U PROVE U \cup {x} \in Good
  <2>1. IsFiniteSet(U) /\ IsFiniteSet(S \cup U) /\ x \notin S \cup U
    BY FS_Subset, FS_Union
  <2>2. SumFunctionOnSet(f, U \cup {x}) = SumFunctionOnSet(f, U) + f[x]
    BY <2>1, SumAdd
  <2>3. SumFunctionOnSet(f, (S \cup U) \cup {x}) = SumFunctionOnSet(f, S \cup U) + f[x]
    BY <2>1, SumAdd
  <2>4. (S \cup U) \cup {x} = S \cup (U \cup {x})
    OBVIOUS
  <2>5. PICK a \in Int, b \in Int, c \in Int, d \in Int :
          /\ a = SumFunctionOnSet(f, S) /\ b = SumFunctionOnSet(f, U)
          /\ c = SumFunctionOnSet(f, S \cup U) /\ d = f[x]
    BY <1>0, <1>2
  <2>6. c = a + b
    BY <1>2, <2>5
  <2>7. SumFunctionOnSet(f, U \cup {x}) = b + d
    BY <2>2, <2>5
  <2>8. SumFunctionOnSet(f, S \cup (U \cup {x})) = c + d
    BY <2>3, <2>4, <2>5
  <2>9. c + d = a + (b + d) /\ b + d \in Int /\ c + d \in Int
    BY <2>5, <2>6
  <2> QED BY <2>5, <2>7, <2>8, <2>9
<1>3. T \in Good
  <2> HIDE DEF Good
  <2> QED BY <1>1, <1>2, EverySubset
<1> QED BY <1>3

\* To add up one by one the images of what is added changes nothing, if no two
\* share an image and each is worth what it is the image of.
LEMMA SumImage ==
  ASSUME NEW f, NEW g, NEW h, NEW S, IsFiniteSet(S),
         \A x, y \in S : h[x] = h[y] => x = y,
         \A x \in S : f[x] \in Int /\ g[h[x]] = f[x]
  PROVE  SumFunctionOnSet(g, {h[x] : x \in S}) = SumFunctionOnSet(f, S)
<1> DEFINE Image(U) == {h[x] : x \in U}
           Good == {U \in SUBSET S : /\ IsFiniteSet(Image(U))
                                    /\ SumFunctionOnSet(g, Image(U)) = SumFunctionOnSet(f, U)}
<1>1. {} \in Good
  <2>1. Image({}) = {}
    OBVIOUS
  <2> QED BY <2>1, SumEmpty, FS_EmptySet
<1>2. ASSUME NEW U \in SUBSET S, U \in Good, NEW x \in S \ U PROVE U \cup {x} \in Good
  <2>1. IsFiniteSet(U) /\ IsFiniteSet(Image(U))
    BY <1>2, FS_Subset
  <2>2. Image(U \cup {x}) = Image(U) \cup {h[x]} /\ h[x] \notin Image(U)
    OBVIOUS
  <2>3. \A y \in Image(U) \cup {h[x]} : g[y] \in Int
    OBVIOUS
  <2>4. IsFiniteSet(Image(U) \cup {h[x]})
    BY <2>1, FS_AddElement
  <2>5. SumFunctionOnSet(f, U \cup {x}) = SumFunctionOnSet(f, U) + f[x]
    BY <2>1, SumAdd
  <2>6. SumFunctionOnSet(g, Image(U) \cup {h[x]}) = SumFunctionOnSet(g, Image(U)) + g[h[x]]
    <3> HIDE DEF Image
    <3> QED BY <2>1, <2>2, <2>3, SumAdd
  <2> QED BY <1>2, <2>2, <2>4, <2>5, <2>6
<1>3. S \in Good
  <2> HIDE DEF Good
  <2> QED BY <1>1, <1>2, EverySubset
<1> QED BY <1>3
==============================================================================
