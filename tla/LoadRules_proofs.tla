--------------------------- MODULE LoadRules_proofs ---------------------------
(***************************************************************************)
(* The rules, for every load, capacity and width of the integers, any      *)
(* number of load points and any connections between them: their           *)
(* arithmetic, that more load never makes a refused case acceptable, and   *)
(* that the walks, the recursion and the loop over the roots of Evaluate   *)
(* compute what the rules define.                                          *)
(***************************************************************************)
EXTENDS CascadeWalk, FiniteSetTheorems, WellFoundedInduction, TLAPS

-----------------------------------------------------------------------------
(* Quotients, as the provers need them.                                    *)

\* The quotient of the integer division is the true one rounded down.
LEMMA DivisionBounds ==
  ASSUME NEW a \in Int, NEW b \in Nat \ {0}
  PROVE  /\ a \div b \in Int
         /\ b * (a \div b) <= a
         /\ a < b * (a \div b) + b
  OBVIOUS

\* A quotient splits along a multiple of its divisor.
LEMMA SplitQuotient ==
  ASSUME NEW c \in Nat
  PROVE  (c \div 100) * 15 + ((c % 100) * 15) \div 100 = (15 * c) \div 100
  OBVIOUS

-----------------------------------------------------------------------------
(* Margins and dynamic loads.                                              *)

\* lowMargin (rules.go:187) takes the 15 percent in two parts, so that no product
\* can pass the width; the two roundings still give 15 percent of the capacity
\* rounded down once.  It warns exactly when, counted in whole kilograms, one
\* more than what is left is at most 15 percent.
THEOREM MarginIsExactlyRounded ==
  ASSUME NEW load \in Int, NEW capacity \in Int
  PROVE  LowMargin(load, capacity) <=>
           /\ 0 <= load /\ load <= capacity /\ 0 < capacity
           /\ 100 * (capacity - load + 1) <= 15 * capacity
<1>1. CASE capacity <= 0
  BY <1>1 DEF LowMargin
<1>2. CASE capacity > 0
  <2>1. capacity \in Nat
    BY <1>2
  <2>2. (capacity \div 100) * 15 + ((capacity % 100) * 15) \div 100 = (15 * capacity) \div 100
    BY <2>1, SplitQuotient
  <2> DEFINE threshold == (15 * capacity) \div 100
  <2>3. threshold \in Int /\ 100 * threshold <= 15 * capacity /\ 15 * capacity < 100 * threshold + 100
    BY <2>1
  <2>4. capacity - load < threshold <=> 100 * (capacity - load + 1) <= 15 * capacity
    <3> HIDE DEF threshold
    <3> QED
      BY <2>3
  <2> QED
    BY <1>2, <2>2, <2>4 DEF LowMargin
<1> QED
  BY <1>1, <1>2

\* A dynamic load that is not refused (rules.go:180) is computed without leaving
\* the width, and is the true load rounded up to the next kilogram.
THEOREM DynamicLoadIsRoundedUp ==
  ASSUME NEW static \in Int, NEW factor \in Int, DynamicLoadFits(static, factor)
  PROVE  /\ static * factor + Permille - 1 \in 0..MaxInt
         /\ DynamicLoad(static, factor) \in 0..MaxInt
         /\ Permille * DynamicLoad(static, factor) >= static * factor
         /\ Permille * DynamicLoad(static, factor) < static * factor + Permille
<1> DEFINE product == static * factor
<1>1. Permille \in Nat \ {0} /\ MaxInt \in Nat /\ Permille <= MaxInt
  BY RuleNumbersAssumption
<1>2. static \in Nat /\ factor \in Nat
  BY DEF DynamicLoadFits
<1>3. product \in Nat
  BY <1>2
<1>4. product <= MaxInt - (Permille - 1)
  <2>1. CASE factor = 0
    BY <1>1, <1>2, <2>1
  <2>2. CASE factor # 0
    <3> DEFINE most == (MaxInt - (Permille - 1)) \div factor
    <3>1. most \in Int /\ factor * most <= MaxInt - (Permille - 1)
      BY <1>1, <1>2, <2>2, DivisionBounds
    <3>2. static <= most
      BY <2>2 DEF DynamicLoadFits
    <3>3. factor * static <= factor * most
      <4> HIDE DEF most
      <4> QED
        BY <1>2, <3>1, <3>2
    <3> QED
      BY <1>1, <1>2, <3>1, <3>3
  <2> QED
    BY <2>1, <2>2
<1>5. /\ DynamicLoad(static, factor) \in Int
      /\ Permille * DynamicLoad(static, factor) <= product + Permille - 1
      /\ product + Permille - 1 < Permille * DynamicLoad(static, factor) + Permille
  BY <1>1, <1>3, DivisionBounds DEF DynamicLoad
<1>6. DynamicLoad(static, factor) \in 0..MaxInt
  <2> DEFINE d == DynamicLoad(static, factor)
  <2>1. d \in Int /\ Permille * d <= product + Permille - 1 /\ product + Permille - 1 < Permille * d + Permille
    BY <1>5
  <2> HIDE DEF d, product
  <2>2. d >= 0
    BY <1>1, <1>3, <2>1
  <2>3. d <= Permille * d
    BY <1>1, <2>1, <2>2
  <2> QED
    BY <1>1, <1>3, <1>4, <2>1, <2>2, <2>3 DEF d
<1> QED
  BY <1>1, <1>3, <1>4, <1>5, <1>6

\* Nothing is refused that could be computed: a load within the width fits.
LEMMA ComputableLoadFits ==
  ASSUME NEW static \in Nat, NEW factor \in Nat, static * factor + (Permille - 1) <= MaxInt
  PROVE  DynamicLoadFits(static, factor)
<1> DEFINE room == MaxInt - (Permille - 1)
           most == room \div factor
<1>1. room \in Int /\ static * factor \in Nat /\ static * factor <= room
  <2>1. Permille \in Nat \ {0} /\ MaxInt \in Nat /\ static * factor \in Nat
    BY RuleNumbersAssumption
  <2> DEFINE product == static * factor
  <2>2. product \in Nat /\ product + (Permille - 1) <= MaxInt
    BY <2>1
  <2> HIDE DEF product
  <2>3. product <= MaxInt - (Permille - 1) /\ MaxInt - (Permille - 1) \in Int
    BY <2>1, <2>2
  <2> QED
    BY <2>2, <2>3 DEF product
<1> HIDE DEF room
<1>2. ASSUME factor # 0
      PROVE  static <= most
  <2>1. most \in Int /\ room < factor * most + factor
    BY <1>1, <1>2, DivisionBounds
  <2> HIDE DEF most
  <2>2. SUFFICES ASSUME most + 1 <= static PROVE FALSE
    BY <2>1
  <2>3. factor * (most + 1) <= factor * static
    BY <2>1, <2>2
  <2>4. factor * (most + 1) = factor * most + factor /\ factor * static = static * factor
    BY <2>1
  <2> QED
    BY <1>1, <2>1, <2>3, <2>4
<1> QED
  BY <1>2 DEF DynamicLoadFits, room

-----------------------------------------------------------------------------
(* Sums over finite sets.  SumFunctionOnSet is a recursive function on the *)
(* subsets; that it has values, and what they are, is shown by looking at  *)
(* a smallest subset where it would not.                                   *)

\* A set of numbers has a least one; this stands for induction below.
LEMMA LeastNumber ==
  ASSUME NEW T, T \subseteq Nat, T # {}
  PROVE  \E n \in T : \A m \in T : n <= m
<1> DEFINE Less == OpToRel(<, Nat)
<1>1. \A x, y \in Nat : y < x => <<y, x>> \in Less
  BY DEF OpToRel
<1>2. IsWellFoundedOn(Less, Nat)
  BY NatLessThanWellFounded
<1> HIDE DEF Less
<1>3. PICK n \in T : \A m \in T : <<m, n>> \notin Less
  BY <1>2, WFMin
<1>4. ASSUME NEW m \in T PROVE n <= m
  <2>1. m \in Nat /\ n \in Nat /\ ~(m < n)
    BY <1>1, <1>3
  <2> QED
    BY <2>1
<1> QED
  BY <1>4

\* The element that a sum takes out of a set.
Pick(s) == CHOOSE x \in s : TRUE

\* What a sum makes of a set when partial has the sums of smaller sets.
SumStep(f, s, partial) == IF s = {} THEN 0 ELSE f[Pick(s)] + partial[s \ {Pick(s)}]

\* Without the element taken out, a set has one element less.
LEMMA PickedOut ==
  ASSUME NEW s, IsFiniteSet(s), s # {}
  PROVE  /\ Pick(s) \in s /\ IsFiniteSet(s \ {Pick(s)})
         /\ Cardinality(s) \in Nat \ {0}
         /\ Cardinality(s \ {Pick(s)}) = Cardinality(s) - 1
<1>1. Pick(s) \in s
  BY DEF Pick
<1> HIDE DEF Pick
<1>2. Cardinality(s \ {Pick(s)}) = Cardinality(s) - 1 /\ IsFiniteSet(s \ {Pick(s)})
  BY <1>1, FS_RemoveElement
<1>3. Cardinality(s) \in Nat /\ Cardinality(s) # 0
  BY FS_CardinalityType, FS_EmptySet
<1> QED
  BY <1>1, <1>2, <1>3

\* The partial sums over the subsets of a finite set exist.
LEMMA PartialSums ==
  ASSUME NEW S, IsFiniteSet(S), NEW f
  PROVE  \E partial : partial = [s \in SUBSET S |-> SumStep(f, s, partial)]
<1> DEFINE Small(k) == {s \in SUBSET S : Cardinality(s) <= k}
           Solved(k) == \E g : g = [s \in Small(k) |-> SumStep(f, s, g)]
           T == {k \in Nat : ~Solved(k)}
<1>1. \A s \in SUBSET S : IsFiniteSet(s) /\ Cardinality(s) \in Nat /\ Cardinality(s) <= Cardinality(S)
  BY FS_Subset, FS_CardinalityType
<1>2. ASSUME NEW n \in Nat, n > 0 => Solved(n - 1)
      PROVE  Solved(n)
  <2>1. PICK g : n > 0 => g = [s \in Small(n - 1) |-> SumStep(f, s, g)]
    BY <1>2
  <2> DEFINE h == [s \in Small(n) |-> SumStep(f, s, g)]
  <2>2. ASSUME NEW s \in Small(n)
        PROVE  SumStep(f, s, g) = SumStep(f, s, h)
    <3>1. CASE s = {}
      BY <3>1 DEF SumStep
    <3>2. CASE s # {}
      <4> DEFINE r == s \ {Pick(s)}
      <4>1. r \in SUBSET S /\ Cardinality(r) = Cardinality(s) - 1 /\ Cardinality(s) \in Nat \ {0}
        BY <1>1, <3>2, PickedOut
      <4>2. n > 0 /\ r \in Small(n - 1) /\ r \in Small(n)
        BY <1>1, <4>1
      <4>3. g[r] = SumStep(f, r, g) /\ h[r] = SumStep(f, r, g)
        <5> HIDE DEF Small, r
        <5> QED
          BY <2>1, <4>2
      <4> QED
        BY <3>2, <4>3 DEF SumStep
    <3> QED
      BY <3>1, <3>2
  <2>3. h = [s \in Small(n) |-> SumStep(f, s, h)]
    <3> HIDE DEF Small
    <3> QED
      BY <2>2
  <2> QED
    BY <2>3
<1>3. ASSUME T # {} PROVE FALSE
  <2>1. T \subseteq Nat
    OBVIOUS
  <2>2. PICK n \in T : \A m \in T : n <= m
    <3> HIDE DEF T
    <3> QED
      BY <1>3, <2>1, LeastNumber
  <2>3. n \in Nat /\ ~Solved(n)
    BY <2>2
  <2>4. n > 0 => n - 1 \in Nat /\ n - 1 \notin T
    <3> HIDE DEF T, Solved
    <3> QED
      BY <2>2, <2>3
  <2>5. n > 0 => Solved(n - 1)
    BY <2>4
  <2> HIDE DEF Solved
  <2> QED
    BY <1>2, <2>3, <2>5
<1>4. Solved(Cardinality(S))
  <2>1. Cardinality(S) \in Nat
    BY FS_CardinalityType
  <2> HIDE DEF Solved
  <2> QED
    BY <1>3, <2>1
<1>5. Small(Cardinality(S)) = SUBSET S
  BY <1>1
<1> QED
  BY <1>4, <1>5

\* A sum over a finite set is the last of its partial sums.
LEMMA SumIsPartial ==
  ASSUME NEW S, IsFiniteSet(S), NEW f
  PROVE  \E partial : /\ \A s \in SUBSET S : partial[s] = SumStep(f, s, partial)
                      /\ SumFunctionOnSet(f, S) = partial[S]
<1> DEFINE sums == CHOOSE partial : partial = [s \in SUBSET S |-> SumStep(f, s, partial)]
<1>1. SumFunctionOnSet(f, S) = sums[S]
  BY DEF SumFunctionOnSet, FoldFunctionOnSet, MapThenFoldSet, SumStep, Pick
<1>2. sums = [s \in SUBSET S |-> SumStep(f, s, sums)]
  BY PartialSums
<1> HIDE DEF sums
<1> QED
  BY <1>1, <1>2

\* A sum of integers is one, and grows with them.
LEMMA SumsGrow ==
  ASSUME NEW S, IsFiniteSet(S), NEW f, NEW g,
         \A x \in S : f[x] \in Int /\ g[x] \in Int /\ f[x] <= g[x]
  PROVE  /\ SumFunctionOnSet(f, S) \in Int /\ SumFunctionOnSet(g, S) \in Int
         /\ SumFunctionOnSet(f, S) <= SumFunctionOnSet(g, S)
<1>1. PICK a : /\ \A s \in SUBSET S : a[s] = SumStep(f, s, a)
               /\ SumFunctionOnSet(f, S) = a[S]
  BY SumIsPartial
<1>2. PICK b : /\ \A s \in SUBSET S : b[s] = SumStep(g, s, b)
               /\ SumFunctionOnSet(g, S) = b[S]
  BY SumIsPartial
<1> DEFINE Fine(s) == a[s] \in Int /\ b[s] \in Int /\ a[s] <= b[s]
           T == {k \in Nat : \E s \in SUBSET S : Cardinality(s) = k /\ ~Fine(s)}
<1>3. \A s \in SUBSET S : IsFiniteSet(s) /\ Cardinality(s) \in Nat
  BY FS_Subset, FS_CardinalityType
<1>4. ASSUME NEW s \in SUBSET S, s # {} => Fine(s \ {Pick(s)})
      PROVE  Fine(s)
  <2>1. a[s] = SumStep(f, s, a) /\ b[s] = SumStep(g, s, b)
    BY <1>1, <1>2
  <2>2. CASE s = {}
    BY <2>1, <2>2 DEF SumStep
  <2>3. CASE s # {}
    <3> DEFINE x == Pick(s)
               r == s \ {Pick(s)}
    <3>1. x \in S
      BY <1>3, <2>3, PickedOut
    <3>2. a[s] = f[x] + a[r] /\ b[s] = g[x] + b[r]
      BY <2>1, <2>3 DEF SumStep
    <3>3. Fine(r)
      BY <1>4, <2>3
    <3> HIDE DEF x, r
    <3>4. f[x] \in Int /\ g[x] \in Int /\ f[x] <= g[x]
      BY <3>1
    <3> QED
      BY <3>2, <3>3, <3>4
  <2> QED
    BY <2>2, <2>3
<1> HIDE DEF Fine
<1>5. ASSUME T # {} PROVE FALSE
  <2>1. T \subseteq Nat
    OBVIOUS
  <2>2. PICK n \in T : \A m \in T : n <= m
    <3> HIDE DEF T
    <3> QED
      BY <1>5, <2>1, LeastNumber
  <2>3. PICK s \in SUBSET S : Cardinality(s) = n /\ ~Fine(s)
    BY <2>2
  <2>4. ASSUME s # {} PROVE Fine(s \ {Pick(s)})
    <3> DEFINE r == s \ {Pick(s)}
    <3>1. r \in SUBSET S /\ Cardinality(r) = n - 1 /\ n - 1 \in Nat /\ n \in Nat
      BY <1>3, <2>3, <2>4, PickedOut
    <3>2. ~Fine(r) => n - 1 \in T
      BY <3>1
    <3>3. n - 1 \notin T
      <4> HIDE DEF T
      <4> QED
        BY <2>2, <3>1
    <3> QED
      BY <3>2, <3>3
  <2> QED
    BY <1>4, <2>3, <2>4
<1>6. Fine(S)
  <2>1. Cardinality(S) \in Nat /\ S \in SUBSET S
    BY <1>3
  <2> QED
    BY <1>5, <2>1
<1> QED
  BY <1>1, <1>2, <1>6 DEF Fine

\* Partial sums of a set and of a subset are the same where both are defined.
LEMMA PartialSumsAgree ==
  ASSUME NEW S, IsFiniteSet(S), NEW R \in SUBSET S, NEW f, NEW a, NEW b,
         \A s \in SUBSET S : a[s] = SumStep(f, s, a),
         \A s \in SUBSET R : b[s] = SumStep(f, s, b)
  PROVE  a[R] = b[R]
<1> DEFINE T == {k \in Nat : \E s \in SUBSET R : Cardinality(s) = k /\ a[s] # b[s]}
<1>1. \A s \in SUBSET R : s \in SUBSET S /\ IsFiniteSet(s) /\ Cardinality(s) \in Nat
  BY FS_Subset, FS_CardinalityType
<1>2. ASSUME T # {} PROVE FALSE
  <2>1. T \subseteq Nat
    OBVIOUS
  <2>2. PICK n \in T : \A m \in T : n <= m
    <3> HIDE DEF T
    <3> QED
      BY <1>2, <2>1, LeastNumber
  <2>3. PICK s \in SUBSET R : Cardinality(s) = n /\ a[s] # b[s]
    BY <2>2
  <2>4. a[s] = SumStep(f, s, a) /\ b[s] = SumStep(f, s, b)
    BY <1>1
  <2>5. s # {}
    BY <2>3, <2>4 DEF SumStep
  <2> DEFINE r == s \ {Pick(s)}
  <2>6. r \in SUBSET R /\ Cardinality(r) = n - 1 /\ n - 1 \in Nat /\ n \in Nat
    BY <1>1, <2>3, <2>5, PickedOut
  <2>7. a[r] # b[r]
    <3> HIDE DEF r
    <3>1. a[r] = b[r] => SumStep(f, s, a) = SumStep(f, s, b)
      BY DEF SumStep, r
    <3> QED
      BY <2>3, <2>4, <3>1
  <2>8. n - 1 \in T
    <3> HIDE DEF r
    <3> QED
      BY <2>6, <2>7
  <2> HIDE DEF T
  <2> QED
    BY <2>2, <2>6, <2>8
<1>3. Cardinality(R) \in Nat
  BY <1>1
<1> QED
  BY <1>2, <1>3

\* A sum takes one element out and goes on with the rest.
LEMMA SumEquation ==
  ASSUME NEW S, IsFiniteSet(S), NEW f
  PROVE  SumFunctionOnSet(f, S) =
           IF S = {} THEN 0 ELSE f[Pick(S)] + SumFunctionOnSet(f, S \ {Pick(S)})
<1>1. PICK a : /\ \A s \in SUBSET S : a[s] = SumStep(f, s, a)
               /\ SumFunctionOnSet(f, S) = a[S]
  BY SumIsPartial
<1>2. a[S] = SumStep(f, S, a)
  BY <1>1
<1>3. CASE S = {}
  BY <1>1, <1>2, <1>3 DEF SumStep
<1>4. CASE S # {}
  <2> DEFINE R == S \ {Pick(S)}
  <2>1. R \in SUBSET S /\ IsFiniteSet(R)
    BY <1>4, PickedOut
  <2> HIDE DEF R
  <2>2. PICK b : /\ \A s \in SUBSET R : b[s] = SumStep(f, s, b)
                 /\ SumFunctionOnSet(f, R) = b[R]
    BY <2>1, SumIsPartial
  <2>3. a[R] = b[R]
    BY <1>1, <2>1, <2>2, PartialSumsAgree
  <2>4. a[S] = f[Pick(S)] + a[R]
    BY <1>2, <1>4 DEF SumStep, R
  <2> QED
    BY <1>1, <1>4, <2>2, <2>3, <2>4 DEF R
<1> QED
  BY <1>3, <1>4

\* A sum of natural numbers is one.
LEMMA SumsAreNumbers ==
  ASSUME NEW S, IsFiniteSet(S), NEW f, \A x \in S : f[x] \in Nat
  PROVE  SumFunctionOnSet(f, S) \in Nat
<1> DEFINE T == {k \in Nat : \E s \in SUBSET S : Cardinality(s) = k /\ SumFunctionOnSet(f, s) \notin Nat}
<1>1. \A s \in SUBSET S : IsFiniteSet(s) /\ Cardinality(s) \in Nat
  BY FS_Subset, FS_CardinalityType
<1>2. ASSUME T # {} PROVE FALSE
  <2>1. T \subseteq Nat
    OBVIOUS
  <2>2. PICK n \in T : \A m \in T : n <= m
    <3> HIDE DEF T
    <3> QED
      BY <1>2, <2>1, LeastNumber
  <2>3. PICK s \in SUBSET S : Cardinality(s) = n /\ SumFunctionOnSet(f, s) \notin Nat
    BY <2>2
  <2>4. s # {}
    BY <1>1, <2>3, SumEquation
  <2> DEFINE r == s \ {Pick(s)}
  <2>5. SumFunctionOnSet(f, s) = f[Pick(s)] + SumFunctionOnSet(f, r)
    BY <1>1, <2>4, SumEquation
  <2>6. Pick(s) \in S /\ r \in SUBSET S /\ Cardinality(r) = n - 1 /\ n \in Nat \ {0}
    BY <1>1, <2>3, <2>4, PickedOut
  <2> HIDE DEF r
  <2>7. SumFunctionOnSet(f, r) \notin Nat
    BY <2>3, <2>5, <2>6
  <2>8. n - 1 \in T /\ ~(n <= n - 1)
    BY <2>6, <2>7
  <2> HIDE DEF T
  <2> QED
    BY <2>2, <2>8
<1>3. Cardinality(S) \in Nat
  BY <1>1
<1> QED
  BY <1>2, <1>3

\* Which one does not matter.
LEMMA SumWithout ==
  ASSUME NEW S, IsFiniteSet(S), NEW f, \A x \in S : f[x] \in Int, NEW x \in S
  PROVE  SumFunctionOnSet(f, S) = f[x] + SumFunctionOnSet(f, S \ {x})
<1> DEFINE Sum(s) == SumFunctionOnSet(f, s)
           Fine(s, y) == Sum(s) = f[y] + Sum(s \ {y})
           T == {k \in Nat : \E s \in SUBSET S : Cardinality(s) = k /\ \E y \in s : ~Fine(s, y)}
<1>1. \A s \in SUBSET S : IsFiniteSet(s) /\ Cardinality(s) \in Nat
  BY FS_Subset, FS_CardinalityType
<1>2. \A s \in SUBSET S : Sum(s) \in Int
  <2> SUFFICES ASSUME NEW s \in SUBSET S PROVE Sum(s) \in Int
    OBVIOUS
  <2>1. IsFiniteSet(s) /\ \A y \in s : f[y] \in Int /\ f[y] <= f[y]
    BY <1>1
  <2> QED
    BY <2>1, SumsGrow
<1>3. \A s \in SUBSET S : s # {} => Pick(s) \in s /\ Sum(s) = f[Pick(s)] + Sum(s \ {Pick(s)})
  BY <1>1, SumEquation, PickedOut
<1>4. \A s \in SUBSET S : \A y \in s : s \ {y} \in SUBSET S /\ Cardinality(s \ {y}) = Cardinality(s) - 1
  BY <1>1, FS_RemoveElement
<1> HIDE DEF Sum
<1>5. ASSUME T # {} PROVE FALSE
  <2>1. T \subseteq Nat
    OBVIOUS
  <2>2. PICK n \in T : \A m \in T : n <= m
    <3> HIDE DEF T
    <3> QED
      BY <1>5, <2>1, LeastNumber
  <2>a. PICK s \in SUBSET S : Cardinality(s) = n /\ \E y \in s : ~Fine(s, y)
    BY <2>2
  <2>3. PICK y \in s : ~Fine(s, y)
    BY <2>a
  <2> DEFINE p == Pick(s)
             r == s \ {p}
             q == s \ {y}
             rest == s \ {p, y}
  <2>4. p \in s /\ Sum(s) = f[p] + Sum(r)
    BY <1>3, <2>3
  <2> HIDE DEF p
  <2>5. p # y
    BY <2>3, <2>4
  <2>6. /\ y \in r /\ p \in q /\ r \in SUBSET S /\ q \in SUBSET S
        /\ Cardinality(r) = n - 1 /\ Cardinality(q) = n - 1
    BY <1>4, <2>a, <2>3, <2>4, <2>5
  <2>7. n \in Nat /\ n - 1 \in Nat
    BY <1>1, <2>a, <2>6
  <2>8. n - 1 \notin T
    <3> HIDE DEF T
    <3> QED
      BY <2>2, <2>7
  <2>9. Fine(r, y) /\ Fine(q, p)
    <3> HIDE DEF Fine, r, q
    <3> QED
      BY <2>6, <2>7, <2>8
  <2>10. r \ {y} = rest /\ q \ {p} = rest /\ rest \in SUBSET S
    OBVIOUS
  <2>11. Sum(r) = f[y] + Sum(rest) /\ Sum(q) = f[p] + Sum(rest)
    BY <2>9, <2>10
  <2>12. f[y] \in Int /\ f[p] \in Int /\ Sum(rest) \in Int
    BY <1>2, <2>4, <2>10
  <2>13. Sum(s) = f[y] + Sum(q)
    <3> HIDE DEF r, q, rest
    <3> QED
      BY <2>4, <2>11, <2>12
  <2> QED
    BY <2>3, <2>13
<1>6. Fine(S, x)
  <2>1. Cardinality(S) \in Nat
    BY <1>1
  <2> HIDE DEF Fine
  <2> QED
    BY <1>5, <2>1
<1> QED
  BY <1>6 DEF Sum

\* The sum over two sets that share nothing is the sum of both sums.
LEMMA SumOfBoth ==
  ASSUME NEW A, IsFiniteSet(A), NEW B, IsFiniteSet(B), A \cap B = {},
         NEW f, \A x \in A \cup B : f[x] \in Int
  PROVE  SumFunctionOnSet(f, A \cup B) = SumFunctionOnSet(f, A) + SumFunctionOnSet(f, B)
<1> DEFINE Sum(s) == SumFunctionOnSet(f, s)
           Fine(s) == Sum(A \cup s) = Sum(A) + Sum(s)
           T == {k \in Nat : \E s \in SUBSET B : Cardinality(s) = k /\ ~Fine(s)}
<1>1. \A s \in SUBSET B : IsFiniteSet(s) /\ Cardinality(s) \in Nat /\ IsFiniteSet(A \cup s)
  BY FS_Subset, FS_CardinalityType, FS_Union
<1>2. \A s \in SUBSET (A \cup B) : IsFiniteSet(s) => Sum(s) \in Int
  <2> SUFFICES ASSUME NEW s \in SUBSET (A \cup B), IsFiniteSet(s) PROVE Sum(s) \in Int
    OBVIOUS
  <2>1. \A y \in s : f[y] \in Int /\ f[y] <= f[y]
    OBVIOUS
  <2> QED
    BY <2>1, SumsGrow
<1>3. \A s \in SUBSET (A \cup B) : \A y \in s : IsFiniteSet(s) => Sum(s) = f[y] + Sum(s \ {y})
  BY SumWithout
<1>4. \A s \in SUBSET B : \A y \in s : s \ {y} \in SUBSET B /\ Cardinality(s \ {y}) = Cardinality(s) - 1
  BY <1>1, FS_RemoveElement
<1>5. Sum({}) = 0
  BY FS_EmptySet, SumEquation
<1> HIDE DEF Sum
<1>6. ASSUME T # {} PROVE FALSE
  <2>1. T \subseteq Nat
    OBVIOUS
  <2>2. PICK n \in T : \A m \in T : n <= m
    <3> HIDE DEF T
    <3> QED
      BY <1>6, <2>1, LeastNumber
  <2>3. PICK s \in SUBSET B : Cardinality(s) = n /\ ~Fine(s)
    BY <2>2
  <2>4. s # {}
    <3>1. Sum(A) \in Int /\ A \cup {} = A
      BY <1>2
    <3> QED
      BY <1>5, <2>3, <3>1
  <2>5. PICK y : y \in s
    BY <2>4
  <2> DEFINE r == s \ {y}
  <2>6. r \in SUBSET B /\ Cardinality(r) = n - 1 /\ n - 1 \in Nat /\ n \in Nat
    <3>1. r \in SUBSET B /\ Cardinality(r) = n - 1
      BY <1>4, <2>3, <2>5
    <3>2. Cardinality(r) \in Nat /\ n \in Nat
      BY <1>1, <2>3, <3>1
    <3> HIDE DEF r
    <3> QED
      BY <3>1, <3>2
  <2>7. Fine(r)
    <3>1. n - 1 \notin T
      <4> HIDE DEF T
      <4> QED
        BY <2>2, <2>6
    <3> HIDE DEF Fine, r
    <3> QED
      BY <2>6, <3>1
  <2>8. y \in A \cup s /\ (A \cup s) \ {y} = A \cup r
    BY <2>5
  <2>9. Sum(A \cup s) = f[y] + Sum(A \cup r) /\ Sum(s) = f[y] + Sum(r)
    BY <1>1, <1>3, <2>5, <2>8
  <2>10. f[y] \in Int /\ Sum(A) \in Int /\ Sum(r) \in Int
    <3>1. r \in SUBSET (A \cup B) /\ IsFiniteSet(r)
      BY <1>1, <2>6
    <3> HIDE DEF r
    <3> QED
      BY <1>2, <2>5, <3>1
  <2> QED
    <3> HIDE DEF r
    <3> QED
      BY <2>3, <2>7, <2>9, <2>10
<1>7. Fine(B)
  <2>1. Cardinality(B) \in Nat
    BY <1>1
  <2> HIDE DEF Fine
  <2> QED
    BY <1>6, <2>1
<1> QED
  BY <1>7 DEF Sum

-----------------------------------------------------------------------------
(* More load.                                                              *)

\* A load point with numbers that preflightChangeSet lets through.
IsLoadPoint(p) == p.static \in Nat /\ p.factor \in Nat /\ p.capacity \in Nat

\* The same load points, one or more of them with a greater static load.
Heavier(ps, qs) ==
  /\ IsFiniteSet(DOMAIN ps) /\ DOMAIN qs = DOMAIN ps
  /\ \A id \in DOMAIN ps :
       /\ IsLoadPoint(ps[id]) /\ IsLoadPoint(qs[id])
       /\ qs[id].parent = ps[id].parent /\ qs[id].factor = ps[id].factor
       /\ qs[id].capacity = ps[id].capacity /\ ps[id].static <= qs[id].static

\* They are connected in the same way.
LEMMA SameWayUp ==
  ASSUME NEW ps, NEW qs, Heavier(ps, qs), NEW id
  PROVE  Climb(qs, id) = Climb(ps, id)
<1> DEFINE D == DOMAIN ps
           N == Cardinality(DOMAIN ps)
           Known(points, known) == {points[x].parent : x \in {y \in known \cap D : points[y].parent # NoParent}}
           Up(points, up) == [n \in 0..N |-> IF n = 0 THEN {id} ELSE up[n - 1] \cup Known(points, up[n - 1])]
<1>1. /\ Climb(ps, id) = (CHOOSE up : up = Up(ps, up))[N]
      /\ Climb(qs, id) = (CHOOSE up : up = Up(qs, up))[N]
  BY DEF Climb, Heavier
<1>2. \A known : Known(ps, known) = Known(qs, known)
  BY DEF Heavier
<1> HIDE DEF Known
<1>3. \A up : Up(ps, up) = Up(qs, up)
  BY <1>2
<1> HIDE DEF Up, N
<1>4. (CHOOSE up : up = Up(ps, up)) = (CHOOSE up : up = Up(qs, up))
  BY <1>3
<1> QED
  BY <1>1, <1>4

\* So the rules about the connections and the sets of points are the same.
LEMMA SameShape ==
  ASSUME NEW ps, NEW qs, Heavier(ps, qs)
  PROVE  /\ Orphans(qs) = Orphans(ps) /\ Roots(qs) = Roots(ps)
         /\ ConnectionCycleIDs(qs) = ConnectionCycleIDs(ps)
         /\ \A id : Subtree(qs, id) = Subtree(ps, id)
         /\ Rooted(qs) = Rooted(ps)
         /\ StructureHits(qs) = StructureHits(ps)
         /\ UnrootedHits(qs) = UnrootedHits(ps)
<1>1. \A id : Climb(qs, id) = Climb(ps, id)
  BY SameWayUp
<1>2. DOMAIN qs = DOMAIN ps /\ \A id \in DOMAIN ps : qs[id].parent = ps[id].parent
  BY DEF Heavier
<1>3. Orphans(qs) = Orphans(ps) /\ Roots(qs) = Roots(ps)
  BY <1>2 DEF Orphans, Roots
<1>4. ConnectionCycleIDs(qs) = ConnectionCycleIDs(ps)
  BY <1>1, <1>2 DEF ConnectionCycleIDs
<1>5. \A id : Subtree(qs, id) = Subtree(ps, id)
  BY <1>1, <1>2 DEF Subtree
<1>6. Rooted(qs) = Rooted(ps)
  BY <1>3, <1>5 DEF Rooted
<1>7. StructureHits(qs) = StructureHits(ps)
  <2>1. \A id \in Orphans(ps) : qs[id].parent = ps[id].parent
    BY <1>2 DEF Orphans
  <2> QED
    BY <1>3, <1>4, <2>1 DEF StructureHits
<1>8. UnrootedHits(qs) = UnrootedHits(ps)
  <2>1. {x \in DOMAIN qs : Climb(qs, x) \cap Roots(qs) = {}} = {x \in DOMAIN ps : Climb(ps, x) \cap Roots(ps) = {}}
    BY <1>1, <1>2, <1>3
  <2> QED
    BY <2>1 DEF UnrootedHits
<1> QED
  BY <1>3, <1>4, <1>5, <1>6, <1>7, <1>8

\* The load of a point is a number that grows with its static load, and what cannot
\* be computed stays so.
LEMMA OwnLoadGrows ==
  ASSUME NEW p, NEW q, IsLoadPoint(p), IsLoadPoint(q), q.factor = p.factor, p.static <= q.static
  PROVE  /\ Own(p) \in Int /\ Own(q) \in Int /\ Own(p) <= Own(q)
         /\ OwnFits(q) => OwnFits(p)
<1> DEFINE s == p.static
           t == q.static
           f == p.factor
<1>0. s \in Nat /\ t \in Nat /\ f \in Nat /\ s <= t /\ Permille \in Nat \ {0} /\ MaxInt \in Nat
  BY RuleNumbersAssumption DEF IsLoadPoint
<1>1. /\ Own(p) = (s * f + Permille - 1) \div Permille
      /\ Own(q) = (t * f + Permille - 1) \div Permille
  BY DEF Own, DynamicLoad
<1>2. OwnFits(q) => OwnFits(p)
  <2>1. /\ OwnFits(p) <=> s >= 0 /\ f >= 0 /\ (f # 0 => s <= (MaxInt - (Permille - 1)) \div f)
        /\ OwnFits(q) <=> t >= 0 /\ f >= 0 /\ (f # 0 => t <= (MaxInt - (Permille - 1)) \div f)
    BY DEF OwnFits, DynamicLoadFits
  <2> DEFINE most == (MaxInt - (Permille - 1)) \div f
  <2>2. f # 0 => most \in Int
    BY <1>0
  <2> HIDE DEF most, s, t, f
  <2> QED
    BY <1>0, <2>1, <2>2 DEF most
<1> DEFINE a == s * f + Permille - 1
           b == t * f + Permille - 1
<1>3. a \in Int /\ b \in Int /\ a <= b
  <2> HIDE DEF s, t, f
  <2>1. s * f \in Nat /\ t * f \in Nat /\ s * f <= t * f
    BY <1>0
  <2> QED
    BY <1>0, <2>1
<1> HIDE DEF s, t, f, a, b
<1>4. ASSUME NEW x \in Int, NEW y \in Int, x <= y, NEW d \in Nat \ {0}
      PROVE  x \div d \in Int /\ y \div d \in Int /\ x \div d <= y \div d
  BY <1>4
<1>5. a \div Permille \in Int /\ b \div Permille \in Int /\ a \div Permille <= b \div Permille
  BY <1>0, <1>3, <1>4
<1> QED
  BY <1>1, <1>2, <1>5 DEF a, b

\* So does the load of any set of points.
LEMMA LoadsGrow ==
  ASSUME NEW ps, NEW qs, Heavier(ps, qs), NEW ids, ids \subseteq DOMAIN ps
  PROVE  LoadOf(ps, ids) \in Int /\ LoadOf(qs, ids) \in Int /\ LoadOf(ps, ids) <= LoadOf(qs, ids)
<1> DEFINE f == [id \in ids |-> Own(ps[id])]
           g == [id \in ids |-> Own(qs[id])]
<1>1. IsFiniteSet(ids)
  BY FS_Subset DEF Heavier
<1>2. \A id \in ids : f[id] \in Int /\ g[id] \in Int /\ f[id] <= g[id]
  <2> SUFFICES ASSUME NEW id \in ids PROVE f[id] \in Int /\ g[id] \in Int /\ f[id] <= g[id]
    OBVIOUS
  <2>1. IsLoadPoint(ps[id]) /\ IsLoadPoint(qs[id]) /\ qs[id].factor = ps[id].factor /\ ps[id].static <= qs[id].static
    BY DEF Heavier
  <2>2. Own(ps[id]) \in Int /\ Own(qs[id]) \in Int /\ Own(ps[id]) <= Own(qs[id])
    BY <2>1, OwnLoadGrows
  <2> QED
    BY <2>2
<1>3. LoadOf(ps, ids) = SumFunctionOnSet(f, ids) /\ LoadOf(qs, ids) = SumFunctionOnSet(g, ids)
  BY DEF LoadOf
<1> HIDE DEF f, g
<1> QED
  BY <1>1, <1>2, <1>3, SumsGrow

\* What cannot be computed cannot be computed with more load either.
LEMMA FitsShrink ==
  ASSUME NEW ps, NEW qs, Heavier(ps, qs)
  PROVE  /\ \A id \in DOMAIN ps : OwnFits(qs[id]) => OwnFits(ps[id])
         /\ StructurallyInvalid(ps) \subseteq StructurallyInvalid(qs)
         /\ \A id : CascadeFits(qs, id) => CascadeFits(ps, id)
         /\ \A id : CascadeTotal(ps, id) \in Int /\ CascadeTotal(qs, id) \in Int
                    /\ CascadeTotal(ps, id) <= CascadeTotal(qs, id)
         /\ VenueFits(qs) => VenueFits(ps)
<1>0. MaxInt \in Nat
  BY RuleNumbersAssumption
<1>1. \A id \in DOMAIN ps : OwnFits(qs[id]) => OwnFits(ps[id])
  <2> SUFFICES ASSUME NEW id \in DOMAIN ps PROVE OwnFits(qs[id]) => OwnFits(ps[id])
    OBVIOUS
  <2>1. IsLoadPoint(ps[id]) /\ IsLoadPoint(qs[id]) /\ qs[id].factor = ps[id].factor /\ ps[id].static <= qs[id].static
    BY DEF Heavier
  <2> QED
    BY <2>1, OwnLoadGrows
<1>2. StructurallyInvalid(ps) \subseteq StructurallyInvalid(qs)
  <2>1. DOMAIN qs = DOMAIN ps
    BY DEF Heavier
  <2> QED
    BY <1>1, <2>1, SameShape DEF StructurallyInvalid
<1>3. ASSUME NEW id
      PROVE  /\ CascadeTotal(ps, id) \in Int /\ CascadeTotal(qs, id) \in Int
             /\ CascadeTotal(ps, id) <= CascadeTotal(qs, id)
  <2>1. Subtree(qs, id) = Subtree(ps, id) /\ Subtree(ps, id) \subseteq DOMAIN ps
    BY SameShape DEF Subtree
  <2> QED
    BY <2>1, LoadsGrow DEF CascadeTotal
<1>4. ASSUME NEW id, CascadeFits(qs, id)
      PROVE  CascadeFits(ps, id)
  <2>1. Subtree(ps, id) \cap StructurallyInvalid(ps) = {}
    BY <1>2, <1>4, SameShape DEF CascadeFits
  <2>2. CascadeTotal(qs, id) <= MaxInt
    BY <1>4 DEF CascadeFits
  <2>3. CascadeTotal(ps, id) <= MaxInt
    BY <1>0, <1>3, <2>2
  <2> QED
    BY <2>1, <2>3 DEF CascadeFits
<1>5. Rooted(qs) = Rooted(ps) /\ Rooted(ps) \subseteq DOMAIN ps
  BY SameShape DEF Rooted, Subtree
<1>6. /\ LoadOf(ps, Rooted(ps)) \in Int /\ LoadOf(qs, Rooted(qs)) \in Int
      /\ LoadOf(ps, Rooted(ps)) <= LoadOf(qs, Rooted(qs))
  BY <1>5, LoadsGrow
<1>7. ASSUME VenueFits(qs) PROVE VenueFits(ps)
  <2>1. \A r \in Roots(ps) : CascadeFits(ps, r)
    BY <1>4, <1>7, SameShape DEF VenueFits
  <2>2. LoadOf(qs, Rooted(qs)) <= MaxInt
    BY <1>7 DEF VenueFits
  <2>3. LoadOf(ps, Rooted(ps)) <= MaxInt
    BY <1>0, <1>6, <2>2
  <2> QED
    BY <2>1, <2>3 DEF VenueFits
<1> QED
  BY <1>1, <1>2, <1>3, <1>4, <1>7

\* A blocking hit, by the rule that makes it.
Blocked(ps, cues, venueLimit) ==
  \/ Orphans(ps) # {} \/ ConnectionCycleIDs(ps) # {}
  \/ UnrootedHits(ps) # {}
  \/ \E id \in DOMAIN ps : ~OwnFits(ps[id]) \/ Own(ps[id]) > ps[id].capacity
  \/ \E id \in DOMAIN ps : IF CascadeFits(ps, id) THEN CascadeTotal(ps, id) > ps[id].capacity
                           ELSE id \notin StructurallyInvalid(ps)
  \/ ~VenueFits(ps) \/ LoadOf(ps, Rooted(ps)) > venueLimit
  \/ MutexHits(cues) # {}
  \/ DOMAIN ps = {} \/ DOMAIN cues = {}

\* The severity of a hit decides.
LEMMA BlockersAre ==
  ASSUME NEW ps, NEW cues, NEW venueLimit
  PROVE  Blockers(Evaluate(ps, cues, venueLimit)) # {} <=> Blocked(ps, cues, venueLimit)
<1> DEFINE Some(hits) == \E h \in hits : h.severity = BLOCKING
<1>1. \A code, severity, refs : Hit(code, severity, refs).severity = severity
  BY DEF Hit
<1>2. BLOCKING # WARNING
  BY DEF BLOCKING, WARNING
<1>a. ASSUME NEW hits, \A h \in hits : h.severity = BLOCKING
      PROVE  Some(hits) <=> hits # {}
  BY <1>a
<1> HIDE DEF Hit
<1>3. Some(StructureHits(ps)) <=> Orphans(ps) # {} \/ ConnectionCycleIDs(ps) # {}
  <2> DEFINE A == {Hit("ORPHAN_PARENT", BLOCKING, {id, ps[id].parent}) : id \in Orphans(ps)}
             B == {Hit("CONNECTION_CYCLE", BLOCKING, {id}) : id \in ConnectionCycleIDs(ps)}
  <2>1. (\A h \in A : h.severity = BLOCKING) /\ (\A h \in B : h.severity = BLOCKING)
    BY DEF Hit
  <2>2. (A # {} <=> Orphans(ps) # {}) /\ (B # {} <=> ConnectionCycleIDs(ps) # {})
    OBVIOUS
  <2>3. StructureHits(ps) = A \cup B
    BY DEF StructureHits
  <2> HIDE DEF A, B
  <2>4. Some(A) <=> A # {}
    BY <1>a, <2>1
  <2>5. Some(B) <=> B # {}
    BY <1>a, <2>1
  <2> QED
    BY <2>2, <2>3, <2>4, <2>5
<1>4. Some(UnrootedHits(ps)) <=> UnrootedHits(ps) # {}
  <2> DEFINE X == {x \in DOMAIN ps : Climb(ps, x) \cap Roots(ps) = {}}
  <2>1. UnrootedHits(ps) = {Hit("UNROOTED_POINT", BLOCKING, {id}) : id \in X}
    BY DEF UnrootedHits
  <2> HIDE DEF X
  <2>2. \A h \in UnrootedHits(ps) : h.severity = BLOCKING
    BY <2>1 DEF Hit
  <2> QED
    BY <1>a, <2>2
<1>5. \A over, close, p, load, refs : Some(CapacityHits(over, close, p, load, refs)) <=> load > p.capacity
  BY <1>1, <1>2 DEF CapacityHits
<1>6. \A id : Some(OwnHits(ps, id)) <=> ~OwnFits(ps[id]) \/ Own(ps[id]) > ps[id].capacity
  BY <1>1, <1>5 DEF OwnHits
<1>7. \A id : Some(CascadeHits(ps, id)) <=>
                IF CascadeFits(ps, id) THEN CascadeTotal(ps, id) > ps[id].capacity
                ELSE id \notin StructurallyInvalid(ps)
  BY <1>1, <1>5 DEF CascadeHits
<1>8. Some(VenueHits(ps, venueLimit)) <=> ~VenueFits(ps) \/ LoadOf(ps, Rooted(ps)) > venueLimit
  BY <1>1 DEF VenueHits
<1>9. Some(MutexHits(cues)) <=> MutexHits(cues) # {}
  BY <1>1 DEF MutexHits
<1>10. Some(RequiredHits(ps, cues)) <=> DOMAIN ps = {} \/ DOMAIN cues = {}
  BY <1>1 DEF RequiredHits
<1>11. Some(LoadHits(ps)) <=> \E id \in DOMAIN ps : Some(OwnHits(ps, id)) \/ Some(CascadeHits(ps, id))
  BY DEF LoadHits
<1>12. Blockers(Evaluate(ps, cues, venueLimit)) # {} <=>
         \/ Some(StructureHits(ps)) \/ Some(UnrootedHits(ps)) \/ Some(LoadHits(ps))
         \/ Some(VenueHits(ps, venueLimit)) \/ Some(MutexHits(cues)) \/ Some(RequiredHits(ps, cues))
  BY DEF Blockers, Evaluate
<1> HIDE DEF Some
<1> QED
  BY <1>3, <1>4, <1>6, <1>7, <1>8, <1>9, <1>10, <1>11, <1>12 DEF Blocked

\* More load leaves a refused case refused, for any cues and any limit.
LEMMA HeavierIsRefused ==
  ASSUME NEW ps, NEW qs, Heavier(ps, qs), NEW cues, NEW limit \in Int, Blocked(ps, cues, limit)
  PROVE  Blocked(qs, cues, limit)
<1>0. DOMAIN qs = DOMAIN ps
  BY DEF Heavier
<1>1. CASE Orphans(ps) # {} \/ ConnectionCycleIDs(ps) # {} \/ UnrootedHits(ps) # {}
  BY <1>1, SameShape DEF Blocked
<1>2. ASSUME NEW id \in DOMAIN ps, ~OwnFits(ps[id]) \/ Own(ps[id]) > ps[id].capacity
      PROVE  Blocked(qs, cues, limit)
  <2>1. CASE ~OwnFits(ps[id])
    <3>1. ~OwnFits(qs[id])
      BY <2>1, FitsShrink
    <3> QED
      BY <1>0, <3>1 DEF Blocked
  <2>2. CASE Own(ps[id]) > ps[id].capacity
    <3>1. /\ IsLoadPoint(ps[id]) /\ IsLoadPoint(qs[id]) /\ qs[id].factor = ps[id].factor
          /\ ps[id].static <= qs[id].static /\ qs[id].capacity = ps[id].capacity
      BY DEF Heavier
    <3>2. Own(ps[id]) \in Int /\ Own(qs[id]) \in Int /\ Own(ps[id]) <= Own(qs[id])
      BY <3>1, OwnLoadGrows
    <3>3. Own(qs[id]) > qs[id].capacity
      BY <2>2, <3>1, <3>2 DEF IsLoadPoint
    <3> QED
      BY <1>0, <3>3 DEF Blocked
  <2> QED
    BY <1>2, <2>1, <2>2
<1>3. ASSUME NEW id \in DOMAIN ps, ~CascadeFits(qs, id)
      PROVE  Blocked(qs, cues, limit)
  <2>1. CASE id \notin StructurallyInvalid(qs)
    BY <1>0, <1>3, <2>1 DEF Blocked
  <2>2. CASE id \in StructurallyInvalid(qs)
    BY <2>2 DEF Blocked, StructurallyInvalid
  <2> QED
    BY <2>1, <2>2
<1>4. ASSUME NEW id \in DOMAIN ps,
             IF CascadeFits(ps, id) THEN CascadeTotal(ps, id) > ps[id].capacity
             ELSE id \notin StructurallyInvalid(ps)
      PROVE  Blocked(qs, cues, limit)
  <2>1. CASE ~CascadeFits(ps, id)
    <3>1. ~CascadeFits(qs, id)
      BY <2>1, FitsShrink
    <3> QED
      BY <1>3, <3>1
  <2>2. CASE CascadeFits(ps, id) /\ CascadeFits(qs, id)
    <3>1. CascadeTotal(ps, id) > ps[id].capacity
      BY <1>4, <2>2
    <3>2. CascadeTotal(ps, id) \in Int /\ CascadeTotal(qs, id) \in Int /\ CascadeTotal(ps, id) <= CascadeTotal(qs, id)
      BY FitsShrink
    <3>3. qs[id].capacity = ps[id].capacity /\ ps[id].capacity \in Nat
      BY DEF Heavier, IsLoadPoint
    <3>4. CascadeTotal(qs, id) > qs[id].capacity
      BY <3>1, <3>2, <3>3
    <3> QED
      BY <1>0, <2>2, <3>4 DEF Blocked
  <2> QED
    BY <1>3, <2>1, <2>2
<1>5. CASE ~VenueFits(ps) \/ LoadOf(ps, Rooted(ps)) > limit
  <2>1. ~VenueFits(ps) => ~VenueFits(qs)
    BY FitsShrink
  <2>2. Rooted(qs) = Rooted(ps) /\ Rooted(ps) \subseteq DOMAIN ps
    BY SameShape DEF Rooted, Subtree
  <2>3. /\ LoadOf(ps, Rooted(ps)) \in Int /\ LoadOf(qs, Rooted(qs)) \in Int
        /\ LoadOf(ps, Rooted(ps)) <= LoadOf(qs, Rooted(qs))
    BY <2>2, LoadsGrow
  <2>4. LoadOf(ps, Rooted(ps)) > limit => LoadOf(qs, Rooted(qs)) > limit
    BY <2>3
  <2> QED
    BY <1>5, <2>1, <2>4 DEF Blocked
<1>6. CASE MutexHits(cues) # {} \/ DOMAIN ps = {} \/ DOMAIN cues = {}
  BY <1>0, <1>6 DEF Blocked
<1> QED
  BY <1>1, <1>2, <1>4, <1>5, <1>6 DEF Blocked

-----------------------------------------------------------------------------
(* The way up.                                                             *)

\* The next id on the way up from x.
NextUp(ps, x) == IF x \in DOMAIN ps THEN ps[x].parent ELSE NoParent

\* The first n steps of a way up.
Steps(ps, id, n, way) == way[0] = id /\ \A i \in 1..n : way[i] = NextUp(ps, way[i - 1])

\* There is a way of any length.
LEMMA StepsExist ==
  ASSUME NEW ps, NEW id, NEW n \in Nat
  PROVE  \E way : Steps(ps, id, n, way)
<1> DEFINE Has(k) == \E way : Steps(ps, id, k, way)
           T == {k \in Nat : ~Has(k)}
<1>1. Has(0)
  <2> DEFINE way == [i \in {0} |-> id]
  <2>1. Steps(ps, id, 0, way)
    BY DEF Steps
  <2> QED
    BY <2>1
<1>2. ASSUME NEW k \in Nat, Has(k)
      PROVE  Has(k + 1)
  <2>1. PICK way : Steps(ps, id, k, way)
    BY <1>2
  <2> DEFINE longer == [i \in 0..(k + 1) |-> IF i <= k THEN way[i] ELSE NextUp(ps, way[k])]
  <2>2. longer[0] = id /\ longer[k + 1] = NextUp(ps, way[k]) /\ longer[k] = way[k]
    BY <2>1 DEF Steps
  <2>3. ASSUME NEW i \in 1..k PROVE longer[i] = NextUp(ps, longer[i - 1])
    <3>1. longer[i] = way[i] /\ longer[i - 1] = way[i - 1]
      OBVIOUS
    <3> HIDE DEF longer
    <3> QED
      BY <2>1, <3>1 DEF Steps
  <2> HIDE DEF longer
  <2>4. \A i \in 1..(k + 1) : i \in 1..k \/ i = k + 1
    OBVIOUS
  <2>5. Steps(ps, id, k + 1, longer)
    <3> SUFFICES ASSUME NEW i \in 1..(k + 1) PROVE longer[i] = NextUp(ps, longer[i - 1])
      BY <2>2 DEF Steps
    <3>1. CASE i \in 1..k
      BY <2>3, <3>1
    <3>2. CASE i = k + 1
      <4>1. i - 1 = k
        BY <3>2
      <4> QED
        BY <2>2, <3>2, <4>1
    <3> QED
      BY <2>4, <3>1, <3>2
  <2> QED
    BY <2>5
<1> HIDE DEF Has
<1>3. ASSUME T # {} PROVE FALSE
  <2>1. T \subseteq Nat
    OBVIOUS
  <2>2. PICK k \in T : \A m \in T : k <= m
    <3> HIDE DEF T
    <3> QED
      BY <1>3, <2>1, LeastNumber
  <2>3. k \in Nat /\ ~Has(k) /\ k # 0
    BY <1>1, <2>2
  <2>4. k - 1 \in Nat /\ k - 1 \notin T
    <3> HIDE DEF T
    <3> QED
      BY <2>2, <2>3
  <2>5. Has((k - 1) + 1)
    BY <1>2, <2>4
  <2> QED
    BY <2>3, <2>5
<1>4. Has(n)
  BY <1>3
<1> QED
  BY <1>4 DEF Has

\* Ways from the same id agree.
LEMMA StepsAgree ==
  ASSUME NEW ps, NEW id, NEW m \in Nat, NEW n \in Nat, NEW v, NEW w,
         Steps(ps, id, m, v), Steps(ps, id, n, w), NEW k \in Nat, k <= m, k <= n
  PROVE  v[k] = w[k]
<1> DEFINE T == {i \in 0..k : v[i] # w[i]}
<1>1. ASSUME T # {} PROVE FALSE
  <2>1. T \subseteq Nat
    OBVIOUS
  <2>2. PICK i \in T : \A j \in T : i <= j
    <3> HIDE DEF T
    <3> QED
      BY <1>1, <2>1, LeastNumber
  <2>3. i \in 0..k /\ v[i] # w[i] /\ i # 0
    BY <2>2 DEF Steps
  <2>4. i - 1 \in 0..k /\ i \in 1..m /\ i \in 1..n
    BY <2>3
  <2>5. v[i - 1] = w[i - 1]
    BY <2>2, <2>4
  <2> QED
    BY <2>3, <2>4, <2>5 DEF Steps
<1> QED
  BY <1>1

\* The way up from an id, step by step.
LEMMA WayUp ==
  ASSUME NEW ps, NEW id
  PROVE  /\ Way(ps, id)[0] = id
         /\ \A n \in Nat : Way(ps, id)[n + 1] = NextUp(ps, Way(ps, id)[n])
<1> DEFINE Rule(way, n) == IF n = 0 THEN id
                           ELSE IF way[n - 1] \in DOMAIN ps THEN ps[way[n - 1]].parent ELSE NoParent
           First(n) == CHOOSE way : Steps(ps, id, n, way)
           all == [n \in Nat |-> First(n)[n]]
           chosen == CHOOSE way : way = [n \in Nat |-> Rule(way, n)]
<1>1. \A n \in Nat : Steps(ps, id, n, First(n))
  BY StepsExist
<1> HIDE DEF First
<1>2. ASSUME NEW n \in Nat
      PROVE  all[n] = Rule(all, n)
  <2>1. CASE n = 0
    <3>1. all[0] = id
      BY <1>1 DEF Steps
    <3> HIDE DEF all
    <3> QED
      BY <2>1, <3>1
  <2>2. CASE n # 0
    <3>1. n - 1 \in Nat /\ n \in 1..n
      BY <2>2
    <3>2. all[n] = First(n)[n] /\ all[n - 1] = First(n - 1)[n - 1]
      BY <3>1
    <3>3. First(n - 1)[n - 1] = First(n)[n - 1]
      BY <1>1, <3>1, StepsAgree
    <3>4. First(n)[n] = NextUp(ps, First(n)[n - 1])
      BY <1>1, <3>1 DEF Steps
    <3> HIDE DEF all
    <3> QED
      BY <2>2, <3>2, <3>3, <3>4 DEF NextUp
  <2> QED
    BY <2>1, <2>2
<1>3. all = [n \in Nat |-> Rule(all, n)]
  <2>1. all = [n \in Nat |-> all[n]]
    OBVIOUS
  <2> HIDE DEF all, Rule
  <2> QED
    BY <1>2, <2>1
<1>4. chosen = [n \in Nat |-> Rule(chosen, n)]
  <2> HIDE DEF all, Rule
  <2> QED
    BY <1>3
<1>5. Way(ps, id) = chosen
  BY DEF Way
<1> HIDE DEF chosen
<1>6. ASSUME NEW n \in Nat
      PROVE  chosen[n] = Rule(chosen, n)
  <2> HIDE DEF Rule
  <2> QED
    BY <1>4
<1>7. chosen[0] = id
  BY <1>6
<1>8. ASSUME NEW n \in Nat
      PROVE  chosen[n + 1] = NextUp(ps, chosen[n])
  <2>1. n + 1 \in Nat /\ n + 1 # 0 /\ (n + 1) - 1 = n
    OBVIOUS
  <2> QED
    BY <1>6, <2>1 DEF NextUp
<1> QED
  BY <1>5, <1>7, <1>8

\* The way up goes on from each of its ids as from there.
LEMMA WayGoesOn ==
  ASSUME NEW ps, NEW id, NEW m \in Nat, NEW n \in Nat
  PROVE  Way(ps, id)[m + n] = Way(ps, Way(ps, id)[m])[n]
<1> DEFINE w == Way(ps, id)
           v == Way(ps, w[m])
           T == {i \in Nat : w[m + i] # v[i]}
<1>1. /\ v[0] = w[m]
      /\ \A i \in Nat : w[i + 1] = NextUp(ps, w[i]) /\ v[i + 1] = NextUp(ps, v[i])
  BY WayUp
<1> HIDE DEF w, v
<1>2. ASSUME T # {} PROVE FALSE
  <2>1. T \subseteq Nat
    OBVIOUS
  <2>2. PICK i \in T : \A j \in T : i <= j
    <3> HIDE DEF T
    <3> QED
      BY <1>2, <2>1, LeastNumber
  <2>3. i \in Nat /\ w[m + i] # v[i]
    BY <2>2
  <2>4. i # 0
    BY <1>1, <2>3
  <2>5. i - 1 \in Nat /\ i - 1 \notin T
    BY <2>2, <2>3, <2>4
  <2>6. w[m + (i - 1)] = v[i - 1]
    BY <2>5
  <2>7. m + (i - 1) \in Nat /\ (m + (i - 1)) + 1 = m + i /\ (i - 1) + 1 = i
    BY <2>5
  <2> QED
    BY <1>1, <2>3, <2>5, <2>6, <2>7
<1>3. w[m + n] = v[n]
  BY <1>2
<1> QED
  BY <1>3 DEF w, v

\* A forest as it may be: finitely many load points, none of them called nothing.
IsGraph(ps) == IsFiniteSet(DOMAIN ps) /\ NoParent \notin DOMAIN ps

\* Once it is over, the way up is over.
LEMMA WayEnds ==
  ASSUME NEW ps, IsGraph(ps), NEW id, NEW m \in Nat, NEW n \in Nat, m < n,
         Way(ps, id)[m] \notin DOMAIN ps
  PROVE  Way(ps, id)[n] = NoParent
<1> DEFINE w == Way(ps, id)
           T == {i \in Nat : m < i /\ w[i] # NoParent}
<1>1. \A i \in Nat : w[i + 1] = NextUp(ps, w[i])
  BY WayUp
<1> HIDE DEF w
<1>2. ASSUME T # {} PROVE FALSE
  <2>1. T \subseteq Nat
    OBVIOUS
  <2>2. PICK i \in T : \A j \in T : i <= j
    <3> HIDE DEF T
    <3> QED
      BY <1>2, <2>1, LeastNumber
  <2>3. i \in Nat /\ m < i /\ w[i] # NoParent
    BY <2>2
  <2>4. i - 1 \in Nat /\ i - 1 \notin T /\ (i - 1) + 1 = i
    BY <2>2, <2>3
  <2>5. w[i] = NextUp(ps, w[i - 1])
    BY <1>1, <2>4
  <2>6. w[i - 1] \notin DOMAIN ps
    <3>1. CASE i - 1 = m
      BY <3>1 DEF w
    <3>2. CASE i - 1 # m
      <4>1. m < i - 1
        BY <2>3, <2>4, <3>2
      <4>2. w[i - 1] = NoParent
        BY <2>4, <4>1
      <4> QED
        BY <4>2 DEF IsGraph
    <3> QED
      BY <3>1, <3>2
  <2> QED
    BY <2>3, <2>5, <2>6 DEF NextUp
<1>3. w[n] = NoParent
  BY <1>2
<1> QED
  BY <1>3 DEF w

\* A way that comes back to an id has shown all it has to show before.
LEMMA WayRepeats ==
  ASSUME NEW ps, NEW id, NEW a \in Nat, NEW b \in Nat, a < b,
         Way(ps, id)[a] = Way(ps, id)[b], NEW n \in Nat
  PROVE  \E k \in 0..(b - 1) : Way(ps, id)[n] = Way(ps, id)[k]
<1> DEFINE w == Way(ps, id)
           Early(i) == \E k \in 0..(b - 1) : w[i] = w[k]
           T == {i \in Nat : ~Early(i)}
<1>0. \A m, t \in Nat : w[m + t] = Way(ps, w[m])[t]
  BY WayGoesOn
<1>1. ASSUME NEW i \in Nat, b <= i
      PROVE  w[i] = w[a + (i - b)]
  <2>0. i - b \in Nat /\ b + (i - b) = i
    BY <1>1
  <2>1. PICK t \in Nat : t = i - b /\ b + t = i
    <3> HIDE DEF w
    <3> QED
      BY <2>0
  <2>2. w[a] = w[b]
    OBVIOUS
  <2> HIDE DEF w
  <2>3. w[b + t] = Way(ps, w[b])[t] /\ w[a + t] = Way(ps, w[a])[t]
    BY <1>0
  <2> QED
    BY <2>1, <2>2, <2>3
<1> HIDE DEF w
<1>2. ASSUME T # {} PROVE FALSE
  <2>1. T \subseteq Nat
    OBVIOUS
  <2>2. PICK i \in T : \A j \in T : i <= j
    <3> HIDE DEF T
    <3> QED
      BY <1>2, <2>1, LeastNumber
  <2>3. i \in Nat /\ ~Early(i)
    BY <2>2
  <2>4. b <= i
    BY <2>3
  <2>5. w[i] = w[a + (i - b)] /\ a + (i - b) \in Nat /\ a + (i - b) < i
    BY <1>1, <2>3, <2>4
  <2>6. a + (i - b) \notin T
    <3> HIDE DEF T
    <3> QED
      BY <2>2, <2>3, <2>5
  <2>7. Early(a + (i - b))
    BY <2>5, <2>6
  <2> QED
    BY <2>3, <2>5, <2>7
<1>3. Early(n)
  BY <1>2
<1> QED
  BY <1>3 DEF w

\* A way that has not ended when it has as many steps as there are load points
\* has come back.
LEMMA WayComesBack ==
  ASSUME NEW ps, IsGraph(ps), NEW id, NEW N, N = Cardinality(DOMAIN ps),
         \A n \in 0..N : Way(ps, id)[n] \in DOMAIN ps
  PROVE  \E b \in 1..N : \E a \in 0..(b - 1) : Way(ps, id)[a] = Way(ps, id)[b]
<1> DEFINE w == Way(ps, id)
           f == [n \in 0..N |-> w[n]]
<1>1. N \in Nat /\ IsFiniteSet(DOMAIN ps)
  BY FS_CardinalityType DEF IsGraph
<1>2. IsFiniteSet(0..N) /\ Cardinality(0..N) = N + 1
  BY <1>1, FS_Interval
<1>3. f \in [0..N -> DOMAIN ps]
  OBVIOUS
<1>4. Cardinality(DOMAIN ps) < Cardinality(0..N)
  BY <1>1, <1>2
<1> HIDE DEF f
<1>5. PICK x \in 0..N, y \in 0..N : x # y /\ f[x] = f[y]
  BY <1>1, <1>2, <1>3, <1>4, FS_PigeonHole
<1>6. w[x] = w[y]
  BY <1>5 DEF f
<1>7. (x < y /\ y \in 1..N /\ x \in 0..(y - 1)) \/ (y < x /\ x \in 1..N /\ y \in 0..(x - 1))
  BY <1>1, <1>5
<1> HIDE DEF w
<1>8. \E b \in 1..N : \E a \in 0..(b - 1) : w[a] = w[b]
  BY <1>6, <1>7
<1> QED
  BY <1>8 DEF w

\* Whatever is on the way up is met within as many steps as there are load points.
LEMMA MetSoon ==
  ASSUME NEW ps, IsGraph(ps), NEW id, NEW n \in Nat, Way(ps, id)[n] # NoParent
  PROVE  \E k \in 0..Cardinality(DOMAIN ps) : Way(ps, id)[k] = Way(ps, id)[n]
<1> DEFINE N == Cardinality(DOMAIN ps)
           w == Way(ps, id)
<1>1. N \in Nat
  BY FS_CardinalityType DEF IsGraph
<1>2. CASE \A k \in 0..N : w[k] \in DOMAIN ps
  <2>1. PICK b \in 1..N : \E a \in 0..(b - 1) : w[a] = w[b]
    BY <1>2, WayComesBack
  <2>2. PICK a \in 0..(b - 1) : w[a] = w[b]
    BY <2>1
  <2>3. a \in Nat /\ b \in Nat /\ a < b
    BY <1>1, <2>1, <2>2
  <2>4. PICK k \in 0..(b - 1) : w[n] = w[k]
    BY <2>2, <2>3, WayRepeats
  <2>5. k \in 0..N
    BY <1>1, <2>1, <2>4
  <2> HIDE DEF w
  <2>6. \E j \in 0..N : w[j] = w[n]
    BY <2>4, <2>5
  <2> QED
    BY <2>6 DEF w
<1>3. ASSUME NEW k \in 0..N, w[k] \notin DOMAIN ps
      PROVE  \E j \in 0..N : w[j] = w[n]
  <2>1. k \in Nat
    BY <1>1, <1>3
  <2>2. ~(k < n)
    BY <1>3, <2>1, WayEnds
  <2>3. n \in 0..N
    BY <1>1, <1>3, <2>1, <2>2
  <2> HIDE DEF w
  <2> QED
    BY <2>3
<1> QED
  BY <1>2, <1>3

\* What Climb collects is the way up as far as it goes.
LEMMA ClimbFollowsTheWay ==
  ASSUME NEW ps, IsGraph(ps), NEW id, id # NoParent
  PROVE  Climb(ps, id) = {Way(ps, id)[k] : k \in 0..Cardinality(DOMAIN ps)} \ {NoParent}
<1> DEFINE N == Cardinality(DOMAIN ps)
           w == Way(ps, id)
           More(known) == known \cup {ps[x].parent : x \in {y \in known \cap DOMAIN ps : ps[y].parent # NoParent}}
           Rule(up, n) == IF n = 0 THEN {id} ELSE More(up[n - 1])
           chosen == CHOOSE up : up = [n \in 0..N |-> Rule(up, n)]
           Met(n) == {w[k] : k \in 0..n} \ {NoParent}
           met == [n \in 0..N |-> Met(n)]
<1>1. N \in Nat
  BY FS_CardinalityType DEF IsGraph
<1>2. w[0] = id /\ \A n \in Nat : w[n + 1] = NextUp(ps, w[n])
  BY WayUp
<1>3. Climb(ps, id) = chosen[N]
  BY DEF Climb
<1> HIDE DEF w, N
<1>4. Met(0) = {id}
  BY <1>2
<1>5. ASSUME NEW n \in Nat
      PROVE  Met(n + 1) = More(Met(n))
  <2>1. ASSUME NEW y, y \in Met(n + 1) PROVE y \in More(Met(n))
    <3>1. PICK k \in 0..(n + 1) : y = w[k] /\ y # NoParent
      BY <2>1
    <3>2. CASE k \in 0..n
      BY <3>1, <3>2
    <3>3. CASE k = n + 1
      <4>1. y = NextUp(ps, w[n])
        BY <1>2, <3>1, <3>3
      <4>2. w[n] \in DOMAIN ps /\ y = ps[w[n]].parent
        BY <3>1, <4>1 DEF NextUp
      <4>3. w[n] \in Met(n)
        BY <4>2 DEF IsGraph
      <4> HIDE DEF Met
      <4> QED
        BY <3>1, <4>2, <4>3
    <3>4. k \in 0..n \/ k = n + 1
      BY <3>1
    <3> QED
      BY <3>2, <3>3, <3>4
  <2>2. ASSUME NEW y, y \in More(Met(n)) PROVE y \in Met(n + 1)
    <3>1. CASE y \in Met(n)
      BY <3>1
    <3>2. ASSUME NEW x \in Met(n), x \in DOMAIN ps, ps[x].parent # NoParent, y = ps[x].parent
          PROVE  y \in Met(n + 1)
      <4>1. PICK k \in 0..n : x = w[k]
        BY <3>2
      <4>2. w[k + 1] = y /\ k + 1 \in 0..(n + 1)
        BY <1>2, <3>2, <4>1 DEF NextUp
      <4> QED
        BY <3>2, <4>2
    <3> HIDE DEF Met
    <3> QED
      BY <2>2, <3>1, <3>2
  <2> HIDE DEF Met, More
  <2> QED
    BY <2>1, <2>2
<1> HIDE DEF Met, More
<1>6. ASSUME NEW n \in 0..N
      PROVE  met[n] = Rule(met, n)
  <2>1. CASE n = 0
    BY <1>1, <1>4, <2>1
  <2>2. CASE n # 0
    <3>1. n - 1 \in Nat /\ n - 1 \in 0..N /\ (n - 1) + 1 = n
      BY <1>1, <2>2
    <3>2. Met(n) = More(Met(n - 1))
      BY <1>5, <3>1
    <3>3. met[n] = Met(n) /\ met[n - 1] = Met(n - 1)
      BY <3>1
    <3> HIDE DEF met
    <3> QED
      BY <2>2, <3>2, <3>3
  <2> QED
    BY <2>1, <2>2
<1>7. met = [n \in 0..N |-> Rule(met, n)]
  <2>1. met = [n \in 0..N |-> met[n]]
    OBVIOUS
  <2> HIDE DEF met, Rule
  <2> QED
    BY <1>6, <2>1
<1>8. chosen = [n \in 0..N |-> Rule(chosen, n)]
  <2> HIDE DEF met, Rule
  <2> QED
    BY <1>7
<1>9. \A n \in 0..N : chosen[n] = Rule(chosen, n)
  <2> HIDE DEF chosen, Rule
  <2> QED
    BY <1>8
<1> HIDE DEF chosen, met
<1> DEFINE T == {n \in 0..N : chosen[n] # Met(n)}
<1>10. ASSUME T # {} PROVE FALSE
  <2>1. T \subseteq Nat
    BY <1>1
  <2>2. PICK n \in T : \A m \in T : n <= m
    <3> HIDE DEF T
    <3> QED
      BY <1>10, <2>1, LeastNumber
  <2>3. n \in 0..N /\ chosen[n] # Met(n)
    BY <2>2
  <2>4. n # 0
    BY <1>4, <1>9, <2>3
  <2>5. n - 1 \in Nat /\ n - 1 \in 0..N /\ (n - 1) + 1 = n /\ ~(n <= n - 1)
    BY <1>1, <2>3, <2>4
  <2>6. chosen[n - 1] = Met(n - 1)
    BY <2>2, <2>5
  <2>7. chosen[n] = More(Met(n - 1))
    BY <1>9, <2>3, <2>4, <2>6
  <2>8. Met(n) = More(Met(n - 1))
    BY <1>5, <2>5
  <2> QED
    BY <2>3, <2>7, <2>8
<1>11. chosen[N] = Met(N)
  BY <1>1, <1>10
<1> QED
  BY <1>3, <1>11 DEF Met, N, w

\* So the ids of Climb are those of the whole way up.
LEMMA ClimbIsTheWay ==
  ASSUME NEW ps, IsGraph(ps), NEW id, id # NoParent, NEW y
  PROVE  y \in Climb(ps, id) <=> y # NoParent /\ \E n \in Nat : Way(ps, id)[n] = y
<1> DEFINE N == Cardinality(DOMAIN ps)
<1>1. N \in Nat
  BY FS_CardinalityType DEF IsGraph
<1>2. y \in Climb(ps, id) <=> y # NoParent /\ \E k \in 0..N : Way(ps, id)[k] = y
  BY ClimbFollowsTheWay
<1>3. ASSUME NEW n \in Nat, y # NoParent, Way(ps, id)[n] = y
      PROVE  \E k \in 0..N : Way(ps, id)[k] = y
  BY <1>3, MetSoon
<1> QED
  BY <1>1, <1>2, <1>3

\* A load point lies on a cycle exactly when its way up leads back to it.
LEMMA OnACycle ==
  ASSUME NEW ps, IsGraph(ps), NEW id \in DOMAIN ps
  PROVE  id \in ConnectionCycleIDs(ps) <=> \E n \in Nat \ {0} : Way(ps, id)[n] = id
<1> DEFINE parent == ps[id].parent
<1>1. id # NoParent /\ Way(ps, id)[0] = id
  BY WayUp DEF IsGraph
<1>2. Way(ps, id)[1] = parent
  <2>1. Way(ps, id)[0 + 1] = NextUp(ps, Way(ps, id)[0])
    BY WayUp
  <2> QED
    BY <1>1, <2>1 DEF NextUp
<1>3. id \in ConnectionCycleIDs(ps) <=> parent # NoParent /\ id \in Climb(ps, parent)
  BY DEF ConnectionCycleIDs
<1>4. ASSUME NEW n \in Nat
      PROVE  Way(ps, id)[n + 1] = Way(ps, parent)[n]
  <2>1. Way(ps, id)[1 + n] = Way(ps, Way(ps, id)[1])[n]
    BY WayGoesOn
  <2>2. 1 + n = n + 1
    OBVIOUS
  <2> QED
    BY <1>2, <2>1, <2>2
<1> HIDE DEF parent
<1>5. ASSUME id \in ConnectionCycleIDs(ps)
      PROVE  \E n \in Nat \ {0} : Way(ps, id)[n] = id
  <2>1. PICK n \in Nat : Way(ps, parent)[n] = id
    BY <1>3, <1>5, ClimbIsTheWay
  <2>2. Way(ps, id)[n + 1] = id /\ n + 1 \in Nat \ {0}
    BY <1>4, <2>1
  <2> QED
    BY <2>2
<1>6. ASSUME NEW n \in Nat \ {0}, Way(ps, id)[n] = id
      PROVE  id \in ConnectionCycleIDs(ps)
  <2>1. n - 1 \in Nat /\ (n - 1) + 1 = n
    OBVIOUS
  <2>2. Way(ps, parent)[n - 1] = id
    BY <1>4, <1>6, <2>1
  <2>3. parent # NoParent
    <3>1. CASE n = 1
      BY <1>1, <1>2, <1>6, <3>1
    <3>2. CASE n > 1
      <4>1. ASSUME parent = NoParent PROVE Way(ps, id)[n] = NoParent
        <5>1. Way(ps, id)[1] \notin DOMAIN ps
          BY <1>2, <4>1 DEF IsGraph
        <5> QED
          BY <3>2, <5>1, WayEnds
      <4> QED
        BY <1>1, <1>6, <4>1
    <3> QED
      BY <2>1, <3>1, <3>2
  <2> QED
    BY <1>1, <1>3, <2>1, <2>2, <2>3, ClimbIsTheWay
<1> QED
  BY <1>5, <1>6

\* Where a walk stops: at the first id that it has met before.
Stops(ps, id, n) ==
  /\ n \in 1..Cardinality(DOMAIN ps)
  /\ Way(ps, id)[n] # NoParent
  /\ \E i \in 0..(n - 1) : Way(ps, id)[i] = Way(ps, id)[n]

\* What a walk finds: the ids from the one it has come back to.
LEMMA WalkFinds ==
  ASSUME NEW ps, IsGraph(ps), NEW id, NEW x
  PROVE  x \in WalkToParent(ps, id) <=>
           \E n \in Nat : /\ Stops(ps, id, n) /\ \A m \in Nat : Stops(ps, id, m) => n <= m
                          /\ \E j, k \in 0..(n - 1) : /\ j <= k /\ x = Way(ps, id)[k]
                                                      /\ Way(ps, id)[j] = Way(ps, id)[n]
<1> DEFINE w == Way(ps, id)
           again == {n \in 1..Cardinality(DOMAIN ps) : w[n] # NoParent /\ \E i \in 0..(n - 1) : w[i] = w[n]}
           path == [k \in 1..Min(again) |-> w[k - 1]]
           First(n) == n \in again /\ \A m \in again : n <= m
           Found(n) == \E j, k \in 0..(n - 1) : j <= k /\ x = w[k] /\ w[j] = w[n]
<1>1. Cardinality(DOMAIN ps) \in Nat
  BY FS_CardinalityType DEF IsGraph
<1>2. again \subseteq Nat
  BY <1>1
<1>3. WalkToParent(ps, id) = IF again = {} THEN {} ELSE CycleOfPath(path, w[Min(again)])
  BY DEF WalkToParent
<1>4. \A n : n \in again <=> n \in Nat /\ Stops(ps, id, n)
  BY <1>1 DEF Stops
<1> HIDE DEF w, again
<1>5. again # {} => First(Min(again))
  <2> SUFFICES ASSUME again # {} PROVE First(Min(again))
    OBVIOUS
  <2>1. \E n \in again : \A m \in again : n <= m
    BY <1>2, LeastNumber
  <2> QED
    BY <2>1 DEF Min
<1>6. ASSUME NEW n, First(n), NEW m, First(m)
      PROVE  n = m
  <2>1. n \in Nat /\ m \in Nat /\ n <= m /\ m <= n
    BY <1>2, <1>6
  <2> QED
    BY <2>1
<1>7. ASSUME again # {}
      PROVE  x \in CycleOfPath(path, w[Min(again)]) <=> Found(Min(again))
  <2> DEFINE n == Min(again)
  <2>1. n \in Nat
    BY <1>2, <1>5, <1>7
  <2> HIDE DEF n
  <2> DEFINE way == [k \in 1..n |-> w[k - 1]]
  <2>2. x \in CycleOfPath(way, w[n]) <=> \E i \in 1..n : x = way[i] /\ \E j \in 1..i : way[j] = w[n]
    BY DEF CycleOfPath
  <2>3. ASSUME NEW i \in 1..n, x = way[i], NEW j \in 1..i, way[j] = w[n]
        PROVE  Found(n)
    <3>1. i - 1 \in 0..(n - 1) /\ j - 1 \in 0..(n - 1) /\ j - 1 <= i - 1 /\ j \in 1..n
      BY <2>1
    <3>2. x = w[i - 1] /\ w[j - 1] = w[n]
      BY <2>3, <3>1
    <3> QED
      BY <3>1, <3>2
  <2>4. ASSUME NEW k \in 0..(n - 1), NEW j \in 0..(n - 1), j <= k, x = w[k], w[j] = w[n]
        PROVE  \E i \in 1..n : x = way[i] /\ \E l \in 1..i : way[l] = w[n]
    <3>1. k + 1 \in 1..n /\ j + 1 \in 1..(k + 1) /\ j + 1 \in 1..n /\ (k + 1) - 1 = k /\ (j + 1) - 1 = j
      BY <2>1, <2>4
    <3>2. way[k + 1] = w[k] /\ way[j + 1] = w[j]
      BY <3>1
    <3> HIDE DEF way
    <3> QED
      BY <2>4, <3>1, <3>2
  <2>5. x \in CycleOfPath(way, w[n]) <=> Found(n)
    <3> HIDE DEF way
    <3> QED
      BY <2>2, <2>3, <2>4
  <2> QED
    BY <2>5 DEF n
<1>8. x \in WalkToParent(ps, id) <=> \E n : First(n) /\ Found(n)
  <2>1. CASE again = {}
    BY <1>3, <2>1
  <2>2. CASE again # {}
    <3> HIDE DEF First, Found, path
    <3> QED
      BY <1>3, <1>5, <1>6, <1>7, <2>2
  <2> QED
    BY <2>1, <2>2
<1>9. \A n : First(n) <=> n \in Nat /\ Stops(ps, id, n) /\ \A m \in Nat : Stops(ps, id, m) => n <= m
  BY <1>4
<1> HIDE DEF First
<1> QED
  BY <1>8, <1>9 DEF w

\* All of them lie on a cycle.
LEMMA WalkedLieOnCycles ==
  ASSUME NEW ps, IsGraph(ps), NEW id, NEW x \in WalkToParent(ps, id)
  PROVE  x \in ConnectionCycleIDs(ps)
<1> DEFINE w == Way(ps, id)
<1>1. PICK n \in Nat : Stops(ps, id, n) /\ \E j, k \in 0..(n - 1) : j <= k /\ x = w[k] /\ w[j] = w[n]
  BY WalkFinds
<1>2. PICK j \in 0..(n - 1), k \in 0..(n - 1) : j <= k /\ x = w[k] /\ w[j] = w[n]
  BY <1>1
<1>3. \A a, b \in Nat : w[a + b] = Way(ps, w[a])[b]
  BY WayGoesOn
<1>4. w[n] # NoParent
  BY <1>1 DEF Stops
<1>5. j \in Nat /\ k \in Nat /\ k < n /\ n - k \in Nat \ {0} /\ k - j \in Nat
  BY <1>2
<1>6. x \in DOMAIN ps
  <2> HIDE DEF w
  <2>1. w[k] \notin DOMAIN ps => w[n] = NoParent
    BY <1>5, WayEnds DEF w
  <2> QED
    BY <1>2, <1>4, <2>1
<1> HIDE DEF w
<1>7. PICK s \in Nat \ {0} : s = n - k
  BY <1>5
<1>8. PICK t \in Nat : t = k - j
  BY <1>5
<1>9. w[k + s] = w[n] /\ w[j + t] = w[k]
  BY <1>5, <1>7, <1>8
<1>10. Way(ps, x)[s] = w[j]
  BY <1>2, <1>3, <1>5, <1>7, <1>9
<1>11. Way(ps, w[j])[t] = x
  BY <1>2, <1>3, <1>5, <1>8, <1>9
<1>12. Way(ps, x)[s + t] = x
  <2>1. Way(ps, x)[s + t] = Way(ps, Way(ps, x)[s])[t]
    BY <1>7, <1>8, WayGoesOn
  <2> QED
    BY <1>10, <1>11, <2>1
<1>13. s + t \in Nat \ {0}
  BY <1>7, <1>8
<1> QED
  BY <1>6, <1>12, <1>13, OnACycle

\* A load point on a cycle is the first that its own walk meets again.
LEMMA CyclesAreWalked ==
  ASSUME NEW ps, IsGraph(ps), NEW id \in DOMAIN ps, id \in ConnectionCycleIDs(ps)
  PROVE  id \in WalkToParent(ps, id)
<1> DEFINE w == Way(ps, id)
           N == Cardinality(DOMAIN ps)
           T == {n \in Nat \ {0} : w[n] = id}
<1>1. N \in Nat /\ id # NoParent /\ w[0] = id
  BY FS_CardinalityType, WayUp DEF IsGraph
<1>2. T # {} /\ T \subseteq Nat
  BY OnACycle
<1>3. PICK n \in T : \A m \in T : n <= m
  <2> HIDE DEF T
  <2> QED
    BY <1>2, LeastNumber
<1>4. n \in Nat \ {0} /\ w[n] = id
  BY <1>3
<1>5. ASSUME NEW a \in Nat, NEW b \in Nat, a < b, b < n, w[a] = w[b]
      PROVE  FALSE
  <2>1. PICK s \in Nat : s = n - b
    <3> HIDE DEF w, T
    <3> QED
      BY <1>4, <1>5
  <2>2. w[b + s] = Way(ps, w[b])[s] /\ w[a + s] = Way(ps, w[a])[s]
    BY <2>1, WayGoesOn
  <2>3. w[b + s] = w[n]
    BY <1>4, <1>5, <2>1
  <2> HIDE DEF w
  <2>4. w[a + s] = id
    BY <1>4, <1>5, <2>2, <2>3
  <2>5. a + s \in Nat \ {0} /\ a + s < n
    BY <1>4, <1>5, <2>1
  <2>6. a + s \in T
    BY <2>4, <2>5
  <2> HIDE DEF T
  <2> QED
    BY <1>3, <1>4, <2>5, <2>6
<1>6. n <= N
  <2>1. PICK k \in 0..N : w[k] = w[n]
    BY <1>1, <1>4, MetSoon
  <2>2. CASE \A i \in 0..N : w[i] \in DOMAIN ps
    <3>1. PICK b \in 1..N : \E a \in 0..(b - 1) : w[a] = w[b]
      BY <2>2, WayComesBack
    <3>2. PICK a \in 0..(b - 1) : w[a] = w[b]
      BY <3>1
    <3>3. a \in Nat /\ b \in Nat /\ a < b /\ b <= N
      BY <1>1, <3>1, <3>2
    <3>4. ~(b < n)
      BY <1>5, <3>2, <3>3
    <3> HIDE DEF w, T, N
    <3> QED
      BY <1>1, <1>4, <3>3, <3>4
  <2>3. ASSUME NEW i \in 0..N, w[i] \notin DOMAIN ps
        PROVE  n <= N
    <3>1. i \in Nat
      BY <1>1
    <3>2. ~(i < n)
      BY <1>1, <1>4, <2>3, <3>1, WayEnds
    <3> HIDE DEF w, T, N
    <3> QED
      BY <1>1, <1>4, <3>1, <3>2
  <2> QED
    BY <2>2, <2>3
<1>7. Stops(ps, id, n)
  <2>1. n \in 1..N /\ 0 \in 0..(n - 1)
    BY <1>1, <1>4, <1>6
  <2>2. w[n] # NoParent /\ w[0] = w[n]
    BY <1>1, <1>4
  <2> QED
    BY <2>1, <2>2 DEF Stops
<1>8. ASSUME NEW m \in Nat, Stops(ps, id, m)
      PROVE  n <= m
  <2>1. m \in 1..N
    BY <1>8 DEF Stops
  <2>2. PICK i \in 0..(m - 1) : w[i] = w[m]
    BY <1>8 DEF Stops
  <2>3. i \in Nat /\ i < m
    BY <1>8, <2>2
  <2>4. ~(m < n)
    BY <1>5, <1>8, <2>2, <2>3
  <2> HIDE DEF w, T
  <2> QED
    BY <1>4, <1>8, <2>4
<1>9. \E j, k \in 0..(n - 1) : j <= k /\ id = w[k] /\ w[j] = w[n]
  <2>1. 0 \in 0..(n - 1) /\ 0 <= 0
    BY <1>4
  <2> HIDE DEF w
  <2> QED
    BY <1>1, <1>4, <2>1
<1> QED
  BY <1>4, <1>7, <1>8, <1>9, WalkFinds

\* So the walks together find what is on a cycle.
LEMMA WalksFindTheCycles ==
  ASSUME NEW ps, IsGraph(ps)
  PROVE  WalkedCycles(ps) = ConnectionCycleIDs(ps)
<1>1. ConnectionCycleIDs(ps) \subseteq DOMAIN ps
  BY DEF ConnectionCycleIDs
<1>2. ASSUME NEW x \in WalkedCycles(ps) PROVE x \in ConnectionCycleIDs(ps)
  BY WalkedLieOnCycles DEF WalkedCycles
<1>3. ASSUME NEW x \in ConnectionCycleIDs(ps) PROVE x \in WalkedCycles(ps)
  BY <1>1, CyclesAreWalked DEF WalkedCycles
<1> QED
  BY <1>2, <1>3

-----------------------------------------------------------------------------
(* The loop that adds up results.                                         *)

\* Loads: what is between the width of the integers and the sums.
IsLoaded(ps) == IsGraph(ps) /\ \A id \in DOMAIN ps : IsLoadPoint(ps[id])

\* An own load is a number, and one that can be computed is within the width.
LEMMA OwnLoads ==
  ASSUME NEW ps, IsLoaded(ps), NEW id \in DOMAIN ps
  PROVE  Own(ps[id]) \in Nat /\ (OwnFits(ps[id]) => Own(ps[id]) <= MaxInt)
<1> DEFINE s == ps[id].static
           f == ps[id].factor
           a == s * f + Permille - 1
<1>1. s \in Nat /\ f \in Nat /\ Permille \in Nat \ {0}
  BY RuleNumbersAssumption DEF IsLoaded, IsLoadPoint
<1>2. OwnFits(ps[id]) => Own(ps[id]) <= MaxInt
  BY <1>1, DynamicLoadIsRoundedUp DEF OwnFits, Own
<1>3. a \in Nat
  <2> HIDE DEF s, f
  <2>1. s * f \in Nat
    BY <1>1
  <2> QED
    BY <1>1, <2>1
<1>4. Own(ps[id]) = a \div Permille
  BY DEF Own, DynamicLoad
<1> HIDE DEF a
<1>5. a \div Permille \in Nat
  BY <1>1, <1>3
<1> QED
  BY <1>2, <1>4, <1>5

\* The load of a set of points is a number, and that of two sets that share nothing
\* is the sum of both.
LEMMA LoadsAdd ==
  ASSUME NEW ps, IsLoaded(ps), NEW A \in SUBSET DOMAIN ps, NEW B \in SUBSET DOMAIN ps,
         A \cap B = {}
  PROVE  /\ LoadOf(ps, A) \in Nat /\ LoadOf(ps, B) \in Nat
         /\ LoadOf(ps, A \cup B) = LoadOf(ps, A) + LoadOf(ps, B)
<1> DEFINE own == [id \in A \cup B |-> Own(ps[id])]
<1>1. IsFiniteSet(A) /\ IsFiniteSet(B)
  BY FS_Subset DEF IsLoaded, IsGraph
<1>2. \A id \in A \cup B : own[id] \in Nat
  BY OwnLoads
<1>3. \A S \in {A, B} : SumFunctionOnSet([id \in S |-> Own(ps[id])], S) = SumFunctionOnSet(own, S)
  <2> SUFFICES ASSUME NEW S \in {A, B}
               PROVE  SumFunctionOnSet([id \in S |-> Own(ps[id])], S) = SumFunctionOnSet(own, S)
    OBVIOUS
  <2> DEFINE f == [id \in S |-> Own(ps[id])]
  <2>1. \A id \in S : f[id] = own[id] /\ own[id] \in Int
    BY <1>2
  <2>2. IsFiniteSet(S)
    BY <1>1
  <2> HIDE DEF f, own
  <2>3. \A id \in S : f[id] \in Int /\ f[id] <= own[id] /\ own[id] <= f[id]
    BY <2>1
  <2>4. /\ SumFunctionOnSet(f, S) \in Int /\ SumFunctionOnSet(own, S) \in Int
        /\ SumFunctionOnSet(f, S) <= SumFunctionOnSet(own, S)
    BY <2>1, <2>2, <2>3, SumsGrow
  <2>5. SumFunctionOnSet(own, S) <= SumFunctionOnSet(f, S)
    BY <2>1, <2>2, <2>3, SumsGrow
  <2>6. SumFunctionOnSet(f, S) = SumFunctionOnSet(own, S)
    BY <2>4, <2>5
  <2> QED
    BY <2>6 DEF f
<1>4. ASSUME NEW S \in {A, B}
      PROVE  SumFunctionOnSet(own, S) \in Nat
  <2>1. IsFiniteSet(S) /\ \A id \in S : own[id] \in Nat
    BY <1>1, <1>2
  <2> HIDE DEF own
  <2> QED
    BY <2>1, SumsAreNumbers
<1>5. SumFunctionOnSet(own, A \cup B) = SumFunctionOnSet(own, A) + SumFunctionOnSet(own, B)
  <2> HIDE DEF own
  <2>1. \A id \in A \cup B : own[id] \in Int
    BY <1>2
  <2> QED
    BY <1>1, <2>1, SumOfBoth
<1> QED
  BY <1>3, <1>4, <1>5 DEF LoadOf

\* A failure stays one.
LEMMA AddedToAFailure == \A more : Add(Failed, more) = Failed /\ Add(more, Failed) = Failed
  BY DEF Add, Failed

\* A sum goes on while it fits the width.
LEMMA Added ==
  ASSUME NEW a \in Nat, NEW b \in Nat, a <= b, NEW r, NEW q
  PROVE  Add([ok |-> TRUE, total |-> a, refs |-> r], [ok |-> TRUE, total |-> b - a, refs |-> q]) =
           IF b <= MaxInt THEN [ok |-> TRUE, total |-> b, refs |-> r \cup q] ELSE Failed
<1> DEFINE left == [ok |-> TRUE, total |-> a, refs |-> r]
           right == [ok |-> TRUE, total |-> b - a, refs |-> q]
<1>2. MaxInt \in Nat
  BY RuleNumbersAssumption
<1>3. b - a > MaxInt - a <=> ~(b <= MaxInt)
  BY <1>2
<1>4. a + (b - a) = b
  OBVIOUS
<1>5. /\ left.ok = TRUE /\ left.total = a /\ left.refs = r
      /\ right.ok = TRUE /\ right.total = b - a /\ right.refs = q
  OBVIOUS
<1> HIDE DEF left, right
<1>6. Add(left, right) = IF b - a > MaxInt - a THEN Failed
                         ELSE [ok |-> TRUE, total |-> a + (b - a), refs |-> r \cup q]
  BY <1>5 DEF Add
<1>7. Add(left, right) = IF b <= MaxInt THEN [ok |-> TRUE, total |-> b, refs |-> r \cup q] ELSE Failed
  <2>1. CASE b <= MaxInt
    BY <1>3, <1>4, <1>6, <2>1
  <2>2. CASE ~(b <= MaxInt)
    BY <1>3, <1>6, <2>2
  <2> QED
    BY <2>1, <2>2
<1> QED
  BY <1>7 DEF left, right

\* What the loop adds up: each result is the part that all and load grow by.
Parts(n, results, fits, part, all, load) ==
  /\ Len(results) = n
  /\ load[0] <= MaxInt
  /\ \A k \in 0..n : load[k] \in Nat
  /\ \A k \in 1..n :
       /\ all[k] = all[k - 1] \cup part[k]
       /\ load[k - 1] <= load[k]
       /\ results[k] = IF k \in fits
                       THEN [ok |-> TRUE, total |-> load[k] - load[k - 1], refs |-> part[k]]
                       ELSE Failed

\* It goes on until there is a result without number or the sum would pass the width.
LEMMA SumsOfALoop ==
  ASSUME NEW n \in Nat, NEW results, NEW fits, NEW part, NEW all, NEW load,
         Parts(n, results, fits, part, all, load)
  PROVE  SumOf([ok |-> TRUE, total |-> load[0], refs |-> all[0]], results) =
           IF (\A k \in 1..n : k \in fits) /\ load[n] <= MaxInt
           THEN [ok |-> TRUE, total |-> load[n], refs |-> all[n]]
           ELSE Failed
<1> DEFINE first == [ok |-> TRUE, total |-> load[0], refs |-> all[0]]
           Good(k) == (\A j \in 1..k : j \in fits) /\ load[k] <= MaxInt
           Sum(k) == IF Good(k) THEN [ok |-> TRUE, total |-> load[k], refs |-> all[k]] ELSE Failed
           Rule(sum, k) == IF k = 0 THEN first ELSE Add(sum[k - 1], results[k])
           sums == [k \in 0..n |-> Sum(k)]
           chosen == CHOOSE sum : sum = [k \in 0..n |-> Rule(sum, k)]
<1>1. SumOf(first, results) = chosen[n]
  BY DEF SumOf, Parts
<1>3. ASSUME NEW k \in 1..n
      PROVE  Sum(k) = Add(Sum(k - 1), results[k])
  <2> DEFINE a == load[k - 1]
             b == load[k]
             r == all[k - 1]
             q == part[k]
  <2>0. k \in 0..n /\ k - 1 \in 0..n /\ 1..k = 1..(k - 1) \cup {k}
    OBVIOUS
  <2>1. a \in Nat /\ b \in Nat /\ a <= b /\ all[k] = r \cup q
    BY <2>0 DEF Parts
  <2>2. Good(k) <=> (\A j \in 1..(k - 1) : j \in fits) /\ k \in fits /\ b <= MaxInt
    BY <2>0
  <2>3. results[k] = IF k \in fits THEN [ok |-> TRUE, total |-> b - a, refs |-> q] ELSE Failed
    BY DEF Parts
  <2>4. Sum(k) = IF Good(k) THEN [ok |-> TRUE, total |-> b, refs |-> r \cup q] ELSE Failed
    BY <2>1
  <2>5. Sum(k - 1) = IF Good(k - 1) THEN [ok |-> TRUE, total |-> a, refs |-> r] ELSE Failed
    OBVIOUS
  <2>6. Good(k - 1) <=> (\A j \in 1..(k - 1) : j \in fits) /\ a <= MaxInt
    OBVIOUS
  <2>7. MaxInt \in Nat
    BY RuleNumbersAssumption
  <2> HIDE DEF a, b, r, q, Sum, Good
  <2>8. CASE ~Good(k - 1)
    <3>1. ~Good(k)
      BY <2>1, <2>2, <2>6, <2>7, <2>8
    <3>2. Sum(k - 1) = Failed /\ Sum(k) = Failed
      BY <2>4, <2>5, <2>8, <3>1
    <3> QED
      BY <3>2, AddedToAFailure
  <2>9. CASE Good(k - 1) /\ k \notin fits
    <3>1. Sum(k - 1) = [ok |-> TRUE, total |-> a, refs |-> r]
      BY <2>5, <2>9
    <3>2. Sum(k) = Failed /\ results[k] = Failed
      BY <2>2, <2>3, <2>4, <2>9
    <3> QED
      BY <3>2, AddedToAFailure
  <2>10. CASE Good(k - 1) /\ k \in fits
    <3>1. Sum(k - 1) = [ok |-> TRUE, total |-> a, refs |-> r]
      BY <2>5, <2>10
    <3>2. results[k] = [ok |-> TRUE, total |-> b - a, refs |-> q]
      BY <2>3, <2>10
    <3>3. Good(k) <=> b <= MaxInt
      BY <2>2, <2>6, <2>10
    <3>4. Add(Sum(k - 1), results[k]) =
            IF b <= MaxInt THEN [ok |-> TRUE, total |-> b, refs |-> r \cup q] ELSE Failed
      BY <2>1, <3>1, <3>2, Added
    <3> QED
      BY <2>4, <3>3, <3>4
  <2> QED
    BY <2>8, <2>9, <2>10
<1>4. Sum(0) = first
  <2>1. load[0] <= MaxInt /\ \A j \in 1..0 : j \in fits
    BY DEF Parts
  <2> QED
    BY <2>1
<1>5. ASSUME NEW k \in 0..n
      PROVE  sums[k] = Rule(sums, k)
  <2>1. CASE k = 0
    <3>1. sums[0] = Sum(0)
      OBVIOUS
    <3> HIDE DEF sums, Sum, first
    <3> QED
      BY <1>4, <2>1, <3>1
  <2>2. CASE k # 0
    <3>1. k \in 1..n /\ k - 1 \in 0..n
      BY <2>2
    <3> HIDE DEF Sum
    <3>2. sums[k] = Sum(k) /\ sums[k - 1] = Sum(k - 1)
      BY <3>1
    <3> HIDE DEF sums
    <3> QED
      BY <1>3, <2>2, <3>1, <3>2
  <2> QED
    BY <2>1, <2>2
<1>6. sums = [k \in 0..n |-> Rule(sums, k)]
  <2>1. sums = [k \in 0..n |-> sums[k]]
    OBVIOUS
  <2> HIDE DEF sums, Rule
  <2> QED
    BY <1>5, <2>1
<1>7. chosen = [k \in 0..n |-> Rule(chosen, k)]
  <2> HIDE DEF sums, Rule
  <2> QED
    BY <1>6
<1> HIDE DEF chosen, sums, Sum, first
<1>8. \A k \in 0..n : chosen[k] = Rule(chosen, k)
  <2> HIDE DEF Rule
  <2> QED
    BY <1>7
<1> DEFINE T == {k \in 0..n : chosen[k] # Sum(k)}
<1>9. ASSUME T # {} PROVE FALSE
  <2>1. T \subseteq Nat
    OBVIOUS
  <2>2. PICK k \in T : \A m \in T : k <= m
    <3> HIDE DEF T
    <3> QED
      BY <1>9, <2>1, LeastNumber
  <2>3. k \in 0..n /\ chosen[k] # Sum(k)
    BY <2>2
  <2>4. k # 0
    BY <1>4, <1>8, <2>3
  <2>5. k \in 1..n /\ k - 1 \in 0..n /\ ~(k <= k - 1)
    BY <2>3, <2>4
  <2>6. chosen[k - 1] = Sum(k - 1)
    BY <2>2, <2>5
  <2>7. chosen[k] = Add(chosen[k - 1], results[k])
    BY <1>8, <2>3, <2>4
  <2> QED
    BY <1>3, <2>3, <2>5, <2>6, <2>7
<1>10. chosen[n] = Sum(n)
  BY <1>9
<1> QED
  BY <1>1, <1>10 DEF Sum, first

-----------------------------------------------------------------------------
(* Subtrees.                                                               *)

\* What hangs below a load point: all whose way up leads there.
LEMMA BelowIsUp ==
  ASSUME NEW ps, IsGraph(ps), NEW id, id # NoParent, NEW d
  PROVE  d \in Subtree(ps, id) <=> d \in DOMAIN ps /\ \E n \in Nat : Way(ps, d)[n] = id
<1>1. d \in Subtree(ps, id) <=> d \in DOMAIN ps /\ id \in Climb(ps, d)
  BY DEF Subtree
<1>2. ASSUME d \in DOMAIN ps
      PROVE  id \in Climb(ps, d) <=> \E n \in Nat : Way(ps, d)[n] = id
  <2>1. d # NoParent
    BY <1>2 DEF IsGraph
  <2> QED
    BY <2>1, ClimbIsTheWay
<1> QED
  BY <1>1, <1>2

\* The load points connected to one.
Below(ps, id) == {c \in DOMAIN ps : ps[c].parent = id}

\* A load point is above all that is below those connected to it.
LEMMA SubtreeIsOfChildren ==
  ASSUME NEW ps, IsGraph(ps), NEW id \in DOMAIN ps
  PROVE  Subtree(ps, id) = {id} \cup UNION {Subtree(ps, c) : c \in Below(ps, id)}
<1>1. id # NoParent /\ \A c \in Below(ps, id) : c \in DOMAIN ps /\ c # NoParent
  BY DEF IsGraph, Below
<1>2. ASSUME NEW d \in Subtree(ps, id), d # id
      PROVE  \E c \in Below(ps, id) : d \in Subtree(ps, c)
  <2>1. d \in DOMAIN ps
    BY DEF Subtree
  <2>2. PICK n \in Nat : Way(ps, d)[n] = id
    BY <1>1, BelowIsUp
  <2>3. Way(ps, d)[0] = d /\ \A m \in Nat : Way(ps, d)[m + 1] = NextUp(ps, Way(ps, d)[m])
    BY WayUp
  <2>4. n # 0
    BY <1>2, <2>2, <2>3
  <2>5. n - 1 \in Nat /\ (n - 1) + 1 = n
    BY <2>2, <2>4
  <2>6. NextUp(ps, Way(ps, d)[n - 1]) = id
    BY <2>2, <2>3, <2>5
  <2>7. Way(ps, d)[n - 1] \in Below(ps, id)
    BY <1>1, <2>6 DEF NextUp, Below
  <2> QED
    BY <1>1, <2>1, <2>5, <2>7, BelowIsUp
<1>3. ASSUME NEW c \in Below(ps, id), NEW d \in Subtree(ps, c)
      PROVE  d \in Subtree(ps, id)
  <2>1. d \in DOMAIN ps
    BY DEF Subtree
  <2>2. PICK n \in Nat : Way(ps, d)[n] = c
    BY <1>1, BelowIsUp
  <2>3. Way(ps, d)[n + 1] = NextUp(ps, c)
    BY <2>2, WayUp
  <2>4. NextUp(ps, c) = id
    BY DEF NextUp, Below
  <2>5. n + 1 \in Nat
    BY <2>2
  <2> QED
    BY <1>1, <2>1, <2>3, <2>4, <2>5, BelowIsUp
<1>4. id \in Subtree(ps, id)
  <2>1. Way(ps, id)[0] = id
    BY WayUp
  <2> QED
    BY <1>1, <2>1, BelowIsUp
<1> QED
  BY <1>2, <1>3, <1>4

\* Two roots, or two load points connected to the same one that is on no cycle, have
\* nothing below them in common.
LEMMA SubtreesStayApart ==
  ASSUME NEW ps, IsGraph(ps), NEW b \in DOMAIN ps, NEW c \in DOMAIN ps, b # c,
         \/ ps[b].parent = NoParent /\ ps[c].parent = NoParent
         \/ \E id \in DOMAIN ps : ps[b].parent = id /\ ps[c].parent = id /\ id \notin ConnectionCycleIDs(ps)
  PROVE  Subtree(ps, b) \cap Subtree(ps, c) = {}
<1> SUFFICES ASSUME NEW d \in DOMAIN ps, NEW m \in Nat, NEW n \in Nat,
                    Way(ps, d)[m] = b, Way(ps, d)[n] = c
             PROVE  FALSE
  <2>1. b # NoParent /\ c # NoParent
    BY DEF IsGraph
  <2> QED
    BY <2>1, BelowIsUp
<1>1. ASSUME NEW x \in DOMAIN ps, NEW y \in DOMAIN ps, x # y,
             \/ ps[x].parent = NoParent /\ ps[y].parent = NoParent
             \/ \E id \in DOMAIN ps : ps[x].parent = id /\ ps[y].parent = id /\ id \notin ConnectionCycleIDs(ps),
             NEW i \in Nat, NEW k \in Nat, i < k, Way(ps, d)[i] = x, Way(ps, d)[k] = y
      PROVE  FALSE
  <2>1. y # NoParent
    BY DEF IsGraph
  <2>2. Way(ps, d)[i + 1] = ps[x].parent
    <3>1. Way(ps, d)[i + 1] = NextUp(ps, x)
      BY <1>1, WayUp
    <3> QED
      BY <3>1 DEF NextUp
  <2>3. Way(ps, d)[k + 1] = ps[y].parent
    <3>1. Way(ps, d)[k + 1] = NextUp(ps, y)
      BY <1>1, WayUp
    <3> QED
      BY <3>1 DEF NextUp
  <2>4. CASE ps[x].parent = NoParent
    <3>1. Way(ps, d)[i + 1] \notin DOMAIN ps
      BY <2>2, <2>4 DEF IsGraph
    <3>2. i + 1 \in Nat /\ (k = i + 1 \/ i + 1 < k)
      BY <1>1
    <3>3. i + 1 < k => Way(ps, d)[k] = NoParent
      BY <3>1, <3>2, WayEnds
    <3> QED
      BY <1>1, <2>1, <3>1, <3>2, <3>3
  <2>5. ASSUME NEW id \in DOMAIN ps, ps[x].parent = id, ps[y].parent = id, id \notin ConnectionCycleIDs(ps)
        PROVE  FALSE
    <3>1. PICK t \in Nat \ {0} : t = k - i
      BY <1>1
    <3>2. PICK j \in Nat : j = i + 1 /\ j + t = k + 1
      BY <3>1
    <3>3. Way(ps, d)[j + t] = Way(ps, Way(ps, d)[j])[t]
      BY <3>1, WayGoesOn
    <3>4. Way(ps, d)[j + t] = id /\ Way(ps, d)[j] = id
      BY <2>2, <2>3, <2>5, <3>2
    <3>5. Way(ps, id)[t] = id
      BY <3>3, <3>4
    <3> QED
      BY <2>5, <3>1, <3>5, OnACycle
  <2> QED
    BY <1>1, <2>4, <2>5
<1>2. m < n \/ n < m
  BY WayUp
<1> QED
  BY <1>1, <1>2

\* A load point that is on no cycle is not below one that is connected to it.
LEMMA NotBelowItself ==
  ASSUME NEW ps, IsGraph(ps), NEW id \in DOMAIN ps, id \notin ConnectionCycleIDs(ps),
         NEW c \in Below(ps, id)
  PROVE  id \notin Subtree(ps, c)
<1> SUFFICES ASSUME id \in Subtree(ps, c) PROVE FALSE
  OBVIOUS
<1>1. c \in DOMAIN ps /\ c # NoParent /\ ps[c].parent = id
  BY DEF Below, IsGraph
<1>2. PICK n \in Nat : Way(ps, id)[n] = c
  BY <1>1, BelowIsUp
<1>3. Way(ps, id)[n + 1] = NextUp(ps, c) /\ n + 1 \in Nat \ {0}
  BY <1>2, WayUp
<1> QED
  BY <1>1, <1>3, OnACycle DEF NextUp

\* A subtree of a connected load point is smaller.
LEMMA SubtreesShrink ==
  ASSUME NEW ps, IsGraph(ps), NEW id \in DOMAIN ps, id \notin ConnectionCycleIDs(ps),
         NEW c \in Below(ps, id)
  PROVE  /\ Cardinality(Subtree(ps, c)) \in Nat /\ Cardinality(Subtree(ps, id)) \in Nat
         /\ Cardinality(Subtree(ps, c)) < Cardinality(Subtree(ps, id))
<1>1. Subtree(ps, c) \subseteq Subtree(ps, id) /\ id \in Subtree(ps, id)
  BY SubtreeIsOfChildren
<1>2. id \notin Subtree(ps, c)
  BY NotBelowItself
<1>3. Subtree(ps, id) \subseteq DOMAIN ps
  BY DEF Subtree
<1>4. IsFiniteSet(Subtree(ps, id))
  BY <1>3, FS_Subset DEF IsGraph
<1>5. /\ IsFiniteSet(Subtree(ps, c)) /\ Cardinality(Subtree(ps, c)) <= Cardinality(Subtree(ps, id))
      /\ Cardinality(Subtree(ps, id)) # Cardinality(Subtree(ps, c))
  BY <1>1, <1>2, <1>4, FS_Subset
<1> QED
  BY <1>4, <1>5, FS_CardinalityType

-----------------------------------------------------------------------------
(* What the loops over the connected load points and over the roots make.  *)

\* The result for a load point: the load of its whole subtree, or no number.
Result(ps, id) ==
  IF CascadeFits(ps, id)
  THEN [ok |-> TRUE, total |-> CascadeTotal(ps, id), refs |-> Subtree(ps, id)]
  ELSE Failed

\* The load points of a list, no two of which share what is below them; nor do
\* they share it with the load points of above.
Apart(ps, n, list, above) ==
  /\ above \subseteq DOMAIN ps
  /\ DOMAIN list = 1..n
  /\ \A k \in 1..n : Subtree(ps, list[k]) \cap above = {}
  /\ \A j, k \in 1..n : j # k => Subtree(ps, list[j]) \cap Subtree(ps, list[k]) = {}

\* Those of above and all below the first n of a list.
AllOf(ps, n, list, above) == above \cup UNION {Subtree(ps, list[k]) : k \in 1..n}

\* The loop gives the load of them all, or no number.
LEMMA LoopOverSubtrees ==
  ASSUME NEW ps, IsLoaded(ps), NEW n \in Nat, NEW list, NEW above,
         Apart(ps, n, list, above), LoadOf(ps, above) <= MaxInt
  PROVE  SumOf([ok |-> TRUE, total |-> LoadOf(ps, above), refs |-> above],
               [k \in DOMAIN list |-> Result(ps, list[k])]) =
           IF /\ \A k \in 1..n : CascadeFits(ps, list[k])
              /\ LoadOf(ps, AllOf(ps, n, list, above)) <= MaxInt
           THEN [ok |-> TRUE, total |-> LoadOf(ps, AllOf(ps, n, list, above)),
                 refs |-> AllOf(ps, n, list, above)]
           ELSE Failed
<1> DEFINE All(k) == AllOf(ps, k, list, above)
           part == [k \in 1..n |-> Subtree(ps, list[k])]
           all == [k \in 0..n |-> All(k)]
           load == [k \in 0..n |-> LoadOf(ps, All(k))]
           fits == {k \in 1..n : CascadeFits(ps, list[k])}
           results == [k \in DOMAIN list |-> Result(ps, list[k])]
<1>1. Len(results) = n
  <2>1. DOMAIN list = 1..n
    BY DEF Apart
  <2>2. results = [k \in 1..n |-> Result(ps, list[k])]
    BY <2>1
  <2> HIDE DEF results
  <2> QED
    BY <2>2
<1>2. All(0) = above
  BY DEF AllOf
<1>3. ASSUME NEW k \in 1..n
      PROVE  /\ All(k) = All(k - 1) \cup Subtree(ps, list[k])
             /\ All(k - 1) \cap Subtree(ps, list[k]) = {}
  <2>1. 1..k = 1..(k - 1) \cup {k} /\ 1..(k - 1) \subseteq 1..n /\ k \notin 1..(k - 1)
    OBVIOUS
  <2>2. All(k) = All(k - 1) \cup Subtree(ps, list[k])
    BY <2>1 DEF AllOf
  <2>3. All(k - 1) \cap Subtree(ps, list[k]) = {}
    BY <2>1 DEF AllOf, Apart
  <2> QED
    BY <2>2, <2>3
<1>4. \A k : All(k) \subseteq DOMAIN ps
  BY DEF AllOf, Apart, Subtree
<1>5. \A k : LoadOf(ps, All(k)) \in Nat
  <2> HIDE DEF All
  <2> SUFFICES ASSUME NEW k PROVE LoadOf(ps, All(k)) \in Nat
    OBVIOUS
  <2>1. All(k) \in SUBSET DOMAIN ps /\ {} \in SUBSET DOMAIN ps /\ All(k) \cap {} = {}
    BY <1>4
  <2> QED
    BY <2>1, LoadsAdd
<1>6. ASSUME NEW k \in 1..n
      PROVE  /\ LoadOf(ps, Subtree(ps, list[k])) \in Nat
             /\ LoadOf(ps, All(k)) = LoadOf(ps, All(k - 1)) + LoadOf(ps, Subtree(ps, list[k]))
  <2>1. Subtree(ps, list[k]) \in SUBSET DOMAIN ps /\ All(k - 1) \in SUBSET DOMAIN ps
    BY <1>4 DEF Subtree
  <2> HIDE DEF All
  <2>2. PICK A \in SUBSET DOMAIN ps, B \in SUBSET DOMAIN ps : A = All(k - 1) /\ B = Subtree(ps, list[k])
    BY <2>1
  <2>3. A \cap B = {} /\ All(k) = A \cup B
    BY <1>3, <2>2
  <2>4. LoadOf(ps, B) \in Nat /\ LoadOf(ps, A \cup B) = LoadOf(ps, A) + LoadOf(ps, B)
    BY <2>3, LoadsAdd
  <2> QED
    BY <2>2, <2>3, <2>4
<1> HIDE DEF All
<1>7. \A k \in 0..n : all[k] = All(k) /\ load[k] = LoadOf(ps, All(k))
  OBVIOUS
<1>8. \A k \in 1..n : part[k] = Subtree(ps, list[k]) /\ results[k] = Result(ps, list[k])
  BY DEF Apart
<1>9. \A k \in 1..n : k \in fits <=> CascadeFits(ps, list[k])
  OBVIOUS
<1> HIDE DEF part, all, load, fits, results
<1>10. ASSUME NEW k \in 1..n
       PROVE  /\ all[k] = all[k - 1] \cup part[k]
              /\ load[k - 1] <= load[k]
              /\ results[k] = IF k \in fits
                              THEN [ok |-> TRUE, total |-> load[k] - load[k - 1], refs |-> part[k]]
                              ELSE Failed
  <2>1. k \in 0..n /\ k - 1 \in 0..n
    OBVIOUS
  <2>2. all[k] = all[k - 1] \cup part[k]
    BY <1>3, <1>7, <1>8, <2>1
  <2> DEFINE a == load[k - 1]
             b == load[k]
             p == LoadOf(ps, Subtree(ps, list[k]))
  <2>3. a \in Nat /\ b \in Nat /\ p \in Nat /\ b = a + p
    BY <1>5, <1>6, <1>7, <2>1
  <2> HIDE DEF a, b, p
  <2>4. a <= b /\ p = b - a
    BY <2>3
  <2>5. CascadeTotal(ps, list[k]) = p
    BY DEF CascadeTotal, p
  <2>6. results[k] = IF k \in fits THEN [ok |-> TRUE, total |-> b - a, refs |-> part[k]] ELSE Failed
    BY <1>8, <1>9, <2>4, <2>5 DEF Result
  <2> QED
    BY <2>2, <2>4, <2>6 DEF a, b
<1>11. load[0] <= MaxInt /\ load[0] = LoadOf(ps, above) /\ all[0] = above
  BY <1>2, <1>7
<1>12. Parts(n, results, fits, part, all, load)
  BY <1>1, <1>5, <1>7, <1>10, <1>11 DEF Parts
<1>13. SumOf([ok |-> TRUE, total |-> load[0], refs |-> all[0]], results) =
         IF (\A k \in 1..n : k \in fits) /\ load[n] <= MaxInt
         THEN [ok |-> TRUE, total |-> load[n], refs |-> all[n]]
         ELSE Failed
  BY <1>12, SumsOfALoop
<1>14. load[n] = LoadOf(ps, All(n)) /\ all[n] = All(n)
  BY <1>7
<1>15. (\A k \in 1..n : k \in fits) <=> \A k \in 1..n : CascadeFits(ps, list[k])
  BY <1>9
<1> QED
  BY <1>11, <1>13, <1>14, <1>15 DEF All, results

\* A load that can be computed is made of such.
LEMMA FitsBelow ==
  ASSUME NEW ps, IsLoaded(ps), NEW id \in DOMAIN ps, id \notin StructurallyInvalid(ps)
  PROVE  CascadeFits(ps, id) <=> /\ \A c \in Below(ps, id) : CascadeFits(ps, c)
                                 /\ LoadOf(ps, Subtree(ps, id)) <= MaxInt
<1>1. /\ Subtree(ps, id) = {id} \cup UNION {Subtree(ps, c) : c \in Below(ps, id)}
      /\ Subtree(ps, id) \subseteq DOMAIN ps
  BY SubtreeIsOfChildren DEF Subtree, IsLoaded
<1>2. ASSUME CascadeFits(ps, id), NEW c \in Below(ps, id)
      PROVE  CascadeFits(ps, c)
  <2>1. Subtree(ps, c) \cap StructurallyInvalid(ps) = {}
    BY <1>1, <1>2 DEF CascadeFits
  <2>2. PICK A \in SUBSET DOMAIN ps, B \in SUBSET DOMAIN ps :
          A = Subtree(ps, c) /\ A \cap B = {} /\ A \cup B = Subtree(ps, id)
    <3>1. Subtree(ps, c) \in SUBSET DOMAIN ps /\ Subtree(ps, id) \ Subtree(ps, c) \in SUBSET DOMAIN ps
      BY <1>1
    <3>2. Subtree(ps, c) \cup (Subtree(ps, id) \ Subtree(ps, c)) = Subtree(ps, id)
      BY <1>1
    <3> QED
      BY <3>1, <3>2
  <2>3. LoadOf(ps, A) \in Nat /\ LoadOf(ps, B) \in Nat /\ LoadOf(ps, A \cup B) = LoadOf(ps, A) + LoadOf(ps, B)
    BY <2>2, LoadsAdd
  <2>4. LoadOf(ps, A \cup B) <= MaxInt
    BY <1>2, <2>2 DEF CascadeFits, CascadeTotal
  <2>5. LoadOf(ps, A) <= MaxInt
    BY <2>3, <2>4, RuleNumbersAssumption
  <2> QED
    BY <2>1, <2>2, <2>5 DEF CascadeFits, CascadeTotal
<1>3. ASSUME \A c \in Below(ps, id) : CascadeFits(ps, c), LoadOf(ps, Subtree(ps, id)) <= MaxInt
      PROVE  CascadeFits(ps, id)
  <2>1. Subtree(ps, id) \cap StructurallyInvalid(ps) = {}
    BY <1>1, <1>3 DEF CascadeFits
  <2> QED
    BY <1>3, <2>1 DEF CascadeFits, CascadeTotal
<1>4. CascadeFits(ps, id) => LoadOf(ps, Subtree(ps, id)) <= MaxInt
  BY DEF CascadeFits, CascadeTotal
<1> QED
  BY <1>2, <1>3, <1>4

\* The load of a single load point is its own.
LEMMA LoadOfOne ==
  ASSUME NEW ps, IsLoaded(ps), NEW id \in DOMAIN ps
  PROVE  LoadOf(ps, {id}) = Own(ps[id])
<1> DEFINE f == [i \in {id} |-> Own(ps[i])]
<1>1. IsFiniteSet({id}) /\ Pick({id}) = id /\ {id} \ {id} = {}
  BY FS_Singleton DEF Pick
<1>2. SumFunctionOnSet(f, {}) = 0
  BY FS_EmptySet, SumEquation
<1>3. SumFunctionOnSet(f, {id}) = f[id] + SumFunctionOnSet(f, {})
  <2> HIDE DEF f
  <2> QED
    BY <1>1, SumEquation
<1>4. f[id] = Own(ps[id]) /\ Own(ps[id]) \in Nat
  BY OwnLoads
<1> HIDE DEF f
<1>5. SumFunctionOnSet(f, {id}) = Own(ps[id])
  BY <1>2, <1>3, <1>4
<1> QED
  BY <1>5 DEF LoadOf, f

\* No load points weigh nothing.
LEMMA LoadOfNone == ASSUME NEW ps PROVE LoadOf(ps, {}) = 0
  BY FS_EmptySet, SumEquation DEF LoadOf

\* A list names each of its ids once.
LEMMA Listed ==
  ASSUME NEW ids \in SUBSET PointIds, IsFiniteSet(ids)
  PROVE  /\ Cardinality(ids) \in Nat
         /\ DOMAIN Sorted(ids) = 1..Cardinality(ids)
         /\ \A k \in 1..Cardinality(ids) : Sorted(ids)[k] \in ids
         /\ \A j, k \in 1..Cardinality(ids) : j # k => Sorted(ids)[j] # Sorted(ids)[k]
         /\ \A id \in ids : \E k \in 1..Cardinality(ids) : Sorted(ids)[k] = id
<1>1. Sorted(ids) \in Bijection(1..Cardinality(ids), ids)
  BY SortedAssumption
<1>2. Cardinality(ids) \in Nat
  BY FS_CardinalityType
<1> QED
  BY <1>1, <1>2 DEF Bijection, Injection, Surjection, IsInjective

\* A sound load point: its result is what the loop over those connected to it makes of
\* their results.
LEMMA ResultOfChildren ==
  ASSUME NEW ps, IsLoaded(ps), DOMAIN ps \subseteq PointIds,
         NEW id \in DOMAIN ps, id \notin StructurallyInvalid(ps)
  PROVE  Result(ps, id) = SumOf([ok |-> TRUE, total |-> Own(ps[id]), refs |-> {id}],
                                [k \in DOMAIN Children(ps, id) |-> Result(ps, Children(ps, id)[k])])
<1> DEFINE ids == Below(ps, id)
           n == Cardinality(ids)
           list == Sorted(ids)
<1>1. list = Children(ps, id)
  BY DEF Children, Below
<1>2. ids \in SUBSET PointIds /\ IsFiniteSet(ids) /\ ids \subseteq DOMAIN ps
  <2>1. ids \subseteq DOMAIN ps
    BY DEF Below
  <2> QED
    BY <2>1, FS_Subset DEF IsLoaded, IsGraph
<1>3. IsGraph(ps) /\ id \notin ConnectionCycleIDs(ps) /\ OwnFits(ps[id])
  BY DEF IsLoaded, StructurallyInvalid
<1>4. \A c \in ids : ps[c].parent = id
  BY DEF Below
<1>5. \A c \in ids : id \notin Subtree(ps, c)
  BY <1>3, NotBelowItself
<1>6. \A b, c \in ids : b # c => Subtree(ps, b) \cap Subtree(ps, c) = {}
  BY <1>2, <1>3, <1>4, SubtreesStayApart
<1>7. Subtree(ps, id) = {id} \cup UNION {Subtree(ps, c) : c \in ids}
  BY <1>3, SubtreeIsOfChildren
<1>8. (\A c \in ids : CascadeFits(ps, c)) /\ LoadOf(ps, Subtree(ps, id)) <= MaxInt <=> CascadeFits(ps, id)
  BY FitsBelow
<1> HIDE DEF ids
<1>9. /\ n \in Nat /\ DOMAIN list = 1..n
      /\ \A k \in 1..n : list[k] \in ids
      /\ \A j, k \in 1..n : j # k => list[j] # list[k]
      /\ \A c \in ids : \E k \in 1..n : list[k] = c
  BY <1>2, Listed
<1> HIDE DEF n, list
<1>10. Apart(ps, n, list, {id})
  BY <1>5, <1>6, <1>9 DEF Apart
<1>11. AllOf(ps, n, list, {id}) = Subtree(ps, id)
  BY <1>7, <1>9 DEF AllOf
<1>12. LoadOf(ps, {id}) = Own(ps[id]) /\ LoadOf(ps, {id}) <= MaxInt
  BY <1>3, LoadOfOne, OwnLoads
<1> DEFINE above == {id}
<1>13. SumOf([ok |-> TRUE, total |-> LoadOf(ps, above), refs |-> above],
             [k \in DOMAIN list |-> Result(ps, list[k])]) =
         IF /\ \A k \in 1..n : CascadeFits(ps, list[k])
            /\ LoadOf(ps, AllOf(ps, n, list, above)) <= MaxInt
         THEN [ok |-> TRUE, total |-> LoadOf(ps, AllOf(ps, n, list, above)),
               refs |-> AllOf(ps, n, list, above)]
         ELSE Failed
  <2>1. Apart(ps, n, list, above) /\ LoadOf(ps, above) <= MaxInt /\ n \in Nat
    BY <1>9, <1>10, <1>12
  <2> HIDE DEF above
  <2> QED
    BY <2>1, LoopOverSubtrees
<1>14. (\A k \in 1..n : CascadeFits(ps, list[k])) <=> \A c \in ids : CascadeFits(ps, c)
  BY <1>9
<1>15. Result(ps, id) = IF CascadeFits(ps, id)
                        THEN [ok |-> TRUE, total |-> LoadOf(ps, Subtree(ps, id)), refs |-> Subtree(ps, id)]
                        ELSE Failed
  BY DEF Result, CascadeTotal
<1>16. Result(ps, id) = SumOf([ok |-> TRUE, total |-> Own(ps[id]), refs |-> {id}],
                              [k \in DOMAIN list |-> Result(ps, list[k])])
  BY <1>8, <1>11, <1>12, <1>13, <1>14, <1>15
<1> QED
  BY <1>1, <1>16

\* A load point that is not has none.
LEMMA ResultOfInvalid ==
  ASSUME NEW ps, IsLoaded(ps), NEW id \in DOMAIN ps, id \in StructurallyInvalid(ps)
  PROVE  Result(ps, id) = Failed
<1>1. id \in Subtree(ps, id)
  BY SubtreeIsOfChildren DEF IsLoaded
<1> QED
  BY <1>1 DEF Result, CascadeFits

\* A graph as the rules are asked about it.
IsRated(ps) == IsLoaded(ps) /\ DOMAIN ps \subseteq PointIds

\* One round of cascade, with known for the results of the load points below.
Round(ps, known, id) ==
  IF id \in Orphans(ps) \cup WalkedCycles(ps) \/ ~OwnFits(ps[id]) THEN Failed
  ELSE SumOf([ok |-> TRUE, total |-> Own(ps[id]), refs |-> {id}],
             [k \in DOMAIN Children(ps, id) |-> known[Children(ps, id)[k]]])

\* The load points connected to one are listed.
LEMMA ChildrenAreBelow ==
  ASSUME NEW ps, IsRated(ps), NEW id, NEW k \in DOMAIN Children(ps, id)
  PROVE  Children(ps, id)[k] \in Below(ps, id)
<1>1. Below(ps, id) \subseteq DOMAIN ps
  BY DEF Below
<1>2. Below(ps, id) \in SUBSET PointIds /\ IsFiniteSet(Below(ps, id))
  BY <1>1, FS_Subset DEF IsRated, IsLoaded, IsGraph
<1>3. Children(ps, id) = Sorted(Below(ps, id))
  BY DEF Children, Below
<1> QED
  BY <1>2, <1>3, Listed

\* From the results below, a round makes the result.
LEMMA RoundMakesTheResult ==
  ASSUME NEW ps, IsRated(ps), NEW id \in DOMAIN ps, NEW known,
         id \notin ConnectionCycleIDs(ps) =>
           \A c \in Below(ps, id) : known[c] = Result(ps, c)
  PROVE  Round(ps, known, id) = Result(ps, id)
<1>1. IsLoaded(ps) /\ IsGraph(ps) /\ DOMAIN ps \subseteq PointIds
  BY DEF IsRated, IsLoaded
<1>2. id \in Orphans(ps) \cup WalkedCycles(ps) \/ ~OwnFits(ps[id]) <=> id \in StructurallyInvalid(ps)
  BY <1>1, WalksFindTheCycles DEF StructurallyInvalid
<1>3. CASE id \in StructurallyInvalid(ps)
  BY <1>1, <1>2, <1>3, ResultOfInvalid DEF Round
<1>4. CASE id \notin StructurallyInvalid(ps)
  <2> DEFINE children == Children(ps, id)
             first == [ok |-> TRUE, total |-> Own(ps[id]), refs |-> {id}]
  <2>1. \A c \in Below(ps, id) : known[c] = Result(ps, c)
    BY <1>4 DEF StructurallyInvalid
  <2>2. \A k \in DOMAIN children : children[k] \in Below(ps, id)
    BY ChildrenAreBelow
  <2>3. Round(ps, known, id) = SumOf(first, [k \in DOMAIN children |-> known[children[k]]])
    BY <1>2, <1>4 DEF Round
  <2>4. Result(ps, id) = SumOf(first, [k \in DOMAIN children |-> Result(ps, children[k])])
    BY <1>1, <1>4, ResultOfChildren
  <2> HIDE DEF children, first
  <2>5. [k \in DOMAIN children |-> known[children[k]]] = [k \in DOMAIN children |-> Result(ps, children[k])]
    BY <2>1, <2>2
  <2> QED
    BY <2>3, <2>4, <2>5
<1> QED
  BY <1>3, <1>4

\* The recursion gives every load point its result: the results solve it, and as
\* subtrees become smaller on the way down nothing else does.
LEMMA CascadesAreResults ==
  ASSUME NEW ps, IsRated(ps), NEW id \in DOMAIN ps
  PROVE  Cascades(ps)[id] = Result(ps, id)
<1> DEFINE D == DOMAIN ps
           results == [i \in D |-> Result(ps, i)]
           chosen == CHOOSE known : known = [i \in D |-> Round(ps, known, i)]
<1>0. \A i : Below(ps, i) \subseteq D
  BY DEF Below
<1>1. Cascades(ps) = chosen
  BY DEF Cascades, Round
<1>2. \A i \in D : results[i] = Round(ps, results, i)
  <2> SUFFICES ASSUME NEW i \in D PROVE results[i] = Round(ps, results, i)
    OBVIOUS
  <2>1. \A c \in Below(ps, i) : results[c] = Result(ps, c)
    BY <1>0
  <2>2. results[i] = Result(ps, i)
    OBVIOUS
  <2> HIDE DEF results
  <2> QED
    BY <2>1, <2>2, RoundMakesTheResult
<1>3. results = [i \in D |-> Round(ps, results, i)]
  <2>1. results = [i \in D |-> results[i]]
    OBVIOUS
  <2> HIDE DEF results
  <2> QED
    BY <1>2, <2>1
<1>4. chosen = [i \in D |-> Round(ps, chosen, i)]
  <2> HIDE DEF results
  <2> QED
    BY <1>3
<1> HIDE DEF chosen, results
<1>5. \A i \in D : chosen[i] = Round(ps, chosen, i)
  BY <1>4
<1> DEFINE Size(i) == Cardinality(Subtree(ps, i))
           T == {n \in Nat : \E i \in D : Size(i) = n /\ chosen[i] # Result(ps, i)}
<1>6. ASSUME T # {} PROVE FALSE
  <2>1. T \subseteq Nat
    OBVIOUS
  <2>2. PICK n \in T : \A m \in T : n <= m
    <3> HIDE DEF T
    <3> QED
      BY <1>6, <2>1, LeastNumber
  <2>3. PICK i \in D : Size(i) = n /\ chosen[i] # Result(ps, i)
    BY <2>2
  <2>4. ASSUME NEW c \in Below(ps, i), i \notin ConnectionCycleIDs(ps)
        PROVE  chosen[c] = Result(ps, c)
    <3>1. Size(c) \in Nat /\ Size(c) < Size(i)
      BY <2>4, SubtreesShrink DEF IsRated, IsLoaded
    <3>2. n \in Nat /\ c \in D
      BY <1>0, <2>1, <2>2
    <3> HIDE DEF Size
    <3>3. Size(c) \notin T
      <4> HIDE DEF T
      <4> QED
        BY <2>2, <2>3, <3>1, <3>2
    <3> QED
      BY <3>1, <3>2, <3>3
  <2>5. Round(ps, chosen, i) = Result(ps, i)
    BY <2>4, RoundMakesTheResult
  <2> QED
    BY <1>5, <2>3, <2>5
<1>7. Size(id) \in Nat
  <2>1. Subtree(ps, id) \subseteq D
    BY DEF Subtree
  <2> QED
    BY <2>1, FS_Subset, FS_CardinalityType DEF IsRated, IsLoaded, IsGraph
<1>8. chosen[id] = Result(ps, id)
  <2> HIDE DEF Size
  <2> QED
    BY <1>6, <1>7
<1> QED
  BY <1>1, <1>8

-----------------------------------------------------------------------------
(* The venue.                                                              *)

\* The loop over the roots gives the load of all that hangs below one.
LEMMA VenueIsTheRooted ==
  ASSUME NEW ps, IsRated(ps)
  PROVE  Venue(ps) = IF VenueFits(ps)
                     THEN [ok |-> TRUE, total |-> LoadOf(ps, Rooted(ps)), refs |-> Rooted(ps)]
                     ELSE Failed
<1> DEFINE ids == Roots(ps)
           n == Cardinality(ids)
           list == Sorted(ids)
           above == {}
<1>1. IsLoaded(ps) /\ IsGraph(ps)
  BY DEF IsRated, IsLoaded
<1>2. ids \in SUBSET PointIds /\ IsFiniteSet(ids) /\ ids \subseteq DOMAIN ps
  <2>1. ids \subseteq DOMAIN ps
    BY DEF Roots
  <2> QED
    BY <2>1, FS_Subset DEF IsRated, IsLoaded, IsGraph
<1>3. \A c \in ids : ps[c].parent = NoParent
  BY DEF Roots
<1>4. \A b, c \in ids : b # c => Subtree(ps, b) \cap Subtree(ps, c) = {}
  BY <1>1, <1>2, <1>3, SubtreesStayApart
<1>5. Rooted(ps) = UNION {Subtree(ps, c) : c \in ids}
  BY DEF Rooted
<1>6. Venue(ps) = NetLoad(ps, list)
  BY DEF Venue
<1>7. VenueFits(ps) <=> (\A c \in ids : CascadeFits(ps, c)) /\ LoadOf(ps, Rooted(ps)) <= MaxInt
  BY DEF VenueFits
<1> HIDE DEF ids
<1>8. /\ n \in Nat /\ DOMAIN list = 1..n
      /\ \A k \in 1..n : list[k] \in ids
      /\ \A j, k \in 1..n : j # k => list[j] # list[k]
      /\ \A c \in ids : \E k \in 1..n : list[k] = c
  BY <1>2, Listed
<1> HIDE DEF n, list
<1>9. Apart(ps, n, list, above)
  BY <1>4, <1>8 DEF Apart
<1>10. AllOf(ps, n, list, above) = Rooted(ps)
  BY <1>5, <1>8 DEF AllOf
<1>11. LoadOf(ps, above) = 0 /\ LoadOf(ps, above) <= MaxInt
  BY LoadOfNone, RuleNumbersAssumption
<1>12. [k \in DOMAIN list |-> Cascades(ps)[list[k]]] = [k \in DOMAIN list |-> Result(ps, list[k])]
  <2>1. \A k \in DOMAIN list : list[k] \in DOMAIN ps
    BY <1>2, <1>8
  <2>2. \A k \in DOMAIN list : Cascades(ps)[list[k]] = Result(ps, list[k])
    BY <2>1, CascadesAreResults
  <2> QED
    BY <2>2
<1>13. Venue(ps) = SumOf([ok |-> TRUE, total |-> 0, refs |-> {}],
                         [k \in DOMAIN list |-> Result(ps, list[k])])
  BY <1>6, <1>12 DEF NetLoad
<1>14. (\A k \in 1..n : CascadeFits(ps, list[k])) <=> \A c \in ids : CascadeFits(ps, c)
  BY <1>8
<1>15. SumOf([ok |-> TRUE, total |-> LoadOf(ps, above), refs |-> above],
             [k \in DOMAIN list |-> Result(ps, list[k])]) =
         IF /\ \A k \in 1..n : CascadeFits(ps, list[k])
            /\ LoadOf(ps, AllOf(ps, n, list, above)) <= MaxInt
         THEN [ok |-> TRUE, total |-> LoadOf(ps, AllOf(ps, n, list, above)),
               refs |-> AllOf(ps, n, list, above)]
         ELSE Failed
  <2>1. Apart(ps, n, list, above) /\ LoadOf(ps, above) <= MaxInt /\ n \in Nat
    BY <1>8, <1>9, <1>11
  <2> HIDE DEF above
  <2> QED
    BY <1>1, <2>1, LoopOverSubtrees
<1> QED
  BY <1>7, <1>10, <1>11, <1>13, <1>14, <1>15

-----------------------------------------------------------------------------
(* The graph that grows.                                                   *)

\* Every load point of the graph has numbers that preflightChangeSet lets through.
GraphInv == /\ IsFiniteSet(DOMAIN graph) /\ DOMAIN graph \subseteq PointIds
            /\ graph = [id \in DOMAIN graph |-> graph[id]]
            /\ \A id \in DOMAIN graph : IsLoadPoint(graph[id])
                                        /\ graph[id] = [parent |-> graph[id].parent, static |-> graph[id].static,
                                                        factor |-> graph[id].factor, capacity |-> graph[id].capacity]

\* With a greater load on one point, the graph is a heavier one.
LEMMA RaisedIsHeavier ==
  ASSUME GraphInv, NEW id, RaiseLoad(id)
  PROVE  Heavier(graph, graph')
<1>1. id \in DOMAIN graph
  BY DEF RaiseLoad
<1>2. PICK s \in Statics : s > graph[id].static /\ graph' = [graph EXCEPT ![id].static = s]
  BY DEF RaiseLoad
<1>3. s \in Nat
  BY GraphAssumption
<1>4. ASSUME NEW p, NEW a, NEW b, NEW c, NEW d,
             p = [parent |-> a, static |-> b, factor |-> c, capacity |-> d]
      PROVE  [p EXCEPT !.static = s] = [parent |-> a, static |-> s, factor |-> c, capacity |-> d]
  BY <1>4
<1>5. graph'[id] = [parent |-> graph[id].parent, static |-> s,
                    factor |-> graph[id].factor, capacity |-> graph[id].capacity]
  <2>1. graph'[id] = [graph[id] EXCEPT !.static = s]
    BY <1>1, <1>2
  <2> QED
    BY <1>1, <1>4, <2>1 DEF GraphInv
<1>6. DOMAIN graph' = DOMAIN graph /\ \A i \in DOMAIN graph : i # id => graph'[i] = graph[i]
  BY <1>2
<1>7. ASSUME NEW i \in DOMAIN graph
      PROVE  /\ IsLoadPoint(graph[i]) /\ IsLoadPoint(graph'[i])
             /\ graph'[i].parent = graph[i].parent /\ graph'[i].factor = graph[i].factor
             /\ graph'[i].capacity = graph[i].capacity /\ graph[i].static <= graph'[i].static
  <2>1. IsLoadPoint(graph[i])
    BY DEF GraphInv
  <2>2. CASE i # id
    BY <1>6, <2>1, <2>2 DEF IsLoadPoint
  <2>3. CASE i = id
    <3>1. /\ graph'[i].parent = graph[i].parent /\ graph'[i].factor = graph[i].factor
          /\ graph'[i].capacity = graph[i].capacity /\ graph'[i].static = s
      BY <1>5, <2>3
    <3> QED
      BY <1>2, <1>3, <2>1, <2>3, <3>1 DEF IsLoadPoint
  <2> QED
    BY <2>2, <2>3
<1> QED
  BY <1>6, <1>7 DEF Heavier, GraphInv

\* In every behaviour of LoadGraph.
LEMMA GraphIsWellFormed == Spec => []GraphInv
<1>1. Init => GraphInv
  BY FS_EmptySet DEF Init, GraphInv
<1>2. ASSUME GraphInv, NEW id \in PointIds, AddPoint(id)
      PROVE  GraphInv'
  <2>1. PICK parent \in Parents, s \in Statics, f \in Factors, c \in Capacities :
          graph' = [i \in DOMAIN graph \cup {id} |->
                      IF i \in DOMAIN graph THEN graph[i]
                      ELSE [parent |-> parent, static |-> s, factor |-> f, capacity |-> c]]
    BY <1>2 DEF AddPoint
  <2>2. s \in Nat /\ f \in Nat /\ c \in Nat
    BY GraphAssumption
  <2>3. DOMAIN graph' = DOMAIN graph \cup {id} /\ graph' = [i \in DOMAIN graph' |-> graph'[i]]
    BY <2>1
  <2>4. IsFiniteSet(DOMAIN graph') /\ DOMAIN graph' \subseteq PointIds
    BY <1>2, <2>3, FS_AddElement DEF GraphInv
  <2>5. ASSUME NEW i \in DOMAIN graph'
        PROVE  IsLoadPoint(graph'[i])
               /\ graph'[i] = [parent |-> graph'[i].parent, static |-> graph'[i].static,
                               factor |-> graph'[i].factor, capacity |-> graph'[i].capacity]
    <3>1. CASE i \in DOMAIN graph
      <4>1. graph'[i] = graph[i]
        BY <2>1, <3>1
      <4> QED
        BY <1>2, <3>1, <4>1 DEF GraphInv
    <3>2. CASE i \notin DOMAIN graph
      <4>1. graph'[i] = [parent |-> parent, static |-> s, factor |-> f, capacity |-> c]
        BY <2>1, <2>3, <3>2
      <4> QED
        BY <2>2, <4>1 DEF IsLoadPoint
    <3> QED
      BY <3>1, <3>2
  <2> QED
    BY <2>3, <2>4, <2>5 DEF GraphInv
<1>3. ASSUME GraphInv, NEW id, RaiseLoad(id)
      PROVE  GraphInv'
  <2>1. Heavier(graph, graph')
    BY <1>3, RaisedIsHeavier
  <2>2. PICK s \in Statics : graph' = [graph EXCEPT ![id].static = s]
    BY <1>3 DEF RaiseLoad
  <2>3. \A i \in DOMAIN graph : graph'[i] = IF i = id THEN [graph[i] EXCEPT !.static = s] ELSE graph[i]
    BY <2>2
  <2>4. ASSUME NEW i \in DOMAIN graph
        PROVE  graph'[i] = [parent |-> graph'[i].parent, static |-> graph'[i].static,
                            factor |-> graph'[i].factor, capacity |-> graph'[i].capacity]
    <3>1. ASSUME NEW p, NEW a, NEW b, NEW c, NEW d, NEW q,
                 p = [parent |-> a, static |-> b, factor |-> c, capacity |-> d],
                 q = [p EXCEPT !.static = s] \/ q = p
          PROVE  q = [parent |-> q.parent, static |-> q.static, factor |-> q.factor, capacity |-> q.capacity]
      <4>1. [p EXCEPT !.static = s] = [parent |-> a, static |-> s, factor |-> c, capacity |-> d]
        BY <3>1
      <4>2. CASE q = p
        BY <3>1, <4>2
      <4>3. CASE q = [p EXCEPT !.static = s]
        BY <4>1, <4>3
      <4> QED
        BY <3>1, <4>2, <4>3
    <3>2. graph[i] = [parent |-> graph[i].parent, static |-> graph[i].static,
                      factor |-> graph[i].factor, capacity |-> graph[i].capacity]
      BY <1>3 DEF GraphInv
    <3> QED
      BY <2>3, <3>1, <3>2
  <2>5. graph' = [i \in DOMAIN graph' |-> graph'[i]]
    BY <2>2
  <2>6. DOMAIN graph' = DOMAIN graph /\ DOMAIN graph' \subseteq PointIds
    BY <1>3, <2>1 DEF GraphInv, Heavier
  <2>7. \A i \in DOMAIN graph' : IsLoadPoint(graph'[i])
    BY <2>1, <2>6 DEF Heavier
  <2>8. IsFiniteSet(DOMAIN graph')
    BY <1>3, <2>6 DEF GraphInv
  <2> QED
    BY <2>4, <2>5, <2>6, <2>7, <2>8 DEF GraphInv
<1>4. GraphInv /\ UNCHANGED vars => GraphInv'
  BY DEF GraphInv, vars
<1>5. GraphInv /\ [Next]_vars => GraphInv'
  BY <1>2, <1>3, <1>4 DEF Next
<1> QED
  BY <1>1, <1>5, PTL DEF Spec

\* A margin warning is given exactly where less than 15 percent are left, counted in
\* whole kilograms, for every load point of every graph.
THEOREM MarginsAreExact == Spec => []MarginIsExact
<1>1. GraphInv => MarginIsExact
  <2> SUFFICES ASSUME GraphInv, NEW id \in DOMAIN graph, NEW load \in 0..MaxInt
               PROVE  LET c == graph[id].capacity
                          left == c - load
                      IN  /\ LowMargin(load, c) => left >= 0 /\ 100 * left < 15 * c
                          /\ left >= 0 /\ 100 * (left + 1) <= 15 * c => LowMargin(load, c)
    BY DEF MarginIsExact
  <2> DEFINE c == graph[id].capacity
  <2>1. c \in Int /\ load \in Int /\ 0 <= load
    BY RuleNumbersAssumption DEF GraphInv, IsLoadPoint
  <2> HIDE DEF c
  <2>2. LowMargin(load, c) <=> 0 <= load /\ load <= c /\ 0 < c /\ 100 * (c - load + 1) <= 15 * c
    BY <2>1, MarginIsExactlyRounded
  <2>3. /\ LowMargin(load, c) => c - load >= 0 /\ 100 * (c - load) < 15 * c
        /\ c - load >= 0 /\ 100 * (c - load + 1) <= 15 * c => LowMargin(load, c)
    BY <2>1, <2>2
  <2> QED
    BY <2>3 DEF c
<1> QED
  BY <1>1, GraphIsWellFormed, PTL

\* A dynamic load is refused exactly when it cannot be computed within the width,
\* and is otherwise the true load rounded up, for every load on every point of every
\* graph, any width and any factor.
THEOREM DynamicLoadsAreExact == Spec => []DynamicLoadIsExact
<1>1. GraphInv => DynamicLoadIsExact
  <2> SUFFICES ASSUME GraphInv, NEW id \in DOMAIN graph, NEW static \in 0..MaxInt
               PROVE  LET factor == graph[id].factor
                          load == DynamicLoad(static, factor)
                      IN  /\ DynamicLoadFits(static, factor)
                               <=> static * factor + (Permille - 1) <= MaxInt
                          /\ DynamicLoadFits(static, factor) =>
                               /\ static * factor <= Permille * load
                               /\ Permille * load < static * factor + Permille
    BY DEF DynamicLoadIsExact
  <2> DEFINE factor == graph[id].factor
             load == DynamicLoad(static, factor)
  <2>1. factor \in Nat /\ static \in Nat /\ Permille \in Nat \ {0} /\ MaxInt \in Nat
    BY RuleNumbersAssumption DEF GraphInv, IsLoadPoint
  <2> HIDE DEF factor
  <2>2. static * factor + (Permille - 1) <= MaxInt => DynamicLoadFits(static, factor)
    BY <2>1, ComputableLoadFits
  <2>3. ASSUME DynamicLoadFits(static, factor)
        PROVE  /\ static * factor + (Permille - 1) <= MaxInt
               /\ static * factor <= Permille * load
               /\ Permille * load < static * factor + Permille
    <3> DEFINE product == static * factor
    <3>1. product \in Int /\ load \in Int
      BY <2>1, <2>3, DynamicLoadIsRoundedUp
    <3>2. /\ product + Permille - 1 \in 0..MaxInt
          /\ Permille * load >= product
          /\ Permille * load < product + Permille
      BY <2>1, <2>3, DynamicLoadIsRoundedUp
    <3> HIDE DEF product, load
    <3>3. product + (Permille - 1) <= MaxInt /\ product <= Permille * load
      BY <2>1, <3>1, <3>2
    <3> QED
      BY <3>2, <3>3 DEF product
  <2> QED
    BY <2>2, <2>3 DEF factor
<1> QED
  BY <1>1, GraphIsWellFormed, PTL

\* More load never turns a refused case into an accepted one, for any set of load
\* points, any connections, any limits and any width of the integers: a sum that is
\* refused because it cannot be computed stays refused.
THEOREM MoreLoadIsNoWayOut == Spec => MoreLoadNeverHelps
<1>1. GraphInv => [\A id \in DOMAIN graph : RaiseLoad(id) /\ Refused(graph) => Refused(graph')]_vars
  <2> SUFFICES ASSUME GraphInv, NEW id \in DOMAIN graph, RaiseLoad(id), Refused(graph)
               PROVE  Refused(graph')
    OBVIOUS
  <2>1. Heavier(graph, graph')
    BY RaisedIsHeavier
  <2>2. VenueLimit \in Int
    BY GraphAssumption
  <2>3. \A ps : Refused(ps) <=> Blocked(ps, OneCue, VenueLimit)
    BY BlockersAre DEF Refused
  <2> QED
    BY <2>1, <2>2, <2>3, HeavierIsRefused
<1> QED
  BY <1>1, GraphIsWellFormed, PTL DEF MoreLoadNeverHelps

-----------------------------------------------------------------------------
(* The algorithms of Evaluate, on every graph that can grow.               *)

\* Such a graph is one that the rules can be asked about.
LEMMA GraphIsRated == Spec => []IsRated(graph)
<1>1. GraphInv => IsRated(graph)
  BY GraphAssumption DEF GraphInv, IsRated, IsLoaded, IsGraph
<1> QED
  BY <1>1, GraphIsWellFormed, PTL

\* connectionCycleIDs (changeset.go:232) walks up from every load point until it meets an
\* id again, and reports what it met since: together exactly the load points on a
\* cycle, whatever the order of the walks, and none that only leads to one.
THEOREM WalksAreExact == Spec => []WalkFindsTheCycles
<1>1. IsRated(graph) => WalkFindsTheCycles
  BY WalksFindTheCycles DEF IsRated, IsLoaded, WalkFindsTheCycles
<1> QED
  BY <1>1, GraphIsRated, PTL

\* cascade (rules.go:62) gives each load point the sum of all that hangs below it, each
\* counted once and within the width of the integers, or no number at all.
THEOREM RecursionIsTheSubtreeSum == Spec => []CascadeIsTheSubtreeSum
<1>1. IsRated(graph) => CascadeIsTheSubtreeSum
  <2> SUFFICES ASSUME IsRated(graph), NEW id \in DOMAIN graph
               PROVE  IF CascadeFits(graph, id)
                      THEN Cascades(graph)[id] =
                             [ok |-> TRUE, total |-> CascadeTotal(graph, id), refs |-> Subtree(graph, id)]
                      ELSE ~Cascades(graph)[id].ok
    BY DEF CascadeIsTheSubtreeSum
  <2>1. Cascades(graph)[id] = Result(graph, id)
    BY CascadesAreResults
  <2> QED
    BY <2>1 DEF Result, Failed
<1> QED
  BY <1>1, GraphIsRated, PTL

\* The loop over the roots (rules.go:114) counts each load point that hangs below one
\* exactly once, or gives no number.
THEOREM VenueCountsOnce == Spec => []VenueCountsEachPointOnce
<1>1. IsRated(graph) => VenueCountsEachPointOnce
  BY VenueIsTheRooted DEF VenueCountsEachPointOnce, Failed
<1> QED
  BY <1>1, GraphIsRated, PTL
=============================================================================
