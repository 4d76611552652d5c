----------------------------- MODULE StoreProofs -----------------------------
(***************************************************************************)
(* What src/store.rs computes for the lanes of a pool: how often weighted  *)
(* selection picks each of them (module Swrr), and how long one that keeps *)
(* failing waits (module Cooldown).                                        *)
(*                                                                         *)
(* Selection, for a pool of any members and weights and any number of      *)
(* selectors: the types, how far an accumulator can get from rest, and the *)
(* share of a full turn.  The bound of one lane is not inductive.  Leeway  *)
(* bounds the sum over every set of lanes instead, by a concave function   *)
(* of its size: a set the picked lane leads grows by less than the set     *)
(* with it may hold, a set the picked lane belongs to pays no more than    *)
(* its others are owed.                                                    *)
(*                                                                         *)
(* Cooldowns, for every configuration the validator accepts: a lane always *)
(* has two to choose from, and its wait follows the documented backoff as  *)
(* long as the shift in a word is good enough.  Where it is not, the run   *)
(* cooldown_overflow shows what happens.                                   *)
(*                                                                         *)
(* The first part proves what the folds of the community modules compute   *)
(* when they sum a function over a finite set.                             *)
(***************************************************************************)
EXTENDS Swrr, Cooldown, FiniteSetTheorems, WellFoundedInduction, TLAPS

-----------------------------------------------------------------------------
(* Induction, with the property as the set of what has it.                 *)

(* A set of numbers that holds 0 and every successor holds all of them.    *)
LEMMA EveryNumber ==
  ASSUME NEW P \in SUBSET Nat, 0 \in P, \A n \in P : n + 1 \in P
  PROVE  \A n \in Nat : n \in P
<1> DEFINE R == OpToRel(<, Nat)
           others == Nat \ P
<1>1. IsWellFoundedOn(R, Nat)
  BY NatLessThanWellFounded
<1>2. R = {ss \in Nat \X Nat : ss[1] < ss[2]}
  BY DEF OpToRel
<1> HIDE DEF R
<1> SUFFICES ASSUME others # {} PROVE FALSE
  OBVIOUS
<1>3. PICK n \in others : \A m \in others : ~(<<m, n>> \in R)
  BY <1>1, WFMin
<1>4. n \in Nat /\ n # 0
  BY <1>3
<1>5. n - 1 \in Nat /\ n - 1 < n
  BY <1>4
<1>6. <<n - 1, n>> \in Nat \X Nat /\ <<n - 1, n>>[1] < <<n - 1, n>>[2]
  BY <1>4, <1>5
<1>7. <<n - 1, n>> \in R
  BY <1>2, <1>6
<1>8. n - 1 \in P
  BY <1>3, <1>5, <1>7
<1>9. (n - 1) + 1 \in P
  BY <1>8
<1>10. QED BY <1>3, <1>4, <1>9

(* A family that holds the empty set, and with a set every set of one      *)
(* element more, holds a finite set.                                       *)
LEMMA OneByOne ==
  ASSUME NEW S, IsFiniteSet(S), NEW P \in SUBSET (SUBSET S), {} \in P,
         \A T \in P, x \in S : x \notin T => T \cup {x} \in P
  PROVE  S \in P
<1> DEFINE Q == {n \in Nat : \A T \in SUBSET S : Cardinality(T) = n => T \in P}
<1>1. 0 \in Q
  <2> SUFFICES ASSUME NEW T \in SUBSET S, Cardinality(T) = 0 PROVE T \in P
    OBVIOUS
  <2>1. IsFiniteSet(T)
    BY FS_Subset
  <2>2. T = {}
    BY <2>1, FS_EmptySet
  <2>3. QED BY <2>2
<1>2. ASSUME NEW n \in Q PROVE n + 1 \in Q
  <2> SUFFICES ASSUME NEW T \in SUBSET S, Cardinality(T) = n + 1 PROVE T \in P
    OBVIOUS
  <2>1. IsFiniteSet(T) /\ n \in Nat /\ n + 1 # 0
    BY FS_Subset
  <2>2. T # {}
    BY <2>1, FS_EmptySet
  <2>3. PICK x : x \in T
    BY <2>2
  <2>4. Cardinality(T \ {x}) = n
    <3>1. Cardinality(T \ {x}) = Cardinality(T) - 1
      BY <2>1, <2>3, FS_RemoveElement
    <3>2. QED BY <2>1, <3>1
  <2>5. T \ {x} \in P
    BY <2>4
  <2>6. (T \ {x}) \cup {x} \in P
    BY <2>3, <2>5
  <2>7. QED BY <2>3, <2>6
<1> HIDE DEF Q
<1>3. \A n \in Nat : n \in Q
  <2>1. Q \in SUBSET Nat
    BY DEF Q
  <2>2. QED BY <1>1, <1>2, <2>1, EveryNumber
<1>4. Cardinality(S) \in Nat
  BY FS_CardinalityType
<1>5. QED BY <1>3, <1>4 DEF Q

-----------------------------------------------------------------------------
(* The sum of a function over a finite set.                                *)

Sum(f, S) == MapThenSumSet(LAMBDA x : f[x], S)

\* The function that MapThenSumSet looks up: the sum over each subset.
First(s) == CHOOSE x \in s : TRUE
SumsUp(f, S, sum) ==
  sum = [s \in SUBSET S |-> IF s = {} THEN 0 ELSE f[First(s)] + sum[s \ {First(s)}]]

(* There is such a function: it is built for ever larger subsets.          *)
LEMMA SumsExist ==
  ASSUME NEW f, NEW S, IsFiniteSet(S)
  PROVE  \E sum : SumsUp(f, S, sum)
<1> DEFINE upTo(n) == {s \in SUBSET S : Cardinality(s) <= n}
           Step(g, s) == IF s = {} THEN 0 ELSE f[First(s)] + g[s \ {First(s)}]
           P == {n \in Nat : \E g : g = [s \in upTo(n) |-> Step(g, s)]}
<1>1. 0 \in P
  <2> DEFINE g == [s \in upTo(0) |-> 0]
  <2>1. \A s \in upTo(0) : s = {}
    BY FS_Subset, FS_EmptySet, FS_CardinalityType
  <2>2. g = [s \in upTo(0) |-> Step(g, s)]
    BY <2>1
  <2>3. QED BY <2>2
<1>2. ASSUME NEW n \in P PROVE n + 1 \in P
  <2>1. PICK g : g = [s \in upTo(n) |-> Step(g, s)]
    OBVIOUS
  <2> DEFINE h == [s \in upTo(n + 1) |-> Step(g, s)]
  <2>2. ASSUME NEW s \in upTo(n + 1), s # {}
        PROVE  s \ {First(s)} \in upTo(n) /\ s \ {First(s)} \in upTo(n + 1)
    <3>1. IsFiniteSet(s) /\ First(s) \in s
      BY <2>2, FS_Subset DEF First
    <3>2. Cardinality(s \ {First(s)}) = Cardinality(s) - 1 /\ Cardinality(s) \in Nat
      BY <3>1, FS_RemoveElement, FS_CardinalityType
    <3>3. s \ {First(s)} \in SUBSET S
      OBVIOUS
    <3>4. QED BY <3>2, <3>3
  <2>3. \A s \in upTo(n) : s \in upTo(n + 1) /\ h[s] = g[s]
    <3> SUFFICES ASSUME NEW s \in upTo(n) PROVE s \in upTo(n + 1) /\ h[s] = g[s]
      OBVIOUS
    <3>1. Cardinality(s) \in Nat
      BY FS_Subset, FS_CardinalityType
    <3>2. s \in upTo(n + 1)
      BY <3>1
    <3>3. g[s] = Step(g, s)
      BY <2>1
    <3>4. QED BY <3>2, <3>3
  <2>4. \A s \in upTo(n + 1) : Step(g, s) = Step(h, s)
    BY <2>2, <2>3
  <2>5. h = [s \in upTo(n + 1) |-> Step(h, s)]
    BY <2>4
  <2> HIDE DEF h
  <2>6. \E k : k = [s \in upTo(n + 1) |-> Step(k, s)]
    BY <2>5, Zenon
  <2>7. n + 1 \in Nat
    OBVIOUS
  <2>8. QED BY <2>6, <2>7, Zenon
<1> HIDE DEF P
<1>3. \A n \in Nat : n \in P
  <2>1. P \in SUBSET Nat
    BY DEF P
  <2>2. QED BY <1>1, <1>2, <2>1, EveryNumber
<1>4. Cardinality(S) \in Nat
  BY FS_CardinalityType
<1>5. PICK g : g = [s \in upTo(Cardinality(S)) |-> Step(g, s)]
  BY <1>3, <1>4 DEF P
<1>6. upTo(Cardinality(S)) = SUBSET S
  BY FS_Subset
<1>7. SumsUp(f, S, g)
  BY <1>5, <1>6 DEF SumsUp
<1>8. QED BY <1>7

(* Two of them agree where both are defined.                               *)
LEMMA SumsAgree ==
  ASSUME NEW f, NEW S, IsFiniteSet(S), NEW T \in SUBSET S,
         NEW k, SumsUp(f, S, k), NEW g, SumsUp(f, T, g)
  PROVE  g[T] = k[T]
<1> DEFINE P == {n \in Nat : \A s \in SUBSET T : Cardinality(s) = n => g[s] = k[s]}
<1>1. \A s \in SUBSET T :
        /\ IsFiniteSet(s) /\ Cardinality(s) \in Nat
        /\ s # {} => First(s) \in s /\ Cardinality(s \ {First(s)}) = Cardinality(s) - 1
  <2> SUFFICES ASSUME NEW s \in SUBSET T
               PROVE  /\ IsFiniteSet(s) /\ Cardinality(s) \in Nat
                      /\ s # {} => /\ First(s) \in s
                                   /\ Cardinality(s \ {First(s)}) = Cardinality(s) - 1
    OBVIOUS
  <2>1. IsFiniteSet(s)
    BY FS_Subset
  <2>2. s # {} => First(s) \in s
    BY DEF First
  <2>3. QED BY <2>1, <2>2, FS_CardinalityType, FS_RemoveElement
<1>2. /\ \A s \in SUBSET T : g[s] = IF s = {} THEN 0 ELSE f[First(s)] + g[s \ {First(s)}]
      /\ \A s \in SUBSET T : k[s] = IF s = {} THEN 0 ELSE f[First(s)] + k[s \ {First(s)}]
  BY DEF SumsUp
<1>3. 0 \in P
  <2> SUFFICES ASSUME NEW s \in SUBSET T, Cardinality(s) = 0 PROVE g[s] = k[s]
    OBVIOUS
  <2>1. s = {}
    BY <1>1, FS_EmptySet
  <2>2. QED BY <1>2, <2>1
<1>4. ASSUME NEW n \in P PROVE n + 1 \in P
  <2> SUFFICES ASSUME NEW s \in SUBSET T, Cardinality(s) = n + 1 PROVE g[s] = k[s]
    OBVIOUS
  <2>1. CASE s = {}
    BY <1>2, <2>1
  <2>2. CASE s # {}
    <3>1. s \ {First(s)} \in SUBSET T /\ n \in Nat
      OBVIOUS
    <3>2. Cardinality(s \ {First(s)}) = n
      BY <1>1, <2>2, <3>1
    <3>3. g[s \ {First(s)}] = k[s \ {First(s)}]
      BY <3>1, <3>2
    <3>4. QED BY <1>2, <2>2, <3>3
  <2>3. QED BY <2>1, <2>2
<1> HIDE DEF P
<1>5. \A n \in Nat : n \in P
  <2>1. P \in SUBSET Nat
    BY DEF P
  <2>2. QED BY <1>3, <1>4, <2>1, EveryNumber
<1>6. QED BY <1>1, <1>5 DEF P

(* The sum of no elements is 0; any other is one of the elements and the   *)
(* sum of the rest.                                                        *)
LEMMA SumEquation ==
  ASSUME NEW f, NEW S, IsFiniteSet(S)
  PROVE  Sum(f, S) = IF S = {} THEN 0 ELSE f[First(S)] + Sum(f, S \ {First(S)})
<1> DEFINE up(T) == CHOOSE sum : SumsUp(f, T, sum)
           rest == S \ {First(S)}
<1>1. \A T : Sum(f, T) = up(T)[T]
  BY Zenon DEF Sum, MapThenSumSet, MapThenFoldSet, SumsUp, First
<1>2. IsFiniteSet(rest) /\ rest \in SUBSET S
  BY FS_Subset
<1>3. SumsUp(f, S, up(S)) /\ SumsUp(f, rest, up(rest))
  BY <1>2, SumsExist, Zenon
<1> HIDE DEF up
<1>4. up(rest)[rest] = up(S)[rest]
  BY <1>2, <1>3, SumsAgree
<1>5. up(S)[S] = IF S = {} THEN 0 ELSE f[First(S)] + up(S)[rest]
  BY <1>3 DEF SumsUp
<1>6. QED BY <1>1, <1>4, <1>5

(* ... whichever element it is.                                            *)
LEMMA SumTake ==
  ASSUME NEW f, NEW S, IsFiniteSet(S), \A x \in S : f[x] \in Int
  PROVE  /\ Sum(f, {}) = 0
         /\ \A T \in SUBSET S : /\ Sum(f, T) \in Int
                               /\ \A x \in T : Sum(f, T) = f[x] + Sum(f, T \ {x})
<1> DEFINE Fine(T) == /\ Sum(f, T) \in Int
                      /\ \A x \in T : Sum(f, T) = f[x] + Sum(f, T \ {x})
           P == {n \in Nat : \A T \in SUBSET S : Cardinality(T) <= n => Fine(T)}
<1>1. Sum(f, {}) = 0
  BY SumEquation, FS_EmptySet
<1>2. \A T \in SUBSET S :
        /\ IsFiniteSet(T) /\ Cardinality(T) \in Nat
        /\ Cardinality(T) = 0 => T = {}
        /\ \A x \in T : Cardinality(T \ {x}) = Cardinality(T) - 1
  <2> SUFFICES ASSUME NEW T \in SUBSET S
               PROVE  /\ IsFiniteSet(T) /\ Cardinality(T) \in Nat
                      /\ Cardinality(T) = 0 => T = {}
                      /\ \A x \in T : Cardinality(T \ {x}) = Cardinality(T) - 1
    OBVIOUS
  <2>1. IsFiniteSet(T)
    BY FS_Subset
  <2>2. QED BY <2>1, FS_CardinalityType, FS_EmptySet, FS_RemoveElement
<1> HIDE DEF P
<1>3. 0 \in P
  <2> SUFFICES ASSUME NEW T \in SUBSET S, Cardinality(T) <= 0 PROVE Fine(T)
    BY DEF P
  <2>1. T = {}
    BY <1>2
  <2>2. QED BY <1>1, <2>1
<1>4. ASSUME NEW n \in P PROVE n + 1 \in P
  <2>1. /\ n \in Nat
        /\ \A T \in SUBSET S : Cardinality(T) <= n => Fine(T)
    BY DEF P
  <2> SUFFICES ASSUME NEW T \in SUBSET S, Cardinality(T) = n + 1 PROVE Fine(T)
    BY <1>2, <2>1 DEF P
  <2> HIDE DEF Fine
  <2> DEFINE c == First(T)
  <2>2. T # {} /\ IsFiniteSet(T)
    BY <1>2, <2>1, FS_EmptySet
  <2>3. c \in T
    BY <2>2 DEF First
  <2>4. \A x \in T : T \ {x} \in SUBSET S /\ Cardinality(T \ {x}) <= n
    BY <1>2, <2>1
  <2>5. \A x \in T : Fine(T \ {x})
    BY <2>1, <2>4
  <2>6. Sum(f, T) = f[c] + Sum(f, T \ {c})
    BY <2>2, SumEquation
  <2> HIDE DEF c
  <2>7. \A x \in T : f[x] \in Int /\ Sum(f, T \ {x}) \in Int
    BY <2>5 DEF Fine
  <2>8. ASSUME NEW x \in T PROVE Sum(f, T) = f[x] + Sum(f, T \ {x})
    <3>1. CASE x = c
      BY <2>6, <3>1
    <3>2. CASE x # c
      <4> DEFINE rest == (T \ {x}) \ {c}
      <4>1. x \in T \ {c} /\ c \in T \ {x} /\ (T \ {c}) \ {x} = rest /\ rest \in SUBSET S
        BY <2>3, <3>2
      <4>2. /\ Sum(f, T \ {c}) = f[x] + Sum(f, (T \ {c}) \ {x})
            /\ Sum(f, T \ {x}) = f[c] + Sum(f, rest)
        BY <2>3, <2>5, <4>1 DEF Fine
      <4>3. Sum(f, rest) \in Int
        <5>1. Cardinality(rest) = Cardinality(T \ {x}) - 1 /\ Cardinality(T \ {x}) \in Nat
          BY <1>2, <2>4, <4>1
        <5>2. Cardinality(rest) <= n
          BY <2>1, <2>4, <5>1
        <5>3. QED BY <2>1, <4>1, <5>2 DEF Fine
      <4> HIDE DEF rest
      <4>4. Sum(f, T \ {c}) = f[x] + Sum(f, rest)
        BY <4>1, <4>2
      <4>5. f[x] \in Int /\ f[c] \in Int
        BY <2>3, <2>7
      <4>6. QED BY <2>6, <4>2, <4>3, <4>4, <4>5
    <3>3. QED BY <3>1, <3>2
  <2>9. Sum(f, T) \in Int
    BY <2>3, <2>6, <2>7
  <2>10. QED BY <2>8, <2>9 DEF Fine
<1>5. \A n \in Nat : n \in P
  <2>1. P \in SUBSET Nat
    BY DEF P
  <2>2. QED BY <1>3, <1>4, <2>1, EveryNumber
<1>6. QED BY <1>1, <1>2, <1>5 DEF P

(* An element more adds its value.                                         *)
LEMMA SumAdd ==
  ASSUME NEW f, NEW S, IsFiniteSet(S), \A x \in S : f[x] \in Int,
         NEW T \in SUBSET S, NEW x \in S, x \notin T
  PROVE  /\ Sum(f, T) \in Int /\ Sum(f, T \cup {x}) \in Int
         /\ Sum(f, T \cup {x}) = Sum(f, T) + f[x]
<1> DEFINE more == T \cup {x}
<1>1. more \in SUBSET S /\ x \in more /\ more \ {x} = T /\ f[x] \in Int
  OBVIOUS
<1> HIDE DEF more
<1>2. \A U \in SUBSET S : /\ Sum(f, U) \in Int
                         /\ \A y \in U : Sum(f, U) = f[y] + Sum(f, U \ {y})
  BY SumTake
<1>3. Sum(f, T) \in Int /\ Sum(f, more) \in Int /\ Sum(f, more) = f[x] + Sum(f, more \ {x})
  BY <1>1, <1>2
<1>4. Sum(f, more) = f[x] + Sum(f, T)
  BY <1>1, <1>3, Zenon
<1>5. QED BY <1>1, <1>3, <1>4 DEF more

(* The sum of pointwise sums.                                              *)
LEMMA SumPlus ==
  ASSUME NEW f, NEW g, NEW h, NEW S, IsFiniteSet(S),
         \A x \in S : f[x] \in Int /\ g[x] \in Int /\ h[x] = f[x] + g[x]
  PROVE  Sum(h, S) = Sum(f, S) + Sum(g, S)
<1> DEFINE P == {T \in SUBSET S : Sum(h, T) = Sum(f, T) + Sum(g, T)}
<1>1. {} \in P
  <2>1. \A x \in S : h[x] \in Int
    OBVIOUS
  <2>2. QED BY <2>1, SumTake
<1>2. ASSUME NEW T \in P, NEW x \in S, x \notin T
      PROVE  T \cup {x} \in P
  <2>1. T \in SUBSET S /\ f[x] \in Int /\ g[x] \in Int /\ h[x] = f[x] + g[x]
        /\ Sum(h, T) = Sum(f, T) + Sum(g, T)
        /\ \A y \in S : h[y] \in Int
    OBVIOUS
  <2>2. /\ Sum(f, T) \in Int /\ Sum(f, T \cup {x}) = Sum(f, T) + f[x]
        /\ Sum(g, T) \in Int /\ Sum(g, T \cup {x}) = Sum(g, T) + g[x]
        /\ Sum(h, T \cup {x}) = Sum(h, T) + h[x]
    BY <1>2, <2>1, SumAdd
  <2>3. T \cup {x} \in SUBSET S
    OBVIOUS
  <2>4. QED BY <2>1, <2>2, <2>3
<1>3. P \in SUBSET (SUBSET S)
  OBVIOUS
<1> HIDE DEF P
<1>4. S \in P
  BY <1>1, <1>2, <1>3, OneByOne
<1>5. QED BY <1>4 DEF P

(* Functions that agree on the set have the same sum.                      *)
LEMMA SumSame ==
  ASSUME NEW f, NEW g, NEW S, IsFiniteSet(S), \A x \in S : f[x] \in Int /\ g[x] = f[x]
  PROVE  Sum(g, S) = Sum(f, S)
<1> DEFINE P == {T \in SUBSET S : Sum(g, T) = Sum(f, T)}
<1>1. {} \in P
  <2>1. \A x \in S : g[x] \in Int
    OBVIOUS
  <2>2. QED BY <2>1, SumTake
<1>2. ASSUME NEW T \in P, NEW x \in S, x \notin T
      PROVE  T \cup {x} \in P
  <2>1. T \in SUBSET S /\ f[x] \in Int /\ g[x] = f[x] /\ Sum(g, T) = Sum(f, T)
        /\ \A y \in S : g[y] \in Int
    OBVIOUS
  <2>2. /\ Sum(f, T \cup {x}) = Sum(f, T) + f[x]
        /\ Sum(g, T \cup {x}) = Sum(g, T) + g[x]
    BY <1>2, <2>1, SumAdd
  <2>3. T \cup {x} \in SUBSET S
    OBVIOUS
  <2>4. QED BY <2>1, <2>2, <2>3
<1>3. P \in SUBSET (SUBSET S)
  OBVIOUS
<1> HIDE DEF P
<1>4. S \in P
  BY <1>1, <1>2, <1>3, OneByOne
<1>5. QED BY <1>4 DEF P

(* Values of at most c sum to at most c for each element.                  *)
LEMMA SumBounded ==
  ASSUME NEW f, NEW S, IsFiniteSet(S), NEW c \in Int,
         \A x \in S : f[x] \in Int /\ f[x] <= c
  PROVE  Sum(f, S) <= c * Cardinality(S)
<1> DEFINE P == {T \in SUBSET S : Sum(f, T) <= c * Cardinality(T)}
<1>1. {} \in P
  BY SumTake, FS_EmptySet
<1>2. ASSUME NEW T \in P, NEW x \in S, x \notin T
      PROVE  T \cup {x} \in P
  <2>1. T \in SUBSET S /\ f[x] \in Int /\ f[x] <= c
        /\ Sum(f, T) <= c * Cardinality(T)
    OBVIOUS
  <2>2. Sum(f, T) \in Int /\ Sum(f, T \cup {x}) = Sum(f, T) + f[x]
    BY <1>2, <2>1, SumAdd
  <2>3. IsFiniteSet(T)
    BY <2>1, FS_Subset
  <2>4. Cardinality(T) \in Nat /\ Cardinality(T \cup {x}) = Cardinality(T) + 1
    BY <1>2, <2>3, FS_AddElement, FS_CardinalityType
  <2>5. c * (Cardinality(T) + 1) = c * Cardinality(T) + c /\ c * Cardinality(T) \in Int
    BY <2>4
  <2>6. Sum(f, T \cup {x}) <= c * Cardinality(T \cup {x})
    BY <2>1, <2>2, <2>4, <2>5
  <2>7. QED BY <2>1, <2>6
<1>3. P \in SUBSET (SUBSET S)
  OBVIOUS
<1> HIDE DEF P
<1>4. S \in P
  BY <1>1, <1>2, <1>3, OneByOne
<1>5. QED BY <1>4 DEF P

(* Values of at least 0 sum to at least 0.                                 *)
LEMMA SumPositive ==
  ASSUME NEW f, NEW S, IsFiniteSet(S), \A x \in S : f[x] \in Nat
  PROVE  Sum(f, S) \in Nat
<1> DEFINE P == {T \in SUBSET S : Sum(f, T) \in Nat}
<1>1. {} \in P
  <2>1. \A x \in S : f[x] \in Int
    OBVIOUS
  <2>2. QED BY <2>1, SumTake
<1>2. ASSUME NEW T \in P, NEW x \in S, x \notin T
      PROVE  T \cup {x} \in P
  <2>1. T \in SUBSET S /\ f[x] \in Nat /\ Sum(f, T) \in Nat /\ \A y \in S : f[y] \in Int
    OBVIOUS
  <2>2. Sum(f, T \cup {x}) = Sum(f, T) + f[x]
    BY <1>2, <2>1, SumAdd
  <2>3. T \cup {x} \in SUBSET S
    OBVIOUS
  <2>4. QED BY <2>1, <2>2, <2>3
<1>3. P \in SUBSET (SUBSET S)
  OBVIOUS
<1> HIDE DEF P
<1>4. S \in P
  BY <1>1, <1>2, <1>3, OneByOne
<1>5. QED BY <1>4 DEF P

(* The sum over two sets apart.                                            *)
LEMMA SumUnion ==
  ASSUME NEW f, NEW S, IsFiniteSet(S), \A x \in S : f[x] \in Int,
         NEW A \in SUBSET S, NEW B \in SUBSET S, A \cap B = {}
  PROVE  /\ Sum(f, A) \in Int /\ Sum(f, B) \in Int
         /\ Sum(f, A \cup B) = Sum(f, A) + Sum(f, B)
<1> DEFINE P == {T \in SUBSET B : Sum(f, A \cup T) = Sum(f, A) + Sum(f, T)}
<1>1. IsFiniteSet(B)
  BY FS_Subset
<1>2. Sum(f, A) \in Int /\ Sum(f, B) \in Int /\ Sum(f, {}) = 0
  BY SumTake
<1>3. {} \in P
  <2>1. A \cup {} = A
    OBVIOUS
  <2>2. QED BY <1>2, <2>1
<1>4. ASSUME NEW T \in P, NEW x \in B, x \notin T
      PROVE  T \cup {x} \in P
  <2> DEFINE both == A \cup T
             more == T \cup {x}
             whole == A \cup more
  <2>1. /\ T \in SUBSET S /\ both \in SUBSET S /\ x \in S /\ x \notin both
        /\ whole = both \cup {x} /\ f[x] \in Int /\ more \in SUBSET B
        /\ Sum(f, both) = Sum(f, A) + Sum(f, T)
    BY <1>4
  <2> HIDE DEF P, both, whole
  <2>2. Sum(f, T) \in Int /\ Sum(f, more) = Sum(f, T) + f[x]
    BY <1>4, <2>1, SumAdd
  <2>3. Sum(f, both \cup {x}) = Sum(f, both) + f[x]
    BY <2>1, SumAdd
  <2> HIDE DEF more
  <2>4. Sum(f, whole) = Sum(f, A) + Sum(f, more)
    BY <1>2, <2>1, <2>2, <2>3
  <2>5. QED BY <2>1, <2>4 DEF P, whole, more
<1>5. P \in SUBSET (SUBSET B)
  OBVIOUS
<1> HIDE DEF P
<1>6. B \in P
  BY <1>1, <1>3, <1>4, <1>5, OneByOne
<1>7. QED BY <1>2, <1>6 DEF P

(* ... so that any set cuts a sum in two.                                  *)
LEMMA SumSplit ==
  ASSUME NEW f, NEW S, IsFiniteSet(S), \A x \in S : f[x] \in Int, NEW h
  PROVE  /\ Sum(f, S) \in Int /\ Sum(f, S \cap h) \in Int /\ Sum(f, S \ h) \in Int
         /\ Sum(f, S) = Sum(f, S \cap h) + Sum(f, S \ h)
<1> DEFINE in == S \cap h
           out == S \ h
<1>1. in \in SUBSET S /\ out \in SUBSET S /\ in \cap out = {} /\ in \cup out = S
  OBVIOUS
<1> HIDE DEF in, out
<1>2. Sum(f, S) \in Int /\ Sum(f, in) \in Int /\ Sum(f, out) \in Int
  BY <1>1, SumTake
<1>3. Sum(f, in \cup out) = Sum(f, in) + Sum(f, out)
  BY <1>1, SumUnion
<1>4. Sum(f, S) = Sum(f, in) + Sum(f, out)
  BY <1>1, <1>3, Zenon
<1>5. QED BY <1>2, <1>4 DEF in, out

-----------------------------------------------------------------------------
(* The lanes and their weights.                                            *)

(* The lanes are finitely many numbers, and every one has a weight.        *)
LEMMA LanesFacts ==
  /\ IsFiniteSet(Lanes) /\ Lanes \subseteq Int /\ Cardinality(Lanes) \in Nat
  /\ Weights \in [Lanes -> Nat] /\ \A l \in Lanes : Weights[l] \in Nat /\ Weights[l] \in Int
<1>1. PICK n \in Nat : Weights \in [1 .. n -> Nat]
  BY WeightAssumption
<1>2. Lanes = 1 .. n
  BY <1>1 DEF Lanes
<1>3. IsFiniteSet(1 .. n)
  BY FS_Interval
<1>4. QED BY <1>1, <1>2, <1>3, FS_CardinalityType

(* A set of lanes weighs no more than all of them.                         *)
LEMMA WeightFacts ==
  ASSUME NEW h \in SUBSET Lanes
  PROVE  /\ WeightOf(h) = Sum(Weights, h) /\ WeightOf(h) \in Nat
         /\ WeightOf(Lanes) \in Nat /\ WeightOf(h) <= WeightOf(Lanes)
<1>1. \A g : WeightOf(g) = Sum(Weights, g)
  BY Zenon DEF WeightOf, Sum
<1>2. IsFiniteSet(h) /\ IsFiniteSet(Lanes \ h) /\ IsFiniteSet(Lanes)
  BY LanesFacts, FS_Subset
<1>3. \A l \in Lanes : Weights[l] \in Nat
  BY LanesFacts
<1>4. Sum(Weights, h) \in Nat /\ Sum(Weights, Lanes \ h) \in Nat
  BY <1>2, <1>3, SumPositive
<1>5. h \cup (Lanes \ h) = Lanes
  OBVIOUS
<1>6. Sum(Weights, h \cup (Lanes \ h)) = Sum(Weights, h) + Sum(Weights, Lanes \ h)
  <2> DEFINE rest == Lanes \ h
  <2>1. rest \in SUBSET Lanes /\ h \cap rest = {}
    OBVIOUS
  <2>2. \A l \in Lanes : Weights[l] \in Int
    BY LanesFacts
  <2> HIDE DEF rest
  <2>3. Sum(Weights, h \cup rest) = Sum(Weights, h) + Sum(Weights, rest)
    BY <1>2, <2>1, <2>2, SumUnion
  <2>4. QED BY <2>3 DEF rest
<1>7. Sum(Weights, Lanes) = Sum(Weights, h) + Sum(Weights, Lanes \ h)
  BY <1>5, <1>6, Zenon
<1>8. QED BY <1>1, <1>4, <1>7

(* The least lane of the largest accumulator is found.                     *)
LEMMA BestFound ==
  ASSUME NEW w \in [Lanes -> Int], NEW h \in SUBSET Lanes, h # {}
  PROVE  Best(w, h) \in h /\ \A l \in h : w[l] <= w[Best(w, h)]
<1> DEFINE Leads(b, T) == \A l \in T : w[b] > w[l] \/ (w[b] = w[l] /\ b <= l)
           P == {T \in SUBSET h : T = {} \/ \E b \in T : Leads(b, T)}
<1>1. {} \in P
  OBVIOUS
<1>2. ASSUME NEW T \in P, NEW x \in h, x \notin T PROVE T \cup {x} \in P
  <2>1. \A y \in h : w[y] \in Int /\ y \in Int
    BY LanesFacts
  <2>2. CASE T = {}
    <3>1. Leads(x, T \cup {x})
      BY <2>1, <2>2
    <3>2. QED BY <3>1
  <2>3. CASE T # {}
    <3>1. PICK b \in T : Leads(b, T)
      BY <2>3
    <3>2. CASE w[x] > w[b] \/ (w[x] = w[b] /\ x <= b)
      <4>1. Leads(x, T \cup {x})
        BY <2>1, <3>1, <3>2
      <4>2. QED BY <4>1
    <3>3. CASE ~(w[x] > w[b] \/ (w[x] = w[b] /\ x <= b))
      <4>1. Leads(b, T \cup {x})
        BY <2>1, <3>1, <3>3
      <4>2. QED BY <4>1
    <3>4. QED BY <3>2, <3>3
  <2>4. QED BY <2>2, <2>3
<1>3. P \in SUBSET (SUBSET h) /\ IsFiniteSet(h)
  BY LanesFacts, FS_Subset
<1> HIDE DEF P
<1>4. h \in P
  BY <1>1, <1>2, <1>3, OneByOne
<1>5. \E b \in h : Leads(b, h)
  BY <1>4 DEF P
<1>6. Best(w, h) \in h /\ Leads(Best(w, h), h)
  BY <1>5 DEF Best
<1>7. \A l \in h : w[l] \in Int /\ w[Best(w, h)] \in Int
  BY <1>6
<1>8. QED BY <1>6, <1>7

(* What a pick does to the sum over a set of lanes.                        *)
LEMMA CreditedSum ==
  ASSUME NEW w \in [Lanes -> Int], NEW h \in SUBSET Lanes, NEW S \in SUBSET Lanes
  PROVE  /\ Credited(w, h) \in [Lanes -> Int]
         /\ Sum(w, S) \in Int /\ Sum(Weights, S \cap h) \in Nat
         /\ Sum(Credited(w, h), S) = Sum(w, S) + Sum(Weights, S \cap h)
<1> DEFINE due == [l \in Lanes |-> IF l \in h THEN Weights[l] ELSE 0]
           in == S \cap h
           out == S \ h
<1>1. /\ Credited(w, h) \in [Lanes -> Int]
      /\ \A l \in S : w[l] \in Int /\ due[l] \in Int /\ Credited(w, h)[l] = w[l] + due[l]
      /\ \A l \in in : Weights[l] \in Nat /\ Weights[l] \in Int /\ due[l] = Weights[l]
      /\ \A l \in out : due[l] \in Nat /\ due[l] \in Int /\ due[l] <= 0
  BY LanesFacts DEF Credited
<1>2. in \in SUBSET S /\ out \in SUBSET S /\ in \cap out = {} /\ in \cup out = S
  OBVIOUS
<1> HIDE DEF due, in, out
<1>3. IsFiniteSet(S)
  BY LanesFacts, FS_Subset
<1>4. IsFiniteSet(in) /\ IsFiniteSet(out) /\ 0 \in Int
  BY <1>2, <1>3, FS_Subset
<1>5. Sum(Credited(w, h), S) = Sum(w, S) + Sum(due, S)
  BY <1>1, <1>2, <1>3, <1>4, SumPlus
<1>6. Sum(due, in) = Sum(Weights, in)
  BY <1>1, <1>2, <1>3, <1>4, SumSame
<1>7. Sum(due, out) = 0
  <2>1. Sum(due, out) <= 0 * Cardinality(out)
    BY <1>1, <1>2, <1>3, <1>4, SumBounded
  <2>2. Sum(due, out) \in Nat
    BY <1>1, <1>2, <1>3, <1>4, SumPositive
  <2>3. Cardinality(out) \in Nat
    BY <1>4, FS_CardinalityType
  <2>4. QED BY <2>1, <2>2, <2>3
<1>8. Sum(due, in \cup out) = Sum(due, in) + Sum(due, out)
  <2>1. \A l \in S : due[l] \in Int
    BY <1>1
  <2>2. QED BY <1>2, <1>3, <2>1, SumUnion
<1>9. Sum(Weights, in) \in Nat
  BY <1>1, <1>2, <1>3, <1>4, SumPositive
<1>10. Sum(w, S) \in Int
  BY <1>1, <1>2, <1>3, <1>4, SumTake
<1>11. Sum(due, S) = Sum(Weights, in)
  BY <1>2, <1>6, <1>7, <1>8, <1>9
<1>12. QED BY <1>1, <1>5, <1>9, <1>10, <1>11 DEF in

(* What the charge takes from the sum over a set of lanes.                 *)
LEMMA ChargedSum ==
  ASSUME NEW c \in [Lanes -> Int], NEW h \in SUBSET Lanes, NEW b \in h,
         NEW S \in SUBSET Lanes
  PROVE  /\ Charged(c, h, b) \in [Lanes -> Int]
         /\ Sum(c, S) \in Int
         /\ Sum(Charged(c, h, b), S) = IF b \in S THEN Sum(c, S) - WeightOf(h) ELSE Sum(c, S)
<1> DEFINE v == Charged(c, h, b)
<1>1. /\ WeightOf(h) \in Int /\ v \in [Lanes -> Int]
      /\ v[b] = c[b] - WeightOf(h) /\ c[b] \in Int
      /\ \A l \in Lanes \ {b} : v[l] = c[l]
  BY WeightFacts DEF Charged
<1> HIDE DEF v
<1>2. IsFiniteSet(S) /\ IsFiniteSet(S \ {b}) /\ S \ {b} \in SUBSET S
  BY LanesFacts, FS_Subset
<1>3. \A l \in S : v[l] \in Int /\ c[l] \in Int
  BY <1>1
<1>4. Sum(v, S) \in Int /\ Sum(c, S) \in Int /\ Sum(v, S \ {b}) \in Int /\ Sum(c, S \ {b}) \in Int
  BY <1>2, <1>3, SumTake
<1>5. Sum(v, S \ {b}) = Sum(c, S \ {b})
  <2>1. \A l \in S \ {b} : c[l] \in Int /\ v[l] = c[l]
    BY <1>1, <1>3
  <2>2. QED BY <1>2, <2>1, SumSame
<1>6. CASE b \in S
  <2>1. Sum(v, S) = v[b] + Sum(v, S \ {b}) /\ Sum(c, S) = c[b] + Sum(c, S \ {b})
    BY <1>2, <1>3, <1>6, SumTake
  <2>2. QED BY <1>1, <1>4, <1>5, <1>6, <2>1 DEF v
<1>7. CASE b \notin S
  <2>1. S \ {b} = S
    BY <1>7
  <2>2. Sum(v, S) = Sum(c, S)
    BY <1>5, <2>1, Zenon
  <2>3. QED BY <1>1, <1>4, <1>7, <2>2 DEF v
<1>8. QED BY <1>6, <1>7

(* The accumulators of a set of lanes after a pick of lane b among h.       *)
LEMMA PickedSum ==
  ASSUME NEW w \in [Lanes -> Int], NEW h \in SUBSET Lanes, NEW b \in h,
         NEW S \in SUBSET Lanes
  PROVE  /\ Charged(Credited(w, h), h, b) \in [Lanes -> Int]
         /\ Sum(w, S) \in Int /\ Sum(Weights, S \cap h) \in Nat
         /\ Sum(Charged(Credited(w, h), h, b), S)
              = (Sum(w, S) + Sum(Weights, S \cap h)) - (IF b \in S THEN WeightOf(h) ELSE 0)
<1> DEFINE c == Credited(w, h)
<1>1. /\ c \in [Lanes -> Int]
      /\ Sum(w, S) \in Int /\ Sum(Weights, S \cap h) \in Nat
      /\ Sum(c, S) = Sum(w, S) + Sum(Weights, S \cap h)
  BY CreditedSum
<1> HIDE DEF c
<1>2. /\ Charged(c, h, b) \in [Lanes -> Int]
      /\ Sum(c, S) \in Int
      /\ Sum(Charged(c, h, b), S) = IF b \in S THEN Sum(c, S) - WeightOf(h) ELSE Sum(c, S)
  BY <1>1, ChargedSum
<1>3. Sum(Charged(c, h, b), S) = Sum(c, S) - (IF b \in S THEN WeightOf(h) ELSE 0)
  BY <1>2
<1>4. QED BY <1>1, <1>2, <1>3 DEF c

(* The accumulators of a set of lanes, cut in two.                         *)
LEMMA CreditSplit ==
  ASSUME NEW w \in [Lanes -> Int], NEW S \in SUBSET Lanes, NEW h
  PROVE  /\ Sum(w, S \cap h) \in Int /\ Sum(w, S \ h) \in Int
         /\ Sum(w, S) = Sum(w, S \cap h) + Sum(w, S \ h)
<1>1. IsFiniteSet(S) /\ \A l \in S : w[l] \in Int
  BY LanesFacts, FS_Subset
<1>2. Sum(w, S \cap h) \in Int /\ Sum(w, S \ h) \in Int
  BY <1>1, SumTake
<1>3. Sum(w, S) = Sum(w, S \cap h) + Sum(w, S \ h)
  BY <1>1, SumSplit
<1>4. QED BY <1>2, <1>3

(* What a healthy set weighs, cut in two.                                  *)
LEMMA WeightSplit ==
  ASSUME NEW h \in SUBSET Lanes, NEW S \in SUBSET Lanes
  PROVE  /\ Sum(Weights, S \cap h) \in Nat /\ Sum(Weights, h \ S) \in Nat
         /\ WeightOf(h) = Sum(Weights, S \cap h) + Sum(Weights, h \ S)
<1>1. IsFiniteSet(h) /\ IsFiniteSet(h \ S) /\ IsFiniteSet(h \cap S) /\ h \cap S = S \cap h
  BY LanesFacts, FS_Subset
<1>2. \A l \in h : Weights[l] \in Int /\ Weights[l] \in Nat
  BY LanesFacts
<1>3. Weights \in [Lanes -> Int]
  BY LanesFacts
<1>4. Sum(Weights, h \ S) \in Nat /\ Sum(Weights, h \cap S) \in Nat
  BY <1>1, <1>2, SumPositive
<1>5. Sum(Weights, h) = Sum(Weights, h \cap S) + Sum(Weights, h \ S)
  BY <1>3, CreditSplit
<1>6. WeightOf(h) = Sum(Weights, h)
  BY WeightFacts
<1>7. QED BY <1>1, <1>4, <1>5, <1>6

(* A lane more of them.                                                    *)
LEMMA WeightOfMore ==
  ASSUME NEW T \in SUBSET Lanes, NEW b \in Lanes, b \notin T
  PROVE  Sum(Weights, T) + Weights[b] <= WeightOf(Lanes)
<1> DEFINE more == T \cup {b}
<1>1. IsFiniteSet(Lanes) /\ \A l \in Lanes : Weights[l] \in Int
  BY LanesFacts
<1>2. Sum(Weights, more) = Sum(Weights, T) + Weights[b]
  BY <1>1, SumAdd
<1>3. more \in SUBSET Lanes
  OBVIOUS
<1> HIDE DEF more
<1>4. WeightOf(more) = Sum(Weights, more) /\ WeightOf(more) <= WeightOf(Lanes)
  BY <1>3, WeightFacts
<1>5. QED BY <1>2, <1>4

-----------------------------------------------------------------------------
(* How far k lanes together may be from rest, twice: the more lanes, the   *)
(* less each.                                                              *)
Room(k) == WeightOf(Lanes) * (k * (2 * Cardinality(Lanes) - k - 1))

Leeway(w) ==
  \A S \in SUBSET Lanes :
    /\ 2 * Sum(w, S) <= Room(Cardinality(S))
    /\ -Room(Cardinality(S)) <= 2 * Sum(w, S)

(* The room shrinks with every lane by the weight of the pool at least.    *)
LEMMA RoomIsConcave ==
  ASSUME NEW k \in Nat, NEW m \in Nat, m > 0
  PROVE  LET W == WeightOf(Lanes)
         IN  /\ Room(k - m) + m * (Room(k + 1) + 2 * W) <= (m + 1) * Room(k)
             /\ m * Room(k - 1) + Room(k + m) + 2 * (m * W) <= (m + 1) * Room(k)
             /\ Room(k - m) \in Int /\ Room(k - 1) \in Int /\ Room(k) \in Int
             /\ Room(k + 1) \in Int /\ Room(k + m) \in Int
<1> DEFINE W == WeightOf(Lanes)
           N == Cardinality(Lanes)
<1>1. W \in Nat /\ N \in Nat
  BY WeightFacts, LanesFacts
<1> HIDE DEF W, N
<1>2. \A i \in Int : Room(i) \in Int /\ Room(i) = W * (i * (2 * N - i - 1))
  BY <1>1 DEF Room, W, N
<1>3. k - m \in Int /\ k - 1 \in Int /\ k + 1 \in Int /\ k + m \in Int /\ k \in Int
  OBVIOUS
<1>4. m * (m - 1) \in Nat
  OBVIOUS
<1>5. W * (m * (m - 1)) \in Nat
  BY <1>1, <1>4
<1> DEFINE r(i) == W * (i * (2 * N - i - 1))
<1>6. (m + 1) * r(k) = r(k - m) + m * (r(k + 1) + 2 * W) + W * (m * (m - 1))
  BY <1>1
<1>7. (m + 1) * r(k) = m * r(k - 1) + r(k + m) + 2 * (m * W) + W * (m * (m - 1))
  BY <1>1
<1> HIDE DEF r
<1>8. /\ r(k - m) = Room(k - m) /\ r(k - 1) = Room(k - 1) /\ r(k) = Room(k)
      /\ r(k + 1) = Room(k + 1) /\ r(k + m) = Room(k + m)
  BY <1>2, <1>3 DEF r
<1>9. Room(k - m) + m * (Room(k + 1) + 2 * W) <= (m + 1) * Room(k)
  <2> DEFINE sum == Room(k - m) + m * (Room(k + 1) + 2 * W)
  <2>1. (m + 1) * Room(k) = sum + W * (m * (m - 1))
    BY <1>6, <1>8, Zenon
  <2>2. sum \in Int
    BY <1>1, <1>2, <1>3
  <2> HIDE DEF sum
  <2>3. sum <= (m + 1) * Room(k)
    BY <1>5, <2>1, <2>2
  <2>4. QED BY <2>3 DEF sum
<1>10. m * Room(k - 1) + Room(k + m) + 2 * (m * W) <= (m + 1) * Room(k)
  <2> DEFINE sum == m * Room(k - 1) + Room(k + m) + 2 * (m * W)
  <2>1. (m + 1) * Room(k) = sum + W * (m * (m - 1))
    BY <1>7, <1>8, Zenon
  <2>2. sum \in Int
    BY <1>1, <1>2, <1>3
  <2> HIDE DEF sum
  <2>3. sum <= (m + 1) * Room(k)
    BY <1>5, <2>1, <2>2
  <2>4. QED BY <2>3 DEF sum
<1>11. QED BY <1>2, <1>3, <1>9, <1>10 DEF W

(* Of m numbers that are at most c on average, and c.                      *)
LEMMA StaysBelow ==
  ASSUME NEW x \in Int, NEW u \in Int, NEW c \in Int, NEW m \in Nat, NEW W \in Nat,
         NEW lo \in Int, NEW hi \in Int, NEW mid \in Int,
         lo + m * (hi + 2 * W) <= (m + 1) * mid,
         2 * x <= lo, u <= c * m, 2 * (x + u + c) <= hi + 2 * W
  PROVE  2 * (x + u) <= mid
<1>1. m * (2 * (x + u + c)) <= m * (hi + 2 * W)
  OBVIOUS
<1>2. (m + 1) * (2 * (x + u)) <= lo + m * (hi + 2 * W)
  BY <1>1
<1>3. (m + 1) * (2 * (x + u)) <= (m + 1) * mid
  BY <1>2
<1>4. QED BY <1>3

(* The same from below, with lane b of credit a + e charged for the p      *)
(* numbers that follow it.                                                 *)
LEMMA StaysAbove ==
  ASSUME NEW y \in Int, NEW a \in Int, NEW e \in Int, NEW u \in Int, NEW d \in Int,
         NEW p \in Nat, NEW W \in Nat,
         NEW lo \in Int, NEW hi \in Int, NEW mid \in Int,
         p * lo + hi + 2 * (p * W) <= (p + 1) * mid,
         -lo <= 2 * y, -hi <= 2 * (y + a + u - d), u <= (a + e) * p, e + d <= W
  PROVE  -mid <= 2 * (y + a - d)
<1>1. p * (e + d) <= p * W
  OBVIOUS
<1>2. p * (-lo) <= p * (2 * y)
  OBVIOUS
<1>3. (p + 1) * (2 * (y + a - d)) = p * (2 * y) + 2 * (y + a + u - d) - 2 * u
                                      + 2 * ((a + e) * p) - 2 * (p * (e + d))
  OBVIOUS
<1>4. (p + 1) * (2 * (y + a - d)) >= p * (-lo) - hi - 2 * (p * W)
  BY <1>1, <1>2, <1>3
<1>5. p * (-lo) = -(p * lo) /\ (p + 1) * (-mid) = -((p + 1) * mid)
  OBVIOUS
<1>6. (p + 1) * (-mid) <= (p + 1) * (2 * (y + a - d))
  BY <1>4, <1>5
<1>7. QED BY <1>6

-----------------------------------------------------------------------------
(* A pick leaves every set of lanes within its room: one that the picked   *)
(* lane leads cannot rise above it, one that it belongs to falls no        *)
(* further than what it leads.                                             *)
LEMMA PickKeepsBelow ==
  ASSUME NEW w \in [Lanes -> Int], Leeway(w),
         NEW h \in SUBSET Lanes, NEW b \in h,
         \A l \in h : Credited(w, h)[l] <= Credited(w, h)[b],
         NEW S \in SUBSET Lanes
  PROVE  2 * Sum(Charged(Credited(w, h), h, b), S) <= Room(Cardinality(S))
<1> DEFINE c == Credited(w, h)
           v == Charged(c, h, b)
           in == S \cap h
           out == S \ h
           more == S \cup {b}
           k == Cardinality(S)
           m == Cardinality(in)
<1>1. /\ c \in [Lanes -> Int] /\ Sum(w, S) \in Int /\ Sum(Weights, in) \in Nat
  BY CreditedSum
<1>2. Sum(v, S) = (Sum(w, S) + Sum(Weights, in)) - (IF b \in S THEN WeightOf(h) ELSE 0)
  BY PickedSum
<1>3. /\ in \in SUBSET Lanes /\ out \in SUBSET Lanes /\ more \in SUBSET Lanes
      /\ in \in SUBSET S /\ out \in SUBSET S
      /\ in \cap out = {} /\ in \cup out = S /\ b \in Lanes
  OBVIOUS
<1>4. IsFiniteSet(S) /\ IsFiniteSet(in) /\ IsFiniteSet(out)
  BY LanesFacts, FS_Subset
<1>5. CASE b \in S
  <2>1. WeightOf(h) = Sum(Weights, h) /\ WeightOf(h) \in Nat
    BY WeightFacts
  <2>2. Sum(Weights, in) <= WeightOf(h)
    <3>1. Sum(Weights, h \ S) \in Nat /\ WeightOf(h) = Sum(Weights, in) + Sum(Weights, h \ S)
      BY WeightSplit
    <3>2. QED BY <1>1, <2>1, <3>1
  <2>3. 2 * Sum(w, S) <= Room(k)
    BY DEF Leeway
  <2>4. Sum(v, S) <= Sum(w, S) /\ Sum(v, S) \in Int
    BY <1>1, <1>2, <1>5, <2>1, <2>2
  <2>5. Room(k) \in Int
    BY <1>4, WeightFacts, LanesFacts, FS_CardinalityType DEF Room
  <2> HIDE DEF v, k
  <2>6. 2 * Sum(v, S) <= Room(k)
    BY <1>1, <2>3, <2>4, <2>5
  <2>7. QED BY <2>6 DEF v, c, k
<1>6. CASE b \notin S /\ in = {}
  <2>1. Sum(Weights, {}) = 0
    BY FS_EmptySet, SumEquation
  <2>2. Sum(v, S) = Sum(w, S)
    BY <1>1, <1>2, <1>6, <2>1
  <2>3. QED BY <2>2 DEF Leeway
<1>7. CASE b \notin S /\ in # {}
  <2> DEFINE x == Sum(w, out)
             u == Sum(c, in)
             W == WeightOf(Lanes)
  <2>1. /\ k \in Nat /\ m \in Nat /\ m > 0 /\ Cardinality(out) = k - m
        /\ Cardinality(more) = k + 1
    <3>1. k \in Nat /\ m \in Nat /\ (m = 0 <=> in = {})
      BY <1>4, FS_CardinalityType, FS_EmptySet
    <3>2. Cardinality(S \ h) = Cardinality(S) - Cardinality(S \cap h)
      BY <1>4, FS_Difference
    <3>3. Cardinality(more) = k + 1
      BY <1>4, <1>7, FS_AddElement
    <3>4. QED BY <1>7, <3>1, <3>2, <3>3
  <2>2. /\ x \in Int /\ Sum(w, in) \in Int /\ Sum(w, S) = Sum(w, in) + x
    BY CreditSplit
  <2>3. u = Sum(w, in) + Sum(Weights, in) /\ u \in Int
    <3>1. in \cap h = in
      OBVIOUS
    <3>2. Sum(c, in) = Sum(w, in) + Sum(Weights, in \cap h)
      BY <1>3, CreditedSum
    <3>3. Sum(c, in) = Sum(w, in) + Sum(Weights, in)
      BY <3>1, <3>2, Zenon
    <3> HIDE DEF in, c
    <3>4. QED BY <1>1, <2>2, <3>3
  <2>4. u <= c[b] * m
    <3>1. c[b] \in Int /\ \A l \in in : c[l] \in Int /\ c[l] <= c[b]
      BY <1>1
    <3> HIDE DEF c, in
    <3>2. QED BY <1>4, <3>1, SumBounded
  <2>5. c[b] = w[b] + Weights[b] /\ w[b] \in Int /\ Weights[b] \in Nat
    BY <1>3, LanesFacts DEF Credited
  <2>6. Sum(w, more) = Sum(w, S) + w[b]
    <3>1. \A l \in Lanes : w[l] \in Int
      OBVIOUS
    <3>2. IsFiniteSet(Lanes)
      BY LanesFacts
    <3>3. QED BY <1>3, <1>7, <3>1, <3>2, SumAdd
  <2>7. Sum(Weights, in) + Weights[b] <= W /\ W \in Nat
    <3>1. b \notin in
      BY <1>7
    <3> HIDE DEF in
    <3>2. QED BY <1>3, <3>1, WeightOfMore, WeightFacts
  <2>8. 2 * x <= Room(k - m) /\ 2 * Sum(w, more) <= Room(k + 1)
    <3>1. 2 * Sum(w, out) <= Room(Cardinality(out)) /\ 2 * Sum(w, more) <= Room(Cardinality(more))
      BY <1>3 DEF Leeway
    <3>2. QED BY <2>1, <3>1
  <2>9. /\ Room(k - m) + m * (Room(k + 1) + 2 * W) <= (m + 1) * Room(k)
        /\ Room(k - m) \in Int /\ Room(k) \in Int /\ Room(k + 1) \in Int
    BY <2>1, RoomIsConcave
  <2>10. c[b] \in Int /\ Sum(v, S) = x + u
    BY <1>1, <1>2, <1>7, <2>2, <2>3, <2>5
  <2> HIDE DEF x, u, W, c, v, in, out, more, k, m
  <2>11. 2 * (x + u + c[b]) <= Room(k + 1) + 2 * W
    <3>1. x + u + c[b] = Sum(w, more) + (Sum(Weights, in) + Weights[b])
      BY <1>1, <2>2, <2>3, <2>5, <2>6
    <3>2. Sum(w, more) \in Int
      BY <1>1, <2>5, <2>6
    <3>3. QED BY <1>1, <2>5, <2>7, <2>8, <2>9, <3>1, <3>2
  <2>12. 2 * (x + u) <= Room(k)
    BY <2>1, <2>2, <2>3, <2>4, <2>7, <2>8, <2>9, <2>10, <2>11, StaysBelow
  <2>13. QED BY <2>10, <2>12 DEF v, c, k
<1>8. QED BY <1>5, <1>6, <1>7

(* The picked lane pays for what the others of its healthy set were        *)
(* credited: it can afford to, since it led them.                          *)
LEMMA PickKeepsAbove ==
  ASSUME NEW w \in [Lanes -> Int], Leeway(w),
         NEW h \in SUBSET Lanes, NEW b \in h,
         \A l \in h : Credited(w, h)[l] <= Credited(w, h)[b],
         NEW S \in SUBSET Lanes
  PROVE  -Room(Cardinality(S)) <= 2 * Sum(Charged(Credited(w, h), h, b), S)
<1> DEFINE c == Credited(w, h)
           v == Charged(c, h, b)
           in == S \cap h
           D == h \ S
           k == Cardinality(S)
           p == Cardinality(D)
           d == Sum(Weights, D)
<1>1. Sum(w, S) \in Int /\ Sum(Weights, in) \in Nat
  BY CreditedSum
<1>2. Sum(v, S) = (Sum(w, S) + Sum(Weights, in)) - (IF b \in S THEN WeightOf(h) ELSE 0)
  BY PickedSum
<1>3. d \in Nat /\ WeightOf(h) = Sum(Weights, in) + d
  BY WeightSplit
<1>4. -Room(k) <= 2 * Sum(w, S)
  BY DEF Leeway
<1>5. IsFiniteSet(S) /\ IsFiniteSet(D) /\ D \in SUBSET Lanes /\ b \in Lanes
  BY LanesFacts, FS_Subset
<1>6. k \in Nat /\ p \in Nat /\ (p = 0 <=> D = {})
  BY <1>5, FS_CardinalityType, FS_EmptySet
<1>7. Room(k) \in Int
  BY <1>6, WeightFacts, LanesFacts DEF Room
<1>8. CASE b \notin S
  <2> HIDE DEF v, in, k
  <2>1. Sum(v, S) = Sum(w, S) + Sum(Weights, in)
    BY <1>1, <1>2, <1>8
  <2>2. -Room(k) <= 2 * Sum(v, S)
    BY <1>1, <1>4, <1>7, <2>1
  <2>3. QED BY <2>2 DEF v, k
<1>9. CASE b \in S /\ D = {}
  <2>1. d = 0
    BY <1>9, FS_EmptySet, SumEquation
  <2> HIDE DEF v, in, k, d
  <2>2. Sum(v, S) = Sum(w, S)
    BY <1>1, <1>2, <1>3, <1>9, <2>1
  <2>3. -Room(k) <= 2 * Sum(v, S)
    BY <1>4, <2>2, Zenon
  <2>4. QED BY <2>3 DEF v, k
<1>10. CASE b \in S /\ D # {}
  <2> DEFINE others == S \ {b}
             all == S \cup D
             y == Sum(w, others)
             u == Sum(c, D)
             W == WeightOf(Lanes)
  <2>1. w[b] \in Int /\ Weights[b] \in Nat /\ c[b] = w[b] + Weights[b]
    BY <1>5, LanesFacts DEF Credited
  <2>2. /\ others \in SUBSET Lanes /\ all \in SUBSET Lanes
        /\ Cardinality(others) = k - 1 /\ Cardinality(all) = k + p
    <3>1. Cardinality(others) = k - 1
      BY <1>5, <1>10, FS_RemoveElement
    <3>2. Cardinality(all) = Cardinality(S) + Cardinality(D) - Cardinality(S \cap D)
      BY <1>5, FS_Union
    <3>3. S \cap D = {}
      OBVIOUS
    <3>4. Cardinality(S \cap D) = 0
      BY <3>3, FS_EmptySet
    <3>5. QED BY <1>5, <1>6, <3>1, <3>2, <3>4
  <2>3. \A l \in Lanes : w[l] \in Int
    OBVIOUS
  <2>4. y \in Int /\ Sum(w, S) = y + w[b]
    <3>1. others \in SUBSET Lanes /\ b \notin others /\ others \cup {b} = S
      BY <1>10
    <3> HIDE DEF others
    <3>2. Sum(w, others) \in Int /\ Sum(w, others \cup {b}) = Sum(w, others) + w[b]
      BY <1>5, <2>3, <3>1, LanesFacts, SumAdd
    <3>3. QED BY <3>1, <3>2
  <2>5. u = Sum(w, D) + d /\ u \in Int /\ Sum(w, D) \in Int
    <3>1. D \cap h = D
      OBVIOUS
    <3>2. Sum(w, D) \in Int /\ Sum(c, D) = Sum(w, D) + Sum(Weights, D \cap h)
      BY <1>5, CreditedSum
    <3>3. Sum(c, D) = Sum(w, D) + Sum(Weights, D)
      BY <3>1, <3>2, Zenon
    <3> HIDE DEF D, c
    <3>4. QED BY <1>3, <3>2, <3>3
  <2>6. u <= c[b] * p
    <3>1. c \in [Lanes -> Int]
      BY CreditedSum
    <3>2. c[b] \in Int /\ \A l \in D : c[l] \in Int /\ c[l] <= c[b]
      BY <1>5, <3>1
    <3> HIDE DEF c, D
    <3>3. QED BY <1>5, <3>2, SumBounded
  <2>7. Sum(w, all) = Sum(w, S) + Sum(w, D)
    <3>1. S \cap D = {}
      OBVIOUS
    <3>2. IsFiniteSet(Lanes)
      BY LanesFacts
    <3> HIDE DEF D
    <3>3. Sum(w, S \cup D) = Sum(w, S) + Sum(w, D)
      BY <1>5, <2>3, <3>1, <3>2, SumUnion
    <3>4. QED BY <3>3
  <2>8. Weights[b] + d <= W /\ W \in Nat
    <3>1. b \notin D
      BY <1>10
    <3> HIDE DEF D
    <3>2. Sum(Weights, D) + Weights[b] <= W /\ W \in Nat
      BY <1>5, <3>1, WeightOfMore, WeightFacts
    <3>3. QED BY <1>3, <2>1, <3>2
  <2>9. -Room(k - 1) <= 2 * y /\ -Room(k + p) <= 2 * Sum(w, all)
    <3>1. -Room(Cardinality(others)) <= 2 * y /\ -Room(Cardinality(all)) <= 2 * Sum(w, all)
      BY <2>2 DEF Leeway
    <3>2. QED BY <2>2, <3>1
  <2>10. /\ p * Room(k - 1) + Room(k + p) + 2 * (p * W) <= (p + 1) * Room(k)
         /\ Room(k - 1) \in Int /\ Room(k + p) \in Int
    <3>1. k \in Nat /\ p \in Nat /\ p > 0
      BY <1>6, <1>10
    <3> HIDE DEF k, p
    <3>2. QED BY <3>1, RoomIsConcave
  <2> HIDE DEF y, u, W, c, v, in, D, others, all, k, p, d
  <2>11. -Room(k + p) <= 2 * (y + w[b] + u - d)
    BY <1>1, <1>3, <2>1, <2>4, <2>5, <2>7, <2>9
  <2>12. Sum(v, S) = y + w[b] - d
    BY <1>1, <1>2, <1>3, <1>10, <2>1, <2>4
  <2>13. u <= (w[b] + Weights[b]) * p
    BY <2>1, <2>6, Zenon
  <2>14. -Room(k) <= 2 * (y + w[b] - d)
    <3>1. y \in Int /\ w[b] \in Int /\ Weights[b] \in Int /\ u \in Int /\ d \in Int
      BY <1>3, <2>1, <2>4, <2>5
    <3>2. p \in Nat /\ W \in Nat
      BY <1>6, <2>8
    <3>3. Room(k - 1) \in Int /\ Room(k + p) \in Int /\ Room(k) \in Int
      BY <1>7, <2>10
    <3>4. QED BY <2>8, <2>9, <2>10, <2>11, <2>13, <3>1, <3>2, <3>3, StaysAbove
  <2>15. -Room(k) <= 2 * Sum(v, S)
    BY <2>12, <2>14, Zenon
  <2>16. QED BY <2>15 DEF v, c, k
<1>11. QED BY <1>8, <1>9, <1>10

(* The pick as the code makes it: the best of the credited lanes is        *)
(* charged.                                                                *)
LEMMA PickKeepsLeeway ==
  ASSUME NEW w \in [Lanes -> Int], Leeway(w), NEW h \in SUBSET Lanes, h # {}
  PROVE  Leeway(Charged(Credited(w, h), h, Best(Credited(w, h), h)))
<1> DEFINE c == Credited(w, h)
           b == Best(c, h)
<1>1. c \in [Lanes -> Int]
  BY CreditedSum
<1>2. b \in h /\ \A l \in h : c[l] <= c[b]
  <2> HIDE DEF c
  <2>1. QED BY <1>1, BestFound
<1> HIDE DEF b
<1>3. ASSUME NEW S \in SUBSET Lanes
      PROVE  /\ 2 * Sum(Charged(c, h, b), S) <= Room(Cardinality(S))
             /\ -Room(Cardinality(S)) <= 2 * Sum(Charged(c, h, b), S)
  BY <1>2, PickKeepsBelow, PickKeepsAbove
<1>4. Leeway(Charged(c, h, b))
  BY <1>3 DEF Leeway
<1>5. QED BY <1>4 DEF b

(* A recovered lane starts from zero: the others keep what they had, and   *)
(* more lanes have more room.                                              *)
LEMMA ResetKeepsLeeway ==
  ASSUME NEW w \in [Lanes -> Int], Leeway(w), NEW l \in Lanes
  PROVE  Leeway([w EXCEPT ![l] = 0])
<1> DEFINE v == [w EXCEPT ![l] = 0]
<1> SUFFICES ASSUME NEW S \in SUBSET Lanes
             PROVE  /\ 2 * Sum(v, S) <= Room(Cardinality(S))
                    /\ -Room(Cardinality(S)) <= 2 * Sum(v, S)
  BY DEF Leeway
<1> DEFINE rest == S \ {l}
           k == Cardinality(S)
<1>1. /\ v[l] = 0 /\ \A x \in S : v[x] \in Int
      /\ \A x \in rest : w[x] \in Int /\ v[x] = w[x]
  OBVIOUS
<1>2. rest \in SUBSET Lanes /\ IsFiniteSet(rest) /\ IsFiniteSet(S)
  BY LanesFacts, FS_Subset
<1> HIDE DEF v
<1>3. Sum(v, rest) = Sum(w, rest)
  BY <1>1, <1>2, SumSame
<1>4. 2 * Sum(w, rest) <= Room(Cardinality(rest)) /\ -Room(Cardinality(rest)) <= 2 * Sum(w, rest)
  BY <1>2 DEF Leeway
<1>5. Sum(w, rest) \in Int
  BY <1>2, CreditedSum
<1>6. CASE l \notin S
  <2>1. rest = S
    BY <1>6
  <2>2. QED BY <1>3, <1>4, <2>1
<1>7. CASE l \in S
  <2>1. Sum(v, S) = v[l] + Sum(v, rest)
    BY <1>1, <1>2, <1>7, SumTake
  <2>2. Sum(v, S) = Sum(w, rest)
    BY <1>1, <1>3, <1>5, <2>1
  <2>3. Cardinality(rest) = k - 1 /\ k \in Nat /\ k <= Cardinality(Lanes)
    BY <1>2, <1>7, LanesFacts, FS_RemoveElement, FS_CardinalityType, FS_Subset
  <2>4. Room(k - 1) <= Room(k) /\ Room(k - 1) \in Int /\ Room(k) \in Int
    <3> DEFINE W == WeightOf(Lanes)
               N == Cardinality(Lanes)
    <3>1. W \in Nat /\ N \in Nat
      BY WeightFacts, LanesFacts
    <3>2. /\ Room(k) = W * (k * (2 * N - k - 1))
          /\ Room(k - 1) = W * ((k - 1) * (2 * N - (k - 1) - 1))
      BY DEF Room
    <3> HIDE DEF W, N, k
    <3>3. W * (2 * (N - k)) \in Nat
      <4>1. 2 * (N - k) \in Nat
        BY <2>3, <3>1 DEF N
      <4>2. QED BY <3>1, <4>1
    <3>4. W * (k * (2 * N - k - 1)) = W * ((k - 1) * (2 * N - (k - 1) - 1)) + W * (2 * (N - k))
      BY <2>3, <3>1
    <3>5. W * ((k - 1) * (2 * N - (k - 1) - 1)) \in Int
      BY <2>3, <3>1
    <3>6. QED BY <3>2, <3>3, <3>4, <3>5
  <2> HIDE DEF rest, k
  <2>5. 2 * Sum(v, S) <= Room(k) /\ -Room(k) <= 2 * Sum(v, S)
    BY <1>4, <1>5, <2>2, <2>3, <2>4
  <2>6. QED BY <2>5 DEF k
<1>8. QED BY <1>6, <1>7

(* A pool at rest.                                                         *)
LEMMA RestHasLeeway == Leeway(Zeroed)
<1> SUFFICES ASSUME NEW S \in SUBSET Lanes
             PROVE  /\ 2 * Sum(Zeroed, S) <= Room(Cardinality(S))
                    /\ -Room(Cardinality(S)) <= 2 * Sum(Zeroed, S)
  BY DEF Leeway
<1> DEFINE k == Cardinality(S)
           N == Cardinality(Lanes)
           W == WeightOf(Lanes)
<1>1. IsFiniteSet(S) /\ \A l \in S : Zeroed[l] \in Nat /\ Zeroed[l] \in Int /\ Zeroed[l] <= 0
  <2>1. IsFiniteSet(S)
    BY LanesFacts, FS_Subset
  <2>2. \A l \in S : Zeroed[l] = 0
    BY DEF Zeroed
  <2>3. QED BY <2>1, <2>2
<1>2. Sum(Zeroed, S) \in Nat /\ Sum(Zeroed, S) <= 0 * k
  <2>1. 0 \in Int
    OBVIOUS
  <2>2. QED BY <1>1, <2>1, SumPositive, SumBounded
<1>3. k \in Nat /\ k <= N /\ N \in Nat /\ W \in Nat
  BY <1>1, LanesFacts, WeightFacts, FS_CardinalityType, FS_Subset
<1>4. Room(k) \in Nat
  <2> HIDE DEF k, N, W
  <2>1. k = 0 \/ 2 * N - k - 1 \in Nat
    BY <1>3
  <2>2. k * (2 * N - k - 1) \in Nat
    BY <1>3, <2>1
  <2>3. QED BY <1>3, <2>2 DEF Room, W, N
<1>5. Sum(Zeroed, S) = 0
  <2> HIDE DEF k
  <2>1. QED BY <1>2, <1>3
<1>6. 2 * Sum(Zeroed, S) <= Room(k) /\ -Room(k) <= 2 * Sum(Zeroed, S)
  <2> HIDE DEF k
  <2>1. QED BY <1>4, <1>5
<1>7. QED BY <1>6

(* One lane alone: the room of CreditBounded.                              *)
LEMMA LeewayBoundsCredit ==
  ASSUME NEW w \in [Lanes -> Int], Leeway(w), NEW l \in Lanes
  PROVE  LET bound == (Cardinality(Lanes) - 1) * WeightOf(Lanes)
         IN  -bound <= w[l] /\ w[l] <= bound
<1> DEFINE N == Cardinality(Lanes)
           W == WeightOf(Lanes)
           one == {l}
<1>1. N \in Nat /\ W \in Nat /\ w[l] \in Int
  BY LanesFacts, WeightFacts
<1>2. one \in SUBSET Lanes /\ IsFiniteSet(one) /\ Cardinality(one) = 1
  BY FS_Singleton
<1>3. Sum(w, one) = w[l]
  <2>1. \A x \in one : w[x] \in Int
    OBVIOUS
  <2>2. Sum(w, one) = w[l] + Sum(w, one \ {l}) /\ Sum(w, {}) = 0
    BY <1>2, <2>1, SumTake
  <2>3. one \ {l} = {}
    OBVIOUS
  <2> HIDE DEF one
  <2>4. QED BY <1>1, <2>2, <2>3
<1>4. 2 * w[l] <= Room(1) /\ -Room(1) <= 2 * w[l]
  BY <1>2, <1>3 DEF Leeway
<1>5. Room(1) = W * (1 * (2 * N - 1 - 1))
  BY DEF Room
<1> HIDE DEF N, W
<1>6. Room(1) = 2 * ((N - 1) * W) /\ (N - 1) * W \in Int
  BY <1>1, <1>5
<1>7. -((N - 1) * W) <= w[l] /\ w[l] <= (N - 1) * W
  BY <1>1, <1>4, <1>6
<1>8. QED BY <1>7 DEF N, W

-----------------------------------------------------------------------------
(* What a turn in progress says of the accumulators: after n picks each    *)
(* lane was credited its weight n times and paid the weight of the set for *)
(* each of its own, and none is a whole round behind.                      *)
Taken(t) == Sum(t.picks, t.over)

Fair(t, w) ==
  /\ Taken(t) <= WeightOf(t.over)
  /\ t.rested =>
       /\ Sum(w, t.over) = 0
       /\ \A l \in t.over : /\ w[l] = Taken(t) * Weights[l] - t.picks[l] * WeightOf(t.over)
                           /\ -WeightOf(t.over) < w[l]

\* The lanes a filter leaves have a weight.
HealthyWeigh == \A s \in Selectors : \A l \in healthy[s] : Weights[l] # 0

(* A set of lanes of which one has a weight.                               *)
LEMMA SomeWeight ==
  ASSUME NEW h \in SUBSET Lanes, NEW l \in h, Weights[l] # 0
  PROVE  WeightOf(h) > 0
<1>1. IsFiniteSet(h) /\ IsFiniteSet(h \ {l}) /\ l \in Lanes
  BY LanesFacts, FS_Subset
<1>2. \A x \in h : Weights[x] \in Int
  BY LanesFacts
<1>3. \A x \in h \ {l} : Weights[x] \in Nat
  BY LanesFacts
<1>4. Sum(Weights, h) = Weights[l] + Sum(Weights, h \ {l})
  BY <1>1, <1>2, SumTake
<1>5. Sum(Weights, h \ {l}) \in Nat
  BY <1>1, <1>3, SumPositive
<1>6. Weights[l] \in Nat /\ WeightOf(h) = Sum(Weights, h)
  BY <1>1, LanesFacts, WeightFacts
<1>7. QED BY <1>4, <1>5, <1>6

\* The turn that counts one more pick, of lane b.
OneMore(t, b) == [t EXCEPT !.picks[b] = @ + 1]

TurnType == [over : SUBSET Lanes, picks : [Lanes -> Nat], rested : BOOLEAN]

(* The picks of a turn are numbers, so is their sum.                       *)
LEMMA TakenNat ==
  ASSUME NEW t \in TurnType
  PROVE  Taken(t) \in Nat
<1>1. t.over \in SUBSET Lanes /\ t.picks \in [Lanes -> Nat]
  BY DEF TurnType
<1>2. IsFiniteSet(t.over) /\ \A l \in t.over : t.picks[l] \in Nat
  BY <1>1, LanesFacts, FS_Subset
<1>3. QED BY <1>2, SumPositive DEF Taken

(* One more pick of a lane of the turn is one more pick of the turn.       *)
LEMMA OneMoreTaken ==
  ASSUME NEW t \in TurnType, NEW b \in t.over
  PROVE  /\ OneMore(t, b) \in TurnType
         /\ OneMore(t, b).over = t.over /\ OneMore(t, b).rested = t.rested
         /\ OneMore(t, b).picks = [t.picks EXCEPT ![b] = @ + 1]
         /\ Taken(OneMore(t, b)) = Taken(t) + 1
<1> DEFINE o == t.over
           p == t.picks
           q == [p EXCEPT ![b] = @ + 1]
<1>1. o \in SUBSET Lanes /\ p \in [Lanes -> Nat] /\ t.rested \in BOOLEAN /\ b \in Lanes
  BY DEF TurnType
<1>2. OneMore(t, b).over = o /\ OneMore(t, b).rested = t.rested /\ OneMore(t, b).picks = q
  BY DEF OneMore, TurnType
<1>3. OneMore(t, b) \in TurnType
  BY <1>1, <1>2 DEF OneMore, TurnType
<1>4. IsFiniteSet(o) /\ IsFiniteSet(o \ {b})
  BY <1>1, LanesFacts, FS_Subset
<1>5. /\ \A l \in o : q[l] \in Int
      /\ \A l \in o : p[l] \in Int
      /\ \A l \in o \ {b} : p[l] \in Int /\ q[l] = p[l]
      /\ q[b] = p[b] + 1 /\ p[b] \in Nat
  BY <1>1
<1> HIDE DEF q, p
<1>6. Sum(q, o \ {b}) = Sum(p, o \ {b})
  BY <1>4, <1>5, SumSame
<1>7. Sum(q, o) = q[b] + Sum(q, o \ {b}) /\ Sum(p, o) = p[b] + Sum(p, o \ {b})
  <2>1. Sum(q, o) = q[b] + Sum(q, o \ {b})
    BY <1>4, <1>5, SumTake
  <2>2. Sum(p, o) = p[b] + Sum(p, o \ {b})
    BY <1>4, <1>5, SumTake
  <2>3. QED BY <2>1, <2>2
<1>8. Sum(p, o \ {b}) \in Int
  BY <1>4, <1>5, SumTake
<1>9. Sum(q, o) = Sum(p, o) + 1
  BY <1>5, <1>6, <1>7, <1>8
<1>10. QED BY <1>2, <1>3, <1>9 DEF Taken, p, q

(* A pick keeps a turn fair: the lane it takes had some credit, since the  *)
(* credits of the set sum to its weight.                                   *)
LEMMA PickKeepsFair ==
  ASSUME NEW w \in [Lanes -> Int], NEW t \in TurnType, Fair(t, w),
         Taken(t) < WeightOf(t.over), t.over # {}, WeightOf(t.over) > 0
  PROVE  LET h == t.over
             c == Credited(w, h)
             b == Best(c, h)
         IN  Fair(OneMore(t, b), Charged(c, h, b))
<1> DEFINE h == t.over
           c == Credited(w, h)
           b == Best(c, h)
           v == Charged(c, h, b)
           next == OneMore(t, b)
           n == Taken(t)
           Wh == WeightOf(h)
<1>1. h \in SUBSET Lanes /\ t.picks \in [Lanes -> Nat] /\ t.rested \in BOOLEAN
  BY DEF TurnType
<1>2. c \in [Lanes -> Int] /\ Wh \in Nat
  BY <1>1, CreditedSum, WeightFacts
<1>3. b \in h /\ \A l \in h : c[l] <= c[b]
  <2> HIDE DEF c, h
  <2>1. h # {}
    BY DEF h
  <2>2. QED BY <1>1, <1>2, <2>1, BestFound
<1>4. /\ next.over = h /\ next.rested = t.rested
      /\ next.picks = [t.picks EXCEPT ![b] = @ + 1] /\ Taken(next) = n + 1
  <2> HIDE DEF b
  <2>1. QED BY <1>3, OneMoreTaken
<1>5. n \in Nat
  BY TakenNat
<1>6. Taken(next) <= WeightOf(next.over)
  <2> HIDE DEF next, b
  <2>1. QED BY <1>2, <1>4, <1>5
<1>7. ASSUME t.rested
      PROVE  /\ Sum(v, h) = 0
             /\ \A l \in h : /\ v[l] = (n + 1) * Weights[l] - next.picks[l] * Wh
                            /\ -Wh < v[l]
  <2>1. /\ Sum(w, h) = 0
        /\ \A l \in h : w[l] = n * Weights[l] - t.picks[l] * Wh /\ -Wh < w[l]
    BY <1>7 DEF Fair
  <2>2. Sum(Weights, h) = Wh
    BY <1>1, WeightFacts
  <2>3. h \cap h = h
    OBVIOUS
  <2>4. Sum(v, h) = 0
    <3> HIDE DEF b, h, Wh
    <3>1. Sum(v, h) = (Sum(w, h) + Sum(Weights, h \cap h)) - (IF b \in h THEN WeightOf(h) ELSE 0)
      BY <1>1, <1>3, PickedSum
    <3>2. Sum(v, h) = (0 + WeightOf(h)) - WeightOf(h)
      BY <1>3, <2>1, <2>2, <2>3, <3>1, Zenon DEF Wh
    <3>3. QED BY <1>2, <3>2 DEF Wh
  <2>5. c[b] > 0
    <3>1. Sum(c, h) = Wh
      <4>1. Sum(c, h) = Sum(w, h) + Sum(Weights, h \cap h)
        BY <1>1, CreditedSum
      <4>2. Sum(c, h) = 0 + Wh
        BY <2>1, <2>2, <2>3, <4>1, Zenon
      <4>3. QED BY <1>2, <4>2
    <3>2. IsFiniteSet(h)
      BY <1>1, LanesFacts, FS_Subset
    <3>3. c[b] \in Int /\ \A l \in h : c[l] \in Int /\ c[l] <= c[b]
      BY <1>1, <1>2, <1>3
    <3> HIDE DEF c, b, h
    <3>4. Sum(c, h) <= c[b] * Cardinality(h)
      BY <3>2, <3>3, SumBounded
    <3>5. Cardinality(h) \in Nat
      BY <3>2, FS_CardinalityType
    <3>6. Wh > 0
      BY DEF h, Wh
    <3>7. c[b] * Cardinality(h) > 0
      BY <1>2, <3>1, <3>4, <3>6, <3>3, <3>5
    <3>8. QED BY <3>3, <3>5, <3>7
  <2>6. \A l \in h : /\ v[l] = (n + 1) * Weights[l] - next.picks[l] * Wh
                   /\ -Wh < v[l]
    <3> SUFFICES ASSUME NEW l \in h
                 PROVE  /\ v[l] = (n + 1) * Weights[l] - next.picks[l] * Wh
                        /\ -Wh < v[l]
      OBVIOUS
    <3>1. /\ w[l] \in Int /\ Weights[l] \in Nat /\ t.picks[l] \in Nat /\ l \in Lanes
          /\ c[l] = w[l] + Weights[l]
      BY <1>1, LanesFacts DEF Credited
    <3>2. w[l] = n * Weights[l] - t.picks[l] * Wh /\ -Wh < w[l]
      BY <2>1
    <3>3. (n + 1) * Weights[l] = n * Weights[l] + Weights[l]
      BY <1>5, <3>1
    <3>4. t.picks[l] * Wh \in Int /\ n * Weights[l] \in Int
      BY <1>2, <1>5, <3>1
    <3>5. CASE l = b
      <4>1. v[l] = c[l] - Wh
        BY <1>2, <3>1, <3>5 DEF Charged
      <4>2. next.picks[l] = t.picks[l] + 1
        BY <1>1, <1>4, <3>1, <3>5
      <4>3. (t.picks[l] + 1) * Wh = t.picks[l] * Wh + Wh
        BY <1>2, <3>1
      <4>4. c[l] > 0 /\ c[l] \in Int
        BY <2>5, <3>1, <3>5
      <4> HIDE DEF v, c, b, next, n, Wh, h
      <4>5. next.picks[l] * Wh = t.picks[l] * Wh + Wh
        BY <4>2, <4>3, Zenon
      <4>6. QED BY <1>2, <3>1, <3>2, <3>3, <3>4, <4>1, <4>4, <4>5
    <3>6. CASE l # b
      <4>1. v[l] = c[l]
        BY <1>2, <3>1, <3>6 DEF Charged
      <4>2. next.picks[l] = t.picks[l]
        BY <1>1, <1>4, <3>1, <3>6
      <4> HIDE DEF v, c, b, next, n, Wh, h
      <4>3. next.picks[l] * Wh = t.picks[l] * Wh
        BY <4>2, Zenon
      <4>4. QED BY <1>2, <3>1, <3>2, <3>3, <3>4, <4>1, <4>3
    <3>7. QED BY <3>5, <3>6
  <2>7. QED BY <2>4, <2>6
<1>8. QED
  <2> HIDE DEF v, c, b, next
  <2>1. Fair(next, v)
    <3>1. next.rested => Sum(v, next.over) = 0
      BY <1>4, <1>7
    <3>2. next.rested => \A l \in next.over :
              /\ v[l] = Taken(next) * Weights[l] - next.picks[l] * WeightOf(next.over)
              /\ -WeightOf(next.over) < v[l]
      BY <1>4, <1>7, Zenon
    <3>3. QED BY <1>6, <3>1, <3>2 DEF Fair
  <2>2. QED BY <2>1 DEF next, v, c, b

(* A full turn that began at rest: no lane is a whole round behind, so     *)
(* none took more than its weight; together they took it all, so each took *)
(* its own.                                                                *)
LEMMA FullTurnIsFair ==
  ASSUME NEW w \in [Lanes -> Int], NEW t \in TurnType, Fair(t, w),
         t.rested, Taken(t) = WeightOf(t.over)
  PROVE  \A l \in t.over : t.picks[l] = Weights[l]
<1> DEFINE o == t.over
           p == t.picks
           Wo == WeightOf(o)
           owed == [l \in o |-> Weights[l] - p[l]]
<1>1. o \in SUBSET Lanes /\ p \in [Lanes -> Nat]
  BY DEF TurnType
<1>2. IsFiniteSet(o) /\ Wo \in Nat /\ Sum(Weights, o) = Wo /\ Sum(p, o) = Wo
  BY <1>1, LanesFacts, FS_Subset, WeightFacts DEF Taken
<1>3. \A l \in o : Weights[l] \in Nat /\ p[l] \in Nat
  BY <1>1, LanesFacts
<1>4. ASSUME NEW l \in o PROVE owed[l] \in Nat
  <2>1. w[l] = Wo * Weights[l] - p[l] * Wo /\ -Wo < w[l]
    BY DEF Fair
  <2>2. Weights[l] \in Nat /\ p[l] \in Nat
    BY <1>3
  <2> HIDE DEF p, Wo
  <2>3. CASE p[l] <= Weights[l]
    BY <2>2, <2>3
  <2>4. CASE p[l] > Weights[l]
    <3>1. p[l] - Weights[l] - 1 \in Nat
      BY <2>2, <2>4
    <3>2. (p[l] - Weights[l] - 1) * Wo \in Nat
      BY <1>2, <3>1
    <3>3. (p[l] - Weights[l] - 1) * Wo = p[l] * Wo - Wo * Weights[l] - Wo
      BY <1>2, <2>2
    <3>4. p[l] * Wo \in Int /\ Wo * Weights[l] \in Int
      BY <1>2, <2>2
    <3>5. QED BY <1>2, <2>1, <3>2, <3>3, <3>4
  <2>5. QED BY <2>2, <2>3, <2>4
<1>5. \A l \in o : p[l] \in Int /\ owed[l] \in Int /\ Weights[l] = p[l] + owed[l]
  BY <1>3
<1> SUFFICES ASSUME NEW l \in o PROVE p[l] = Weights[l]
  OBVIOUS
<1>6. Weights[l] = p[l] + owed[l] /\ owed[l] \in Nat /\ p[l] \in Nat
  BY <1>3, <1>4, <1>5
<1>7. \A x \in o : owed[x] \in Int
  BY <1>5
<1>8. IsFiniteSet(o \ {l}) /\ \A x \in o \ {l} : owed[x] \in Nat
  BY <1>2, <1>4, FS_Subset
<1> HIDE DEF owed, p
<1>9. Sum(Weights, o) = Sum(p, o) + Sum(owed, o)
  BY <1>2, <1>5, SumPlus
<1>10. Sum(owed, o) = owed[l] + Sum(owed, o \ {l})
  BY <1>2, <1>7, SumTake
<1>11. Sum(owed, o \ {l}) \in Nat
  BY <1>8, SumPositive
<1>12. owed[l] = 0
  <2>1. owed[l] + Sum(owed, o \ {l}) \in Int
    BY <1>6, <1>11
  <2>2. Wo = Wo + (owed[l] + Sum(owed, o \ {l}))
    BY <1>2, <1>9, <1>10, Zenon
  <2> HIDE DEF Wo
  <2>3. QED BY <1>2, <1>6, <1>11, <2>2
<1>13. QED BY <1>6, <1>12

(* A turn that has not begun.                                              *)
LEMMA FreshTurnIsFair ==
  ASSUME NEW w \in [Lanes -> Int], NEW h \in SUBSET Lanes, h = {} \/ WeightOf(h) > 0
  PROVE  LET t == [FreshTurn(w) EXCEPT !.over = h]
         IN  /\ t \in TurnType /\ t.over = h /\ Taken(t) = 0 /\ Fair(t, w)
<1> DEFINE t == [FreshTurn(w) EXCEPT !.over = h]
<1>1. /\ t \in TurnType /\ t.over = h /\ t.picks = Zeroed /\ t.rested = (w = Zeroed)
  BY DEF FreshTurn, TurnType, Zeroed
<1>2. WeightOf(h) \in Nat
  BY WeightFacts
<1>3. IsFiniteSet(h)
  BY LanesFacts, FS_Subset
<1>4. Sum(Zeroed, h) = 0
  <2>1. \A l \in h : Zeroed[l] = 0
    BY DEF Zeroed
  <2>2. /\ \A l \in h : Zeroed[l] \in Nat
        /\ \A l \in h : Zeroed[l] \in Int /\ Zeroed[l] <= 0
    BY <2>1
  <2>3. Sum(Zeroed, h) \in Nat /\ Sum(Zeroed, h) <= 0 * Cardinality(h)
    <3>1. 0 \in Int
      OBVIOUS
    <3>2. QED BY <1>3, <2>2, <3>1, SumPositive, SumBounded
  <2>4. Cardinality(h) \in Nat
    BY <1>3, FS_CardinalityType
  <2>5. QED BY <2>3, <2>4
<1> HIDE DEF t
<1>5. Taken(t) = 0
  BY <1>1, <1>4 DEF Taken
<1>6. ASSUME t.rested
      PROVE  /\ Sum(w, h) = 0
             /\ \A l \in h : /\ w[l] = Taken(t) * Weights[l] - t.picks[l] * WeightOf(h)
                            /\ -WeightOf(h) < w[l]
  <2>1. w = Zeroed
    BY <1>1, <1>6
  <2>2. ASSUME NEW l \in h
        PROVE  /\ w[l] = Taken(t) * Weights[l] - t.picks[l] * WeightOf(h)
               /\ -WeightOf(h) < w[l]
    <3>1. Zeroed[l] = 0 /\ Weights[l] \in Nat
      BY LanesFacts DEF Zeroed
    <3>2. WeightOf(h) > 0
      OBVIOUS
    <3>3. w[l] = 0 /\ t.picks[l] = 0
      BY <1>1, <2>1, <3>1
    <3>4. QED BY <1>2, <1>5, <3>1, <3>2, <3>3
  <2>3. QED BY <1>4, <2>1, <2>2
<1>7. Fair(t, w)
  <2>1. Taken(t) <= WeightOf(t.over)
    BY <1>1, <1>2, <1>5
  <2>2. QED BY <1>1, <1>6, <2>1, Zenon DEF Fair
<1>8. QED BY <1>1, <1>5, <1>7 DEF t

(* What a pick counts, in the terms of this module.                        *)
LEMMA CountedIs ==
  ASSUME NEW w, NEW h, NEW b
  PROVE  Counted(w, h, b)
           = OneMore(IF turn.over = h /\ Sum(turn.picks, h) < WeightOf(h)
                     THEN turn ELSE [FreshTurn(weight) EXCEPT !.over = h], b)
BY Zenon DEF Counted, OneMore, Sum

-----------------------------------------------------------------------------
IInv ==
  /\ TypeOK
  /\ Leeway(weight)
  /\ HealthyWeigh
  /\ Fair(turn, weight)

(* The pool starts with the invariant.                                     *)
LEMMA InitIInv == Init => IInv
<1> SUFFICES ASSUME Init PROVE IInv
  OBVIOUS
<1>1. Zeroed \in [Lanes -> Int]
  BY DEF Zeroed
<1>2. {} \in SUBSET Lanes
  OBVIOUS
<1>3. FreshTurn(Zeroed) = [FreshTurn(Zeroed) EXCEPT !.over = {}]
  BY DEF FreshTurn
<1>4. FreshTurn(Zeroed) \in TurnType /\ Fair(FreshTurn(Zeroed), Zeroed)
  BY <1>1, <1>2, <1>3, FreshTurnIsFair
<1>5. turn \in TurnType /\ Fair(turn, weight) /\ Leeway(weight)
  BY <1>4, RestHasLeeway DEF Init
<1>6. TypeOK
  BY <1>1, <1>5 DEF Init, TypeOK, TurnType
<1>7. HealthyWeigh
  BY DEF Init, HealthyWeigh
<1>8. QED BY <1>5, <1>6, <1>7 DEF IInv

(* A pick keeps the invariant: its healthy set has a weight, whatever      *)
(* became of its lanes since the filter.                                   *)
LEMMA PickIInv ==
  ASSUME IInv, NEW s \in Selectors, Pick(s)
  PROVE  IInv'
<1> DEFINE h == healthy[s]
           c == Credited(weight, h)
           b == Best(c, h)
           t == IF turn.over = h /\ Sum(turn.picks, h) < WeightOf(h)
                THEN turn ELSE [FreshTurn(weight) EXCEPT !.over = h]
<1>1. /\ weight \in [Lanes -> Int] /\ h \in SUBSET Lanes /\ h # {} /\ turn \in TurnType
      /\ Leeway(weight) /\ Fair(turn, weight)
  BY DEF IInv, TypeOK, TurnType, Pick
<1>2. WeightOf(h) > 0
  <2>1. PICK l : l \in h
    BY <1>1
  <2>2. Weights[l] # 0
    BY <2>1 DEF IInv, HealthyWeigh
  <2> HIDE DEF h
  <2>3. QED BY <1>1, <2>1, <2>2, SomeWeight
<1>3. /\ weight' = Charged(c, h, b)
      /\ healthy' = [healthy EXCEPT ![s] = {}]
      /\ turn' = Counted(weight, h, b)
      /\ ready' = ready /\ resetting' = resetting
  BY DEF Pick
<1> HIDE DEF h
<1>4. turn' = OneMore(t, b)
  BY <1>3, CountedIs, Zenon
<1>5. t \in TurnType /\ t.over = h /\ Fair(t, weight) /\ Taken(t) < WeightOf(h)
  <2>1. CASE turn.over = h /\ Sum(turn.picks, h) < WeightOf(h)
    <3>1. t = turn /\ Taken(turn) = Sum(turn.picks, h)
      BY <2>1 DEF Taken
    <3>2. QED BY <1>1, <2>1, <3>1
  <2>2. CASE ~(turn.over = h /\ Sum(turn.picks, h) < WeightOf(h))
    <3>1. t = [FreshTurn(weight) EXCEPT !.over = h]
      BY <2>2
    <3>2. t \in TurnType /\ t.over = h /\ Taken(t) = 0 /\ Fair(t, weight)
      BY <1>1, <1>2, <3>1, FreshTurnIsFair
    <3>3. QED BY <1>2, <3>2
  <2>3. QED BY <2>1, <2>2
<1>6. c \in [Lanes -> Int]
  BY <1>1, CreditedSum
<1>7. b \in h
  <2> HIDE DEF c
  <2>1. QED BY <1>1, <1>6, BestFound
<1> HIDE DEF t
<1>8. Leeway(weight')
  BY <1>1, <1>3, PickKeepsLeeway
<1>9. Fair(turn', weight')
  <2>1. Fair(OneMore(t, Best(Credited(weight, t.over), t.over)),
             Charged(Credited(weight, t.over), t.over, Best(Credited(weight, t.over), t.over)))
    <3>1. Taken(t) < WeightOf(t.over) /\ t.over # {} /\ WeightOf(t.over) > 0
      BY <1>1, <1>2, <1>5
    <3>2. QED BY <1>1, <1>5, <3>1, PickKeepsFair
  <2>2. QED BY <1>3, <1>4, <1>5, <2>1, Zenon
<1>10. turn' \in TurnType
  <2>1. b \in t.over
    BY <1>5, <1>7
  <2> HIDE DEF b
  <2>2. QED BY <1>4, <1>5, <2>1, OneMoreTaken
<1>11. weight' \in [Lanes -> Int]
  <2> HIDE DEF b
  <2>1. QED BY <1>1, <1>3, <1>7, PickedSum
<1>12. TypeOK'
  BY <1>3, <1>10, <1>11 DEF IInv, TypeOK, TurnType
<1>13. HealthyWeigh'
  BY <1>3 DEF IInv, TypeOK, HealthyWeigh
<1>14. QED BY <1>8, <1>9, <1>12, <1>13 DEF IInv

(* A reset keeps the invariant: it ends the turn and zeroes one lane.      *)
LEMMA ResetIInv ==
  ASSUME IInv, NEW l \in Lanes, Reset(l)
  PROVE  IInv'
<1>1. weight \in [Lanes -> Int] /\ Leeway(weight)
  BY DEF IInv, TypeOK
<1>2. /\ weight' = [weight EXCEPT ![l] = 0] /\ turn' = FreshTurn(weight')
      /\ ready' = ready /\ healthy' = healthy /\ resetting' = resetting \ {l}
  BY DEF Reset
<1>3. weight' \in [Lanes -> Int] /\ Leeway(weight')
  <2>1. Leeway([weight EXCEPT ![l] = 0])
    BY <1>1, ResetKeepsLeeway
  <2>2. [weight EXCEPT ![l] = 0] \in [Lanes -> Int]
    BY <1>1
  <2>3. QED BY <1>2, <2>1, <2>2, Zenon
<1>4. {} \in SUBSET Lanes /\ turn' = [FreshTurn(weight') EXCEPT !.over = {}]
  BY <1>2 DEF FreshTurn
<1>5. turn' \in TurnType /\ Fair(turn', weight')
  BY <1>3, <1>4, FreshTurnIsFair
<1>6. TypeOK'
  BY <1>2, <1>3, <1>5 DEF IInv, TypeOK, TurnType
<1>7. HealthyWeigh'
  BY <1>2 DEF IInv, HealthyWeigh
<1>8. QED BY <1>3, <1>5, <1>6, <1>7 DEF IInv

(* Every step keeps the invariant.                                         *)
LEMMA NextIInv == IInv /\ [Next]_vars => IInv'
<1> SUFFICES ASSUME IInv, [Next]_vars PROVE IInv'
  OBVIOUS
<1>1. ASSUME UNCHANGED <<weight, turn>>, TypeOK', HealthyWeigh' PROVE IInv'
  <2>1. Leeway(weight') /\ Fair(turn', weight')
    BY <1>1 DEF IInv
  <2>2. QED BY <1>1, <2>1 DEF IInv
<1>2. ASSUME NEW s \in Selectors, Filter(s) PROVE IInv'
  <2>1. PICK candidates \in SUBSET Lanes :
          healthy' = [healthy EXCEPT ![s] = {l \in candidates \cap ready : Weights[l] # 0}]
    BY <1>2 DEF Filter
  <2>2. UNCHANGED <<ready, weight, resetting, turn>>
    BY <1>2 DEF Filter
  <2>3. TypeOK'
    BY <2>1, <2>2 DEF IInv, TypeOK
  <2>4. HealthyWeigh'
    BY <2>1 DEF IInv, TypeOK, HealthyWeigh
  <2>5. QED BY <1>1, <2>2, <2>3, <2>4
<1>3. ASSUME NEW s \in Selectors, Pick(s) PROVE IInv'
  BY <1>3, PickIInv
<1>4. ASSUME NEW l \in Lanes, Suppress(l) PROVE IInv'
  BY <1>1, <1>4 DEF Suppress, IInv, TypeOK, HealthyWeigh
<1>5. ASSUME NEW l \in Lanes, Readmit(l) PROVE IInv'
  BY <1>1, <1>5 DEF Readmit, IInv, TypeOK, HealthyWeigh
<1>6. ASSUME NEW l \in Lanes, Recover(l) PROVE IInv'
  BY <1>1, <1>6 DEF Recover, IInv, TypeOK, HealthyWeigh
<1>7. ASSUME NEW l \in Lanes, Reset(l) PROVE IInv'
  BY <1>7, ResetIInv
<1>8. CASE UNCHANGED vars
  BY <1>1, <1>8 DEF vars, IInv, TypeOK, HealthyWeigh
<1>9. QED BY <1>2, <1>3, <1>4, <1>5, <1>6, <1>7, <1>8 DEF Next

(* Every reachable state has the strengthened invariant.                   *)
THEOREM InductiveInvariant == Spec => []IInv
<1>1. Init => IInv
  BY InitIInv
<1>2. IInv /\ [Next]_vars => IInv'
  BY NextIInv
<1>3. QED BY <1>1, <1>2, PTL DEF Spec

(* TypeOK: the accumulators are integers of the pool's lanes and a pick is *)
(* one of the lanes it considered.                                         *)
THEOREM TypeCorrect == Spec => []TypeOK
<1>1. IInv => TypeOK
  BY DEF IInv
<1>2. QED BY <1>1, InductiveInvariant, PTL

(* CreditBounded: in a pool of any size and any weights, with any number   *)
(* of selectors, trips, recoveries and resets, no accumulator is ever      *)
(* further from rest than one turn of the pool for every other lane.       *)
THEOREM NoHoarding == Spec => []CreditBounded
<1>1. IInv => CreditBounded
  BY LeewayBoundsCredit DEF IInv, TypeOK, CreditBounded
<1>2. QED BY <1>1, InductiveInvariant, PTL

(* ExactShare: a full turn of any healthy set that begins at rest gives    *)
(* each of its lanes exactly its configured weight.                        *)
THEOREM SharesAreExact == Spec => []ExactShare
<1>1. ASSUME IInv PROVE ExactShare
  <2>1. weight \in [Lanes -> Int] /\ turn \in TurnType /\ Fair(turn, weight)
    BY <1>1 DEF IInv, TypeOK, TurnType
  <2>2. MapThenSumSet(LAMBDA l : turn.picks[l], turn.over) = Taken(turn)
    BY Zenon DEF Taken, Sum
  <2>3. turn.rested /\ Taken(turn) = WeightOf(turn.over)
          => \A l \in turn.over : turn.picks[l] = Weights[l]
    BY <2>1, FullTurnIsFair
  <2>4. QED BY <2>2, <2>3, Zenon DEF ExactShare
<1>2. QED BY <1>1, InductiveInvariant, PTL

-----------------------------------------------------------------------------
(* Cooldowns.                                                              *)

\* The shift in a fixed-width word yields a word.
LEMMA ShiftTyped ==
  ASSUME NEW n \in Nat, NEW k \in 0 .. WordBits
  PROVE  ShiftedLeft(n, k) \in Nat
<1> DEFINE p == PowerOfTwo[k]
           w == PowerOfTwo[WordBits]
<1>1. p \in Nat /\ w \in Nat \ {0}
  BY WordAssumption
<1> HIDE DEF p, w
<1>2. n * p \in Nat
  BY <1>1
<1> DEFINE m == n * p
<1>3. m \in Nat
  BY <1>2
<1> HIDE DEF m
<1>4. m % w \in Nat
  BY <1>1, <1>3
<1> QED
  BY <1>4 DEF ShiftedLeft, m, p, w

\* The backoff before jitter is a time no longer than the configured maximum.
LEMMA BackoffTyped ==
  ASSUME NEW failures \in Nat
  PROVE  Backoff(failures) \in Nat /\ Backoff(failures) <= MaxCooldown
<1> DEFINE k == Lesser(failures, WordBits - 1)
<1>1. k \in 0 .. WordBits
  BY WordAssumption DEF Lesser
<1>2. ShiftedLeft(BaseCooldown, k) \in Nat
  BY <1>1, ShiftTyped, ConfigAssumption
<1> HIDE DEF k
<1> QED
  BY <1>2, ConfigAssumption DEF Backoff, Lesser, k

\* Jitter keeps a time a time, at least half of it and at most the maximum.
LEMMA JitterBounds ==
  ASSUME NEW d \in Nat, d <= MaxCooldown, NEW x \in Jittered(d)
  PROVE  x \in Nat /\ d \div 2 <= x /\ x <= MaxCooldown
<1> DEFINE range == Greater(d \div 10, 1)
<1>1. range \in Nat
  BY DEF Greater
<1>2. PICK j \in -range .. range :
        x = Lesser(Greater(Greater(d + j, 0), d \div 2), MaxCooldown)
  BY DEF Jittered
<1>3. j \in Int
  BY <1>1, <1>2
<1>4. d \div 2 \in Nat /\ d \div 2 <= d
  OBVIOUS
<1> HIDE DEF range
<1> QED
  BY <1>2, <1>3, <1>4, ConfigAssumption DEF Lesser, Greater

\* The floor of a Retry-After is a number of seconds.
LEMMA HintTyped ==
  ASSUME NEW asked \in Nat \cup {NoHint}
  PROVE  HintFloor(asked) \in Nat
BY ConfigAssumption DEF HintFloor, Lesser, NoHint

\* A cooldown is at least half the backoff and at least what an honored
\* Retry-After asks for.
LEMMA CooldownBounds ==
  ASSUME NEW failures \in Nat, NEW asked \in Nat \cup {NoHint},
         NEW d \in Cooldowns(failures, asked)
  PROVE  d \in Nat /\ HintFloor(asked) <= d /\ Backoff(failures) \div 2 <= d
<1> DEFINE b == Backoff(failures)
           f == HintFloor(asked)
<1>1. b \in Nat /\ b <= MaxCooldown /\ f \in Nat
  BY BackoffTyped, HintTyped
<1>2. PICK x \in Jittered(b) : d = Greater(x, f)
  BY DEF Cooldowns
<1> HIDE DEF b, f
<1>3. x \in Nat /\ b \div 2 <= x
  BY <1>1, <1>2, JitterBounds
<1>4. b \div 2 \in Nat
  BY <1>1
<1>5. d \in Nat /\ f <= d /\ b \div 2 <= d
  BY <1>1, <1>2, <1>3, <1>4 DEF Greater
<1> QED
  BY <1>5 DEF b, f

-----------------------------------------------------------------------------
(* The invariant.                                                          *)

(* The maximum is a number of seconds the highest bit of the word can      *)
(* hold, and a shift that loses bits leaves enough of them to saturate.    *)
(* An odd base with a maximum that fits half a word always fits;           *)
(* an even one fits until the streak shifts its last bit out.              *)
BackoffFits ==
  /\ MaxCooldown <= PowerOfTwo[WordBits - 1]
  /\ \A k \in 0 .. Lesser(MaxStreak, WordBits - 1) :
       \/ BaseCooldown * PowerOfTwo[k] < PowerOfTwo[WordBits]
       \/ MaxCooldown <= ShiftedLeft(BaseCooldown, k)

WaitsInv ==
  /\ streak \in 0 .. MaxStreak
  /\ hint \in Hints
  /\ streak > 0 => wait \in Cooldowns(streak, hint)

(* Every wait is one the jitter of its streak can give.                    *)
LEMMA EveryWait == EscalationSpec => []WaitsInv
<1>1. EscalationInit => WaitsInv
  BY EscalationAssumption DEF EscalationInit, WaitsInv, Hints
<1>2. WaitsInv /\ [EscalationNext]_escalation => WaitsInv'
  BY EscalationAssumption DEF WaitsInv, EscalationNext, Fails, Succeeds, escalation, Hints
<1>3. QED BY <1>1, <1>2, PTL DEF EscalationSpec

-----------------------------------------------------------------------------
(* The jitter.                                                             *)

(* A backoff of d seconds can always become d, or one second from it.      *)
LEMMA JitterSpreads ==
  ASSUME NEW d \in Nat, d <= MaxCooldown, MaxCooldown > 1
  PROVE  d \in Jittered(d) /\ \E x \in Jittered(d) : x # d
<1> DEFINE r == Greater(d \div 10, 1)
           value(j) == Lesser(Greater(Greater(d + j, 0), d \div 2), MaxCooldown)
<1>1. r \in Nat /\ r >= 1 /\ 0 \in -r .. r /\ 1 \in -r .. r /\ -1 \in -r .. r
  BY DEF Greater
<1>2. d \div 2 \in Nat /\ d \div 2 <= d /\ (d >= 2 => d \div 2 <= d - 1) /\ (d < 2 => d \div 2 = 0)
  OBVIOUS
<1>3. MaxCooldown \in Nat
  BY ConfigAssumption
<1>4. value(0) = d
  BY <1>2, <1>3 DEF Lesser, Greater
<1>5. value(-1) # d \/ value(1) # d
  <2>1. CASE d >= 2
    <3>1. value(-1) = d - 1
      BY <1>2, <1>3, <2>1 DEF Lesser, Greater
    <3>2. QED BY <3>1
  <2>2. CASE d < 2
    <3>1. value(1) = d + 1
      BY <1>2, <1>3, <2>2 DEF Lesser, Greater
    <3>2. QED BY <3>1
  <2>3. QED BY <2>1, <2>2
<1>6. \A j \in -r .. r : value(j) \in Jittered(d)
  BY DEF Jittered
<1> HIDE DEF r, value
<1>7. QED BY <1>1, <1>4, <1>5, <1>6

(* The values the jitter can take are finitely many.                       *)
LEMMA JitterFinite ==
  ASSUME NEW d \in Nat
  PROVE  IsFiniteSet(Jittered(d))
<1> DEFINE r == Greater(d \div 10, 1)
           value(j) == Lesser(Greater(Greater(d + j, 0), d \div 2), MaxCooldown)
           f == [j \in -r .. r |-> value(j)]
<1>1. r \in Nat
  BY DEF Greater
<1>2. IsFiniteSet(-r .. r)
  BY <1>1, FS_Interval
<1>3. Jittered(d) = {f[j] : j \in -r .. r}
  BY DEF Jittered
<1>4. f \in Surjection(-r .. r, Jittered(d))
  BY <1>3 DEF Surjection
<1> HIDE DEF f
<1>5. QED BY <1>2, <1>4, FS_Surjection

(* ProbesDesynchronize: whatever the streak, two lanes that fail together  *)
(* can be given different cooldowns, even where the shift has lost every   *)
(* bit of the backoff.                                                     *)
THEOREM AlwaysTwoCooldowns == EscalationSpec => []ProbesDesynchronize
<1>1. ASSUME WaitsInv PROVE ProbesDesynchronize
  <2> SUFFICES ASSUME MaxCooldown > 1
               PROVE  Cardinality(Cooldowns(streak, NoHint)) >= 2
    BY DEF ProbesDesynchronize
  <2> DEFINE d == Backoff(streak)
             all == Cooldowns(streak, NoHint)
  <2>1. streak \in Nat
    BY <1>1, EscalationAssumption DEF WaitsInv
  <2>2. d \in Nat /\ d <= MaxCooldown
    BY <2>1, BackoffTyped
  <2>3. all = {Greater(x, 0) : x \in Jittered(d)}
    BY DEF Cooldowns, HintFloor
  <2>4. \A x \in Jittered(d) : x \in Nat /\ Greater(x, 0) = x
    BY <2>2, JitterBounds DEF Greater
  <2>5. all = Jittered(d)
    BY <2>3, <2>4
  <2> HIDE DEF d, all
  <2>6. PICK x \in Jittered(d) : x # d
    BY <2>2, JitterSpreads
  <2>7. {d, x} \subseteq all /\ IsFiniteSet(all)
    BY <2>2, <2>5, JitterSpreads, JitterFinite
  <2>8. Cardinality({d, x}) = 2
    <3>1. IsFiniteSet({d}) /\ Cardinality({d}) = 1 /\ x \notin {d}
      BY <2>6, FS_Singleton
    <3>2. Cardinality({d} \cup {x}) = Cardinality({d}) + 1
      BY <3>1, FS_AddElement
    <3>3. {d} \cup {x} = {d, x}
      OBVIOUS
    <3>4. QED BY <3>1, <3>2, <3>3
  <2>9. Cardinality({d, x}) <= Cardinality(all) /\ Cardinality(all) \in Nat
    BY <2>7, FS_Subset, FS_CardinalityType
  <2>10. QED BY <2>8, <2>9 DEF all
<1>2. QED BY <1>1, EveryWait, PTL

-----------------------------------------------------------------------------
(* The backoff.                                                            *)

\* What the repeated doubling comes to.
Doubled(n) ==
  IF n < WordBits THEN Lesser(BaseCooldown * PowerOfTwo[n], MaxCooldown) ELSE MaxCooldown

(* It doubles until it saturates, and it has by the last bit of the word.  *)
LEMMA DoubledStep ==
  ASSUME MaxCooldown <= PowerOfTwo[WordBits - 1]
  PROVE  /\ Doubled(0) = BaseCooldown
         /\ \A n \in Nat : Doubled(n + 1) = Lesser(2 * Doubled(n), MaxCooldown)
<1>1. /\ BaseCooldown \in Nat \ {0} /\ MaxCooldown \in Nat /\ BaseCooldown <= MaxCooldown
      /\ WordBits \in Nat \ {0}
  BY ConfigAssumption, WordAssumption
<1>2. Doubled(0) = BaseCooldown
  BY <1>1, WordAssumption DEF Doubled, Lesser
<1>3. ASSUME NEW n \in Nat PROVE Doubled(n + 1) = Lesser(2 * Doubled(n), MaxCooldown)
  <2>1. CASE n + 1 < WordBits
    <3> DEFINE p == PowerOfTwo[n]
               x == BaseCooldown * p
    <3>1. p \in Nat /\ PowerOfTwo[n + 1] = 2 * p
      <4>1. n \in 0 .. WordBits - 1 /\ n \in 0 .. WordBits
        BY <1>1, <2>1
      <4>2. PowerOfTwo[n + 1] = 2 * p
        BY <4>1, WordAssumption
      <4>3. p \in Nat
        BY <4>1, WordAssumption
      <4>4. QED BY <4>2, <4>3
    <3>2. x \in Nat /\ BaseCooldown * (2 * p) = 2 * x
      BY <1>1, <3>1
    <3>3. Doubled(n) = Lesser(x, MaxCooldown) /\ Doubled(n + 1) = Lesser(2 * x, MaxCooldown)
      BY <1>1, <2>1, <3>1, <3>2 DEF Doubled
    <3> HIDE DEF x
    <3>4. QED BY <1>1, <3>2, <3>3 DEF Lesser
  <2>2. CASE n + 1 = WordBits
    <3> DEFINE p == PowerOfTwo[n]
               x == BaseCooldown * p
    <3>1. p \in Nat /\ MaxCooldown <= p
      BY <1>1, <2>2, WordAssumption
    <3>2. x \in Nat /\ p <= x
      BY <1>1, <3>1
    <3>3. Doubled(n) = Lesser(x, MaxCooldown) /\ Doubled(n + 1) = MaxCooldown
      BY <1>1, <2>2 DEF Doubled
    <3> HIDE DEF x, p
    <3>4. QED BY <1>1, <3>1, <3>2, <3>3 DEF Lesser
  <2>3. CASE n >= WordBits
    BY <1>1, <2>3 DEF Doubled, Lesser
  <2>4. QED BY <1>1, <2>1, <2>2, <2>3
<1>4. QED BY <1>2, <1>3

(* So the documented recursion has a solution, and only that one.          *)
LEMMA DocumentedIsDoubled ==
  ASSUME MaxCooldown <= PowerOfTwo[WordBits - 1]
  PROVE  \A n \in Nat : Documented[n] = Doubled(n)
<1> DEFINE Step(f, n) == IF n = 0 THEN BaseCooldown ELSE Lesser(2 * f[n - 1], MaxCooldown)
           Solves(f) == f = [n \in Nat |-> Step(f, n)]
           g == [n \in Nat |-> Doubled(n)]
<1>1. Solves(g)
  <2>1. ASSUME NEW n \in Nat PROVE Doubled(n) = Step(g, n)
    <3>1. CASE n = 0
      BY <3>1, DoubledStep
    <3>2. CASE n # 0
      <4>1. n - 1 \in Nat /\ (n - 1) + 1 = n
        BY <3>2
      <4>2. Doubled((n - 1) + 1) = Lesser(2 * Doubled(n - 1), MaxCooldown)
        BY <4>1, DoubledStep
      <4>3. QED BY <3>2, <4>1, <4>2
    <3>3. QED BY <3>1, <3>2
  <2>2. QED BY <2>1
<1>2. Documented = CHOOSE f : Solves(f)
  BY Zenon DEF Documented
<1> HIDE DEF g
<1>3. Solves(Documented)
  BY <1>1, <1>2
<1>4. \A n \in Nat : Documented[n] = Step(Documented, n)
  BY <1>3
<1> DEFINE P == {n \in Nat : Documented[n] = Doubled(n)}
<1>5. 0 \in P
  BY <1>4, DoubledStep
<1>6. \A n \in P : n + 1 \in P
  <2> SUFFICES ASSUME NEW n \in P PROVE Documented[n + 1] = Doubled(n + 1)
    OBVIOUS
  <2>1. n \in Nat /\ n + 1 \in Nat /\ n + 1 # 0 /\ (n + 1) - 1 = n /\ Documented[n] = Doubled(n)
    OBVIOUS
  <2>2. Documented[n + 1] = Lesser(2 * Documented[n], MaxCooldown)
    BY <1>4, <2>1
  <2>3. Doubled(n + 1) = Lesser(2 * Doubled(n), MaxCooldown)
    BY <2>1, DoubledStep
  <2>4. QED BY <2>1, <2>2, <2>3
<1>7. P \in SUBSET Nat
  OBVIOUS
<1> HIDE DEF P
<1>8. \A n \in Nat : n \in P
  BY <1>5, <1>6, <1>7, EveryNumber
<1>9. QED BY <1>8 DEF P

(* The shift computes it.                                                  *)
LEMMA BackoffIsDocumented ==
  ASSUME BackoffFits, NEW n \in 1 .. MaxStreak
  PROVE  Backoff(n) = Documented[n]
<1>1. /\ BaseCooldown \in Nat \ {0} /\ MaxCooldown \in Nat /\ WordBits \in Nat \ {0}
      /\ MaxStreak \in Nat /\ n \in Nat /\ n # 0
  BY ConfigAssumption, WordAssumption, EscalationAssumption
<1> DEFINE k == Lesser(n, WordBits - 1)
           p == PowerOfTwo[k]
           w == PowerOfTwo[WordBits]
           x == BaseCooldown * p
<1>2. k \in 0 .. Lesser(MaxStreak, WordBits - 1) /\ k \in 0 .. WordBits - 1
  BY <1>1 DEF Lesser
<1>3. p \in Nat /\ w \in Nat \ {0}
  BY <1>1, <1>2, WordAssumption
<1>4. x < w \/ MaxCooldown <= x % w
  BY <1>2 DEF BackoffFits, ShiftedLeft
<1>5. Backoff(n) = Lesser(x % w, MaxCooldown)
  BY <1>1 DEF Backoff, ShiftedLeft
<1>6. x \in Nat
  BY <1>1, <1>3
<1>7. Documented[n] = Doubled(n)
  BY <1>1, DocumentedIsDoubled DEF BackoffFits
<1>8. Doubled(n) = Lesser(x, MaxCooldown)
  <2>1. CASE n < WordBits
    <3>1. k = n
      BY <1>1, <2>1 DEF Lesser
    <3>2. QED BY <2>1, <3>1 DEF Doubled
  <2>2. CASE ~(n < WordBits)
    <3>1. k = WordBits - 1
      BY <1>1, <2>2 DEF Lesser
    <3>2. MaxCooldown <= p
      BY <3>1 DEF BackoffFits
    <3>3. p <= x
      BY <1>1, <1>3
    <3> HIDE DEF x, p
    <3>4. MaxCooldown <= x
      BY <1>1, <1>3, <1>6, <3>2, <3>3
    <3>5. Doubled(n) = MaxCooldown
      BY <2>2 DEF Doubled
    <3>6. QED BY <1>1, <1>6, <3>4, <3>5 DEF Lesser
  <2>3. QED BY <2>1, <2>2
<1> HIDE DEF x, w, p, k
<1>9. x % w \in Nat /\ x % w <= x /\ (x < w => x % w = x)
  BY <1>3, <1>6
<1>10. Lesser(x % w, MaxCooldown) = Lesser(x, MaxCooldown)
  BY <1>1, <1>4, <1>6, <1>9 DEF Lesser
<1>11. QED BY <1>5, <1>7, <1>8, <1>10

(* WaitFollowsBackoff: where no streak of the run loses a bit it needs,    *)
(* the wait is the documented backoff give or take its jitter, or the      *)
(* honored Retry-After when that is longer.                                *)
THEOREM WaitIsDocumented == ASSUME BackoffFits PROVE EscalationSpec => []WaitFollowsBackoff
<1>1. ASSUME WaitsInv PROVE WaitFollowsBackoff
  <2> SUFFICES ASSUME streak > 0 PROVE WaitFollowsBackoff
    BY DEF WaitFollowsBackoff
  <2> DEFINE d == Documented[streak]
             band == Greater(d \div 10, 1)
             low == Greater(d - band, d \div 2)
             high == Lesser(d + band, MaxCooldown)
             server == Lesser(hint, MaxHonoredRetryAfter)
  <2>1. streak \in 1 .. MaxStreak /\ streak \in Nat
    BY <1>1, EscalationAssumption DEF WaitsInv
  <2>2. d = Backoff(streak)
    BY <2>1, BackoffIsDocumented
  <2>3. d \in Nat /\ d <= MaxCooldown /\ MaxCooldown \in Nat /\ MaxHonoredRetryAfter \in Nat
    BY <2>1, <2>2, BackoffTyped, ConfigAssumption
  <2>4. PICK x \in Jittered(Backoff(streak)) : wait = Greater(x, HintFloor(hint))
    BY <1>1 DEF WaitsInv, Cooldowns
  <2>5. PICK j \in -band .. band :
          x = Lesser(Greater(Greater(d + j, 0), d \div 2), MaxCooldown)
    <3>1. x \in Jittered(d)
      BY <2>2, <2>4
    <3> HIDE DEF d
    <3>2. QED BY <3>1 DEF Jittered
  <2>6. hint \in Nat \/ hint = -1
    BY <1>1, EscalationAssumption DEF WaitsInv, Hints, NoHint
  <2>7. HintFloor(hint) = IF HonorRetryAfter /\ hint # -1 THEN server ELSE 0
    BY DEF HintFloor, NoHint
  <2> HIDE DEF d
  <2>8. band \in Nat /\ d \div 2 \in Nat /\ d \div 2 <= d
    BY <2>3 DEF Greater
  <2> HIDE DEF band
  <2>9. low <= x /\ x <= high /\ low \in Nat /\ high \in Nat /\ x \in Nat
    BY <2>3, <2>5, <2>8 DEF Lesser, Greater
  <2>10. (hint = -1 => server = -1) /\ (hint # -1 => server \in Nat)
    BY <2>3, <2>6 DEF Lesser
  <2> HIDE DEF low, high, server
  <2>11. IF HonorRetryAfter /\ server > high
         THEN wait = server
         ELSE Greater(low, IF HonorRetryAfter THEN server ELSE 0) <= wait /\ wait <= high
    <3>1. CASE ~HonorRetryAfter \/ hint = -1
      <4>1. wait = x
        BY <2>4, <2>7, <2>9, <3>1 DEF Greater
      <4>2. HonorRetryAfter => server = -1
        BY <2>10, <3>1
      <4>3. QED BY <2>9, <4>1, <4>2 DEF Greater
    <3>2. CASE HonorRetryAfter /\ hint # -1
      <4>1. wait = Greater(x, server) /\ server \in Nat
        BY <2>4, <2>7, <2>10, <3>2
      <4>2. QED BY <2>9, <3>2, <4>1 DEF Greater
    <3>3. QED BY <3>1, <3>2
  <2>12. QED BY <2>11 DEF WaitFollowsBackoff, d, band, low, high, server
<1>2. QED BY <1>1, EveryWait, PTL

(* BackoffSaturates: where it fits the backoff of a long streak stays at   *)
(* the maximum; that it does not always fit is what cooldown_overflow      *)
(* shows.                                                                  *)
THEOREM SaturatesWhereItFits == ASSUME BackoffFits PROVE EscalationSpec => []BackoffSaturates
<1>1. ASSUME WaitsInv PROVE BackoffSaturates
  <2> SUFFICES ASSUME streak > 0, Documented[streak] = MaxCooldown
               PROVE  wait >= MaxCooldown \div 2
    BY DEF BackoffSaturates
  <2>1. streak \in 1 .. MaxStreak /\ streak \in Nat /\ hint \in Nat \cup {NoHint}
    BY <1>1, EscalationAssumption DEF WaitsInv, Hints
  <2>2. Backoff(streak) = MaxCooldown
    BY <2>1, BackoffIsDocumented
  <2>3. wait \in Cooldowns(streak, hint)
    BY <1>1 DEF WaitsInv
  <2>4. wait \in Nat /\ Backoff(streak) \div 2 <= wait
    BY <2>1, <2>3, CooldownBounds
  <2>5. MaxCooldown \div 2 \in Nat
    BY ConfigAssumption
  <2>6. QED BY <2>2, <2>4, <2>5
<1>2. QED BY <1>1, EveryWait, PTL
=============================================================================
