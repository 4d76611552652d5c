---------------------------- MODULE StreamProofs ----------------------------
(***************************************************************************)
(* A streamed answer reaches its client in order, with its end told and    *)
(* its books settled, whatever its backend sends and wherever it stops,    *)
(* for any cap on open tools and any indices on the wire.                  *)
(*                                                                         *)
(* The proof follows an answer from end to end.  The events a reader makes *)
(* of a backend's frames tell a tale: opened, extended, counted, over or   *)
(* failed (Tale).  Each reader is shown to answer every frame with events  *)
(* that take the tale to where the backend is (BackendAnswers), each       *)
(* writer to give an event frames of its shape (WritersShape), and the     *)
(* translator to keep the client's phase that of the tale (FoldLeads).     *)
(* StreamInv joins them: what has been written and not been read is a run  *)
(* of the client's automaton (Hearing), from its phase to the tale's.      *)
(*                                                                         *)
(* The translator folds the events of a frame; what it does with any       *)
(* number of them is an induction over that number, with the property as   *)
(* a set (EveryNumber).                                                    *)
(***************************************************************************)
EXTENDS FirstByteBody, FiniteSetTheorems, SequenceTheorems, WellFoundedInduction, TLAPS

-----------------------------------------------------------------------------
(* Induction, with the property as the set of what has it.                 *)

(* A set of numbers that holds 0 and every successor holds all of them.    *)
LEMMA EveryNumber ==
  ASSUME NEW P \in SUBSET Nat, 0 \in P, \A n \in P : n + 1 \in P
  PROVE  \A n \in Nat : n \in P
<1> DEFINE R == OpToRel(<, Nat)
           others == Nat \ P
<1>1. IsWellFoundedOn(R, Nat)
  BY NatLessThanWellFounded
<1>2. R = {ss \in Nat \X Nat : ss[1] < ss[2]}
  BY DEF OpToRel
<1> HIDE DEF R
<1> SUFFICES ASSUME others # {} PROVE FALSE
  OBVIOUS
<1>3. PICK n \in others : \A m \in others : ~(<<m, n>> \in R)
  BY <1>1, WFMin
<1>4. n \in Nat /\ n # 0
  BY <1>3
<1>5. n - 1 \in Nat /\ n - 1 < n
  BY <1>4
<1>6. <<n - 1, n>> \in Nat \X Nat /\ <<n - 1, n>>[1] < <<n - 1, n>>[2]
  BY <1>4, <1>5
<1>7. <<n - 1, n>> \in R
  BY <1>2, <1>6
<1>8. n - 1 \in P
  BY <1>3, <1>5, <1>7
<1>9. (n - 1) + 1 \in P
  BY <1>8
<1>10. QED BY <1>3, <1>4, <1>9

-----------------------------------------------------------------------------
(* The fold of the translator over the events of a frame.                  *)

(* A set of numbers up to n has a largest one.                             *)
LEMMA LargestFound ==
  ASSUME NEW n \in Nat, NEW s \in SUBSET (1 .. n), s # {}
  PROVE  Max(s) \in s /\ \A y \in s : Max(s) >= y
<1> DEFINE P == {m \in Nat : \A t \in SUBSET (1 .. m) : t # {} => \E x \in t : \A y \in t : x >= y}
<1>1. 0 \in P
  <2>1. 1 .. 0 = {}
    OBVIOUS
  <2>2. QED BY <2>1
<1>2. ASSUME NEW m \in P PROVE m + 1 \in P
  <2> SUFFICES ASSUME NEW t \in SUBSET (1 .. m + 1), t # {}
               PROVE  \E x \in t : \A y \in t : x >= y
    OBVIOUS
  <2>1. CASE m + 1 \in t
    BY <2>1
  <2>2. CASE m + 1 \notin t
    <3>1. t \in SUBSET (1 .. m)
      BY <2>2
    <3>2. QED BY <3>1
  <2>3. QED BY <2>1, <2>2
<1> HIDE DEF P
<1>3. n \in P
  <2>1. P \in SUBSET Nat
    BY DEF P
  <2>2. QED BY <1>1, <1>2, <2>1, EveryNumber
<1>4. \E x \in s : \A y \in s : x >= y
  BY <1>3 DEF P
<1>5. QED BY <1>4 DEF Max

\* The function that FoldLeft looks up: what is left of x when the events of
\* a set of places have been translated in their order.
Latest(it, x, s, t) == IF t = {} THEN x ELSE Translate(it[t \ {Max(t)}], s[Max(t)])
Iterates(it, x, s, S) == it = [t \in SUBSET S |-> Latest(it, x, s, t)]

(* There is such a function.                                               *)
LEMMA IteratesExist ==
  ASSUME NEW x, NEW s, NEW n \in Nat
  PROVE  \E it : Iterates(it, x, s, 1 .. n)
<1> DEFINE S == 1 .. n
           upTo(m) == {t \in SUBSET S : Cardinality(t) <= m}
           P == {m \in Nat : \E g : g = [t \in upTo(m) |-> Latest(g, x, s, t)]}
<1>1. IsFiniteSet(S)
  BY FS_Interval
<1>2. \A t \in SUBSET S :
        /\ IsFiniteSet(t) /\ Cardinality(t) \in Nat
        /\ t # {} => /\ Max(t) \in t
                     /\ Cardinality(t \ {Max(t)}) = Cardinality(t) - 1
  <2> SUFFICES ASSUME NEW t \in SUBSET S
               PROVE  /\ IsFiniteSet(t) /\ Cardinality(t) \in Nat
                      /\ t # {} => /\ Max(t) \in t
                                   /\ Cardinality(t \ {Max(t)}) = Cardinality(t) - 1
    OBVIOUS
  <2>1. IsFiniteSet(t) /\ Cardinality(t) \in Nat
    BY <1>1, FS_Subset, FS_CardinalityType
  <2>2. t # {} => Max(t) \in t
    BY LargestFound
  <2>3. QED BY <2>1, <2>2, FS_RemoveElement
<1> HIDE DEF S
<1>3. 0 \in P
  <2> DEFINE g == [t \in upTo(0) |-> x]
  <2>1. ASSUME NEW t \in upTo(0) PROVE t = {}
    <3>1. Cardinality(t) \in Nat /\ Cardinality(t) <= 0 /\ IsFiniteSet(t)
      BY <1>2
    <3>2. Cardinality(t) = 0
      BY <3>1
    <3>3. QED BY <3>1, <3>2, FS_EmptySet
  <2>2. g = [t \in upTo(0) |-> Latest(g, x, s, t)]
    BY <2>1 DEF Latest
  <2> HIDE DEF g
  <2>3. QED BY <2>2, Zenon
<1>4. ASSUME NEW m \in P PROVE m + 1 \in P
  <2>1. PICK g : g = [t \in upTo(m) |-> Latest(g, x, s, t)]
    OBVIOUS
  <2> DEFINE h == [t \in upTo(m + 1) |-> Latest(g, x, s, t)]
  <2>2. ASSUME NEW t \in upTo(m + 1), t # {}
        PROVE  t \ {Max(t)} \in upTo(m)
    BY <1>2, <2>2
  <2>3. \A t \in upTo(m) : t \in upTo(m + 1) /\ h[t] = g[t]
    <3> SUFFICES ASSUME NEW t \in upTo(m) PROVE t \in upTo(m + 1) /\ h[t] = g[t]
      OBVIOUS
    <3>1. Cardinality(t) \in Nat /\ Cardinality(t) <= m /\ m \in Nat
      BY <1>2
    <3> HIDE DEF P
    <3>4. t \in upTo(m + 1)
      BY <3>1
    <3>2. g[t] = Latest(g, x, s, t)
      BY <2>1
    <3>3. QED BY <3>4, <3>2
  <2>4. \A t \in upTo(m + 1) : Latest(g, x, s, t) = Latest(h, x, s, t)
    <3> SUFFICES ASSUME NEW t \in upTo(m + 1) PROVE Latest(g, x, s, t) = Latest(h, x, s, t)
      OBVIOUS
    <3> HIDE DEF h
    <3>1. t # {} => h[t \ {Max(t)}] = g[t \ {Max(t)}]
      BY <2>2, <2>3
    <3>2. QED BY <3>1 DEF Latest
  <2>5. h = [t \in upTo(m + 1) |-> Latest(h, x, s, t)]
    BY <2>4
  <2> HIDE DEF h
  <2>6. \E k : k = [t \in upTo(m + 1) |-> Latest(k, x, s, t)]
    BY <2>5, Zenon
  <2>7. m + 1 \in Nat
    OBVIOUS
  <2>8. QED BY <2>6, <2>7, Zenon
<1> HIDE DEF P
<1>5. \A m \in Nat : m \in P
  <2>1. P \in SUBSET Nat
    BY DEF P
  <2>2. QED BY <1>3, <1>4, <2>1, EveryNumber
<1>6. Cardinality(S) \in Nat
  BY <1>1, FS_CardinalityType
<1>7. PICK g : g = [t \in upTo(Cardinality(S)) |-> Latest(g, x, s, t)]
  BY <1>5, <1>6 DEF P
<1>8. upTo(Cardinality(S)) = SUBSET S
  BY <1>1, FS_Subset
<1>9. Iterates(g, x, s, S)
  BY <1>7, <1>8 DEF Iterates
<1>10. QED BY <1>9 DEF S

\* A translator on its way through the events s: h[n] is what it is after
\* the first n of them.
Follows(h, x, s) ==
  /\ h[0] = x
  /\ \A n \in 1 .. Len(s) : h[n] = Translate(h[n - 1], s[n])

(* FoldLeft is the end of that way.                                        *)
LEMMA FoldFollows ==
  ASSUME NEW x, NEW S, NEW s \in Seq(S)
  PROVE  \E h : Follows(h, x, s) /\ FoldLeft(Translate, x, s) = h[Len(s)]
<1> DEFINE it == CHOOSE g : Iterates(g, x, s, 1 .. Len(s))
           h == [n \in 0 .. Len(s) |-> it[1 .. n]]
<1>1. Len(s) \in Nat /\ DOMAIN s = 1 .. Len(s)
  OBVIOUS
<1>2. FoldLeft(Translate, x, s) = it[1 .. Len(s)]
  <2>1. FoldLeft(Translate, x, s) = (CHOOSE g : Iterates(g, x, s, DOMAIN s))[DOMAIN s]
    BY Zenon DEF FoldLeft, MapThenFoldSet, Iterates, Latest
  <2>2. QED BY <1>1, <2>1
<1>3. Iterates(it, x, s, 1 .. Len(s))
  BY <1>1, IteratesExist, Zenon
<1> HIDE DEF it
<1>4. \A t \in SUBSET (1 .. Len(s)) : it[t] = Latest(it, x, s, t)
  BY <1>3 DEF Iterates
<1>5. h[0] = x
  <2>1. 1 .. 0 = {} /\ 0 \in 0 .. Len(s)
    BY <1>1
  <2>2. it[{}] = x
    BY <1>4 DEF Latest
  <2>3. QED BY <2>1, <2>2
<1>6. ASSUME NEW n \in 1 .. Len(s) PROVE h[n] = Translate(h[n - 1], s[n])
  <2>1. 1 .. n \in SUBSET (1 .. Len(s)) /\ 1 .. n # {} /\ n \in Nat /\ n \in 1 .. n
    <3>1. n \in Nat /\ n >= 1 /\ n <= Len(s)
      BY <1>1
    <3>2. n \in 1 .. n
      BY <3>1
    <3>3. \A i \in 1 .. n : i \in 1 .. Len(s)
      BY <1>1, <3>1
    <3>4. QED BY <3>1, <3>2, <3>3
  <2>2. Max(1 .. n) = n
    <3>1. Max(1 .. n) \in 1 .. n /\ Max(1 .. n) >= n
      BY <2>1, LargestFound
    <3>2. QED BY <2>1, <3>1
  <2>3. (1 .. n) \ {n} = 1 .. (n - 1)
    BY <2>1
  <2>4. it[1 .. n] = Translate(it[1 .. (n - 1)], s[n])
    BY <1>4, <2>1, <2>2, <2>3 DEF Latest
  <2>5. n \in 0 .. Len(s) /\ n - 1 \in 0 .. Len(s)
    BY <1>1, <2>1
  <2>6. QED BY <2>4, <2>5
<1>7. h[Len(s)] = it[1 .. Len(s)]
  BY <1>1
<1> HIDE DEF h
<1>8. Follows(h, x, s)
  BY <1>5, <1>6 DEF Follows
<1>9. QED BY <1>2, <1>7, <1>8

-----------------------------------------------------------------------------
(* Runs: a sequence read step by step, from one place to another.  M holds *)
(* the steps, as triples of a place, what is read there and the next place.*)

Run(M, p, s, q) ==
  \E h : /\ h[0] = p /\ h[Len(s)] = q
         /\ \A n \in 1 .. Len(s) : <<h[n - 1], s[n], h[n]>> \in M

\* Nothing read leaves one where one was.
LEMMA RunNothing ==
  ASSUME NEW M, NEW p, NEW q
  PROVE  Run(M, p, <<>>, q) <=> p = q
<1>1. Len(<<>>) = 0 /\ 1 .. 0 = {}
  OBVIOUS
<1>2. ASSUME p = q PROVE Run(M, p, <<>>, q)
  <2> DEFINE h == [n \in {0} |-> p]
  <2>1. h[0] = p
    OBVIOUS
  <2> HIDE DEF h
  <2>2. QED BY <1>1, <1>2, <2>1 DEF Run
<1>3. ASSUME Run(M, p, <<>>, q) PROVE p = q
  BY <1>1, <1>3 DEF Run
<1>4. QED BY <1>2, <1>3

\* One step is a run.
LEMMA RunOne ==
  ASSUME NEW M, NEW p, NEW q, NEW f, <<p, f, q>> \in M
  PROVE  Run(M, p, <<f>>, q)
<1> DEFINE h == [n \in 0 .. 1 |-> IF n = 0 THEN p ELSE q]
           s == <<f>>
<1>1. Len(s) = 1 /\ s[1] = f
  OBVIOUS
<1>2. h[0] = p /\ h[1] = q
  OBVIOUS
<1> HIDE DEF h, s
<1>3. \A n \in 1 .. Len(s) : <<h[n - 1], s[n], h[n]>> \in M
  <2>1. \A n \in 1 .. Len(s) : n = 1 /\ n - 1 = 0
    BY <1>1
  <2>2. <<h[0], s[1], h[1]>> \in M
    BY <1>1, <1>2
  <2>3. QED BY <2>1, <2>2
<1>4. Run(M, p, s, q)
  BY <1>1, <1>2, <1>3 DEF Run
<1>5. QED BY <1>4 DEF s

\* Two runs in a row are a run.
LEMMA RunBoth ==
  ASSUME NEW M, NEW p, NEW q, NEW r, NEW S, NEW s \in Seq(S), NEW t \in Seq(S),
         Run(M, p, s, q), Run(M, q, t, r)
  PROVE  Run(M, p, s \o t, r)
<1>1. PICK h : /\ h[0] = p /\ h[Len(s)] = q
               /\ \A n \in 1 .. Len(s) : <<h[n - 1], s[n], h[n]>> \in M
  BY DEF Run
<1>2. PICK k : /\ k[0] = q /\ k[Len(t)] = r
               /\ \A n \in 1 .. Len(t) : <<k[n - 1], t[n], k[n]>> \in M
  BY DEF Run
<1> DEFINE a == Len(s)
           b == Len(t)
           st == s \o t
           j == [n \in 0 .. a + b |-> IF n <= a THEN h[n] ELSE k[n - a]]
<1>3. a \in Nat /\ b \in Nat
  OBVIOUS
<1>4. Len(st) = a + b
  OBVIOUS
<1>5. \A n \in 1 .. a + b : st[n] = IF n <= a THEN s[n] ELSE t[n - a]
  OBVIOUS
<1> HIDE DEF st
<1>6. j[0] = p /\ j[a + b] = r
  <2>1. j[0] = h[0]
    BY <1>3
  <2>2. CASE b = 0
    <3>1. j[a + b] = h[a] /\ k[b] = q
      BY <1>2, <1>3, <2>2
    <3>2. QED BY <1>1, <1>2, <2>1, <3>1
  <2>3. CASE b # 0
    <3>1. j[a + b] = k[b]
      <4>1. a + b \in 0 .. a + b /\ ~(a + b <= a) /\ (a + b) - a = b
        BY <1>3, <2>3
      <4> HIDE DEF a, b
      <4>2. QED BY <4>1
    <3>2. QED BY <1>1, <1>2, <2>1, <3>1
  <2>4. QED BY <2>2, <2>3
<1>7. ASSUME NEW n \in 1 .. a + b PROVE <<j[n - 1], st[n], j[n]>> \in M
  <2>1. n \in Nat /\ n \in 0 .. a + b /\ n - 1 \in 0 .. a + b /\ n >= 1
    BY <1>3
  <2>2. CASE n <= a
    <3>1. n \in 1 .. a /\ n - 1 <= a
      BY <1>3, <2>1, <2>2
    <3>2. j[n] = h[n] /\ j[n - 1] = h[n - 1] /\ st[n] = s[n]
      BY <1>5, <2>1, <2>2, <3>1
    <3>3. QED BY <1>1, <3>1, <3>2
  <2>3. CASE ~(n <= a)
    <3>1. n - a \in 1 .. b
      BY <1>3, <2>1, <2>3
    <3>2. j[n] = k[n - a] /\ st[n] = t[n - a]
      BY <1>5, <2>1, <2>3
    <3>3. j[n - 1] = k[(n - a) - 1]
      <4>1. CASE n - 1 = a
        <5>1. n - 1 <= a /\ (n - a) - 1 = 0
          BY <1>3, <2>1, <4>1
        <5>2. j[n - 1] = h[n - 1] /\ n - 1 = a /\ k[(n - a) - 1] = k[0]
          BY <2>1, <4>1, <5>1
        <5>3. QED BY <1>1, <1>2, <5>2
      <4>2. CASE n - 1 # a
        <5>1. ~(n - 1 <= a) /\ (n - 1) - a = (n - a) - 1
          BY <1>3, <2>1, <2>3, <4>2
        <5>2. QED BY <2>1, <5>1
      <4>3. QED BY <4>1, <4>2
    <3>4. QED BY <1>2, <3>1, <3>2, <3>3
  <2>4. QED BY <2>2, <2>3
<1> HIDE DEF j
<1>8. QED BY <1>4, <1>6, <1>7 DEF Run, st

\* A run that is not over begins with a step.
LEMMA RunHead ==
  ASSUME NEW M, NEW p, NEW q, NEW S, NEW s \in Seq(S), s # <<>>, Run(M, p, s, q)
  PROVE  \E r : <<p, Head(s), r>> \in M /\ Run(M, r, Tail(s), q)
<1>1. PICK h : /\ h[0] = p /\ h[Len(s)] = q
               /\ \A n \in 1 .. Len(s) : <<h[n - 1], s[n], h[n]>> \in M
  BY DEF Run
<1> DEFINE k == [n \in 0 .. Len(s) - 1 |-> h[n + 1]]
           t == Tail(s)
<1>2. Len(s) \in Nat /\ Len(s) >= 1 /\ Head(s) = s[1] /\ Len(t) = Len(s) - 1
      /\ \A n \in 1 .. Len(s) - 1 : t[n] = s[n + 1]
  <2>1. Len(s) \in Nat /\ Len(s) # 0
    OBVIOUS
  <2>2. QED BY <2>1
<1> HIDE DEF t
<1>3. <<p, Head(s), h[1]>> \in M
  <2>1. 1 \in 1 .. Len(s) /\ 1 - 1 = 0
    BY <1>2
  <2>2. QED BY <1>1, <1>2, <2>1
<1>4. k[0] = h[1] /\ k[Len(t)] = q
  <2>1. 0 \in 0 .. Len(s) - 1 /\ Len(s) - 1 \in 0 .. Len(s) - 1 /\ 0 + 1 = 1 /\ (Len(s) - 1) + 1 = Len(s)
    BY <1>2
  <2>2. QED BY <1>1, <1>2, <2>1
<1>5. ASSUME NEW n \in 1 .. Len(t) PROVE <<k[n - 1], t[n], k[n]>> \in M
  <2>1. /\ n \in Nat /\ n + 1 \in 1 .. Len(s) /\ n \in 0 .. Len(s) - 1 /\ n - 1 \in 0 .. Len(s) - 1
        /\ (n - 1) + 1 = n /\ (n + 1) - 1 = n /\ n \in 1 .. Len(s) - 1
    BY <1>2
  <2>2. <<h[n], s[n + 1], h[n + 1]>> \in M
    BY <1>1, <2>1
  <2>3. QED BY <1>2, <2>1, <2>2
<1> HIDE DEF k
<1>6. Run(M, h[1], t, q)
  BY <1>4, <1>5 DEF Run
<1>7. QED BY <1>3, <1>6 DEF t

(* What is read without moving.                                            *)
LEMMA RunInPlace ==
  ASSUME NEW M, NEW p, NEW S, NEW s \in Seq(S), \A f \in S : <<p, f, p>> \in M
  PROVE  Run(M, p, s, p)
<1> DEFINE h == [n \in 0 .. Len(s) |-> p]
<1>1. Len(s) \in Nat /\ \A n \in 1 .. Len(s) : s[n] \in S
  OBVIOUS
<1>2. h[0] = p /\ h[Len(s)] = p /\ \A n \in 1 .. Len(s) : h[n] = p /\ h[n - 1] = p
  BY <1>1
<1> HIDE DEF h
<1>3. QED BY <1>1, <1>2 DEF Run

(* A set of pairs of a place and a translator that every step keeps, a     *)
(* fold keeps.                                                             *)
Kept(M, S, Good) ==
  \A e \in S : \A a, b, y :
     <<a, e, b>> \in M /\ <<a, y>> \in Good => <<b, Translate(y, e)>> \in Good

\* The fold of the translator keeps what each of its steps keeps.
LEMMA FoldKeeps ==
  ASSUME NEW M, NEW S, NEW s \in Seq(S), NEW g, NEW k, Run(M, g, s, k), NEW Good,
         NEW x, <<g, x>> \in Good, Kept(M, S, Good)
  PROVE  <<k, FoldLeft(Translate, x, s)>> \in Good
<1>1. PICK h : Follows(h, x, s) /\ FoldLeft(Translate, x, s) = h[Len(s)]
  BY FoldFollows
<1>2. PICK m : /\ m[0] = g /\ m[Len(s)] = k
               /\ \A n \in 1 .. Len(s) : <<m[n - 1], s[n], m[n]>> \in M
  BY DEF Run
<1> DEFINE P == {n \in Nat : n <= Len(s) => <<m[n], h[n]>> \in Good}
<1>3. Len(s) \in Nat /\ \A n \in 1 .. Len(s) : s[n] \in S
  OBVIOUS
<1>4. 0 \in P
  BY <1>1, <1>2 DEF Follows
<1>5. ASSUME NEW n \in P PROVE n + 1 \in P
  <2> SUFFICES ASSUME n + 1 <= Len(s) PROVE <<m[n + 1], h[n + 1]>> \in Good
    OBVIOUS
  <2>1. n \in Nat /\ n + 1 \in 1 .. Len(s) /\ (n + 1) - 1 = n /\ n <= Len(s)
    BY <1>3
  <2>2. <<m[n], h[n]>> \in Good
    BY <2>1
  <2>3. <<m[n], s[n + 1], m[n + 1]>> \in M /\ s[n + 1] \in S
    BY <1>2, <1>3, <2>1
  <2>4. h[n + 1] = Translate(h[n], s[n + 1])
    BY <1>1, <2>1 DEF Follows
  <2>5. QED BY <2>2, <2>3, <2>4 DEF Kept
<1> HIDE DEF P
<1>6. Len(s) \in P
  <2>1. P \in SUBSET Nat
    BY DEF P
  <2>2. QED BY <1>3, <1>4, <1>5, <2>1, EveryNumber
<1>7. QED BY <1>1, <1>2, <1>3, <1>6 DEF P

-----------------------------------------------------------------------------
(* The events of a reader, the frames of a writer and the translator's     *)
(* state.                                                                  *)

Starts        == [type : {"MessageStart"}, usage : Usage]
BlockStarts   == [type : {"BlockStart"}, index : Nat, kind : Blocks]
BlockDeltas   == [type : {"BlockDelta"}, index : Nat, kind : Blocks \cup {"citations"}]
BlockStops    == [type : {"BlockStop"}, index : Nat]
MessageDeltas == [type : {"MessageDelta"}, final : BOOLEAN, usage : Usage]
MessageStops  == [type : {"MessageStop"}]
Errors        == [type : {"Error"}]
Events == Starts \cup BlockStarts \cup BlockDeltas \cup BlockStops
            \cup MessageDeltas \cup MessageStops \cup Errors

Frames == Events \cup [type : {"BlockStop"}, index : Nat, kind : Blocks]
            \cup [type : {"MessageDelta"}, output : SUBSET Nat]
            \cup [type : {"Trailer", "Metadata", "Done", "Call", "Raw"}]

Writer == [opened : SUBSET (Blocks \X Nat), output : SUBSET Nat]
Translator == [start : Usage, last : Usage, stopped : BOOLEAN, failed : BOOLEAN,
               aborted : BOOLEAN, emitted : BOOLEAN, pending : BOOLEAN,
               writer : Writer, out : Seq(Frames)]

\* The type of an event says which of the sets it is in.
LEMMA EventCases ==
  ASSUME NEW ev \in Events
  PROVE  /\ ev.type = "MessageStart" => ev \in Starts
         /\ ev.type = "BlockStart" => ev \in BlockStarts
         /\ ev.type = "BlockDelta" => ev \in BlockDeltas
         /\ ev.type = "BlockStop" => ev \in BlockStops
         /\ ev.type = "MessageDelta" => ev \in MessageDeltas
         /\ ev.type = "MessageStop" => ev \in MessageStops
         /\ ev.type = "Error" => ev \in Errors
         /\ ev.type \in {"MessageStart", "BlockStart", "BlockDelta", "BlockStop",
                         "MessageDelta", "MessageStop", "Error"}
         /\ ev \in Frames
BY DEF Events, Starts, BlockStarts, BlockDeltas, BlockStops, MessageDeltas, MessageStops,
       Errors, Frames

\* The frames that stand for no event are frames.
LEMMA FramesTyped ==
  /\ \A t \in {"Trailer", "Metadata", "Done", "Call", "Raw"} : Frame(t) \in Frames
  /\ StreamError \in Frames /\ StreamError \in Events
  /\ \A k \in Blocks, i \in Nat : Closes(k, i) \in Frames
BY DEF Frames, Frame, StreamError, Closes, Events, Errors

\* Sequences of none, one or two.
LEMMA ShortSeqs ==
  /\ \A S : <<>> \in Seq(S)
  /\ \A S : \A f \in S : <<f>> \in Seq(S)
  /\ \A S : \A f, g \in S : <<f, g>> \in Seq(S)
OBVIOUS

\* Concatenations of none or one.
LEMMA ShortConcat ==
  ASSUME NEW f, NEW g
  PROVE  <<f>> \o <<>> = <<f>> /\ <<f>> \o <<g>> = <<f, g>> /\ <<>> \o <<f>> = <<f>>
<1> DEFINE S == {f, g}
<1>1. <<>> \in Seq(S) /\ <<f>> \in Seq(S) /\ <<g>> \in Seq(S)
  OBVIOUS
<1>2. <<f>> \o <<>> = <<f>>
  BY <1>1
<1>3. <<f>> \o <<g>> = <<f, g>>
  <2> DEFINE s == <<f>> \o <<g>>
             t == <<f, g>>
  <2>1. s \in Seq(S) /\ t \in Seq(S)
    BY <1>1
  <2>2. Len(s) = 2 /\ s[1] = f /\ s[2] = g
    BY <1>1
  <2>3. Len(t) = 2 /\ t[1] = f /\ t[2] = g
    OBVIOUS
  <2> HIDE DEF s, t, S
  <2>4. \A n \in 1 .. Len(s) : s[n] = t[n]
    <3>1. \A n \in 1 .. 2 : n = 1 \/ n = 2
      OBVIOUS
    <3>2. QED BY <2>2, <2>3, <3>1
  <2>5. s = t
    BY <2>1, <2>2, <2>3, <2>4, SeqEqual
  <2>6. QED BY <2>5 DEF s, t
<1>4. <<>> \o <<f>> = <<f>>
  BY <1>1
<1>5. QED BY <1>2, <1>3, <1>4

\* Nothing before or after a sequence.
LEMMA EmptyConcat ==
  ASSUME NEW S, NEW s \in Seq(S)
  PROVE  <<>> \o s = s /\ s \o <<>> = s
OBVIOUS

\* One frame or none is a sequence of frames.
LEMMA OnlyTyped ==
  ASSUME NEW c \in BOOLEAN, NEW S, NEW f \in S
  PROVE  Only(c, f) \in Seq(S)
BY ShortSeqs DEF Only

-----------------------------------------------------------------------------
(* What a writer gives for an event.                                       *)

Written(w, ev) == CASE ingress = "anthropic" -> AnthropicWrite(w, ev)
                    [] ingress = "openai"    -> OpenAiWrite(w, ev)
                    [] ingress = "bedrock"   -> BedrockWrite(w, ev)
                    [] ingress = "gemini"    -> GeminiWrite(w, ev)
                    [] ingress = "cohere"    -> CohereWrite(w, ev)
                    [] ingress = "responses" -> ResponsesWrite(w, ev)

Growing == {f \in Frames : f.type \in {"BlockStart", "BlockDelta"}}
Ending  == {f \in Frames : f.type \in {"BlockStop", "Call"}}

\* What a writer of protocol i makes of each kind of event.
Shape(i, ev, frames) ==
  /\ ev.type \in {"BlockStart", "BlockDelta"} => frames \in Seq(Growing)
  /\ ev.type = "BlockStop" => frames \in Seq(Ending)
  /\ ev.type \in {"MessageStart", "Error"} => frames = <<ev>>
  /\ ev.type = "MessageStop" => frames = IF i = "anthropic" THEN <<ev>> ELSE <<>>
  /\ ev.type = "MessageDelta" /\ i = "bedrock" =>
       frames = IF ev.final THEN <<ev>> ELSE <<Frame("Metadata")>>
  /\ ev.type = "MessageDelta" /\ i # "bedrock" =>
       \E f \in Frames : /\ f.type = "MessageDelta"
                         /\ \/ frames = <<f>>
                            \/ i = "openai" /\ frames = <<f, Frame("Trailer")>>

Shaped(w, ev) ==
  /\ Written(w, ev).st \in Writer
  /\ Written(w, ev).out \in Seq(Frames)
  /\ Shape(ingress, ev, Written(w, ev).out)

\* An event that opens, extends or closes a block is a frame that does.
LEMMA EventInKind ==
  ASSUME NEW ev \in Events
  PROVE  /\ ev.type \in {"BlockStart", "BlockDelta"} => ev \in Growing
         /\ ev.type = "BlockStop" => ev \in Ending
         /\ ev \in Frames
         /\ Growing \subseteq Frames /\ Ending \subseteq Frames
BY EventCases DEF Growing, Ending

\* Frames of one kind are frames.
LEMMA KindSeqs ==
  ASSUME NEW s
  PROVE  (s \in Seq(Growing) => s \in Seq(Frames)) /\ (s \in Seq(Ending) => s \in Seq(Frames))
<1>1. Growing \subseteq Frames /\ Ending \subseteq Frames
  BY DEF Growing, Ending
<1>2. QED BY <1>1

\* The writer's memory of open blocks.
LEMMA OpeningTyped ==
  ASSUME NEW w \in Writer, NEW k \in Blocks, NEW i \in Nat
  PROVE  /\ [w EXCEPT !.opened = @ \cup {<<k, i>>}] \in Writer
         /\ End(w, k, i) \in Writer
         /\ [End(w, k, i) EXCEPT !.output = @ \cup {i}] \in Writer
         /\ [w EXCEPT !.output = {}] \in Writer
<1> DEFINE a == w.opened \cup {<<k, i>>}
           b == w.opened \ {<<k, i>>}
           c == w.output \cup {i}
<1>1. a \in SUBSET (Blocks \X Nat) /\ b \in SUBSET (Blocks \X Nat) /\ c \in SUBSET Nat
  BY DEF Writer
<1>5. [w EXCEPT !.opened = @ \cup {<<k, i>>}] = [opened |-> a, output |-> w.output]
  BY DEF Writer
<1>2. End(w, k, i) = [opened |-> b, output |-> w.output]
  BY DEF Writer, End
<1>6. [w EXCEPT !.output = {}] = [opened |-> w.opened, output |-> {}]
  BY DEF Writer
<1>4. [End(w, k, i) EXCEPT !.output = @ \cup {i}] = [opened |-> b, output |-> c]
  <2>1. End(w, k, i).output = w.output
    BY DEF Writer, End
  <2>2. End(w, k, i) = [opened |-> b, output |-> w.output]
    BY <1>2
  <2> HIDE DEF b
  <2>3. QED BY <2>1, <2>2
<1> HIDE DEF a, b, c
<1>3. QED BY <1>1, <1>2, <1>4, <1>5, <1>6 DEF Writer

\* What is held at an index is open there.
LEMMA HeldTyped ==
  ASSUME NEW w \in Writer, NEW i \in Nat, NEW kinds \in Seq(Blocks)
  PROVE  \A k \in Held(w, i, kinds) : k \in Blocks /\ <<k, i>> \in w.opened
<1> SUFFICES ASSUME NEW k \in Held(w, i, kinds) PROVE k \in Blocks /\ <<k, i>> \in w.opened
  OBVIOUS
<1>1. PICK n \in DOMAIN kinds : k = kinds[n] /\ <<kinds[n], i>> \in w.opened
  BY Zenon DEF Held
<1>2. kinds[n] \in Blocks
  OBVIOUS
<1>3. QED BY <1>1, <1>2

\* The anthropic writer.
LEMMA AnthropicShaped ==
  ASSUME NEW w \in Writer, NEW ev \in Events, ingress = "anthropic"
  PROVE  Shaped(w, ev)
<1>1. Written(w, ev).st = w /\ Written(w, ev).out = <<ev>>
  BY DEF Written, AnthropicWrite, Writes
<1>2. QED BY <1>1, EventCases, EventInKind, ShortSeqs DEF Shaped, Shape

\* The bedrock writer.
LEMMA BedrockShaped ==
  ASSUME NEW w \in Writer, NEW ev \in Events, ingress = "bedrock"
  PROVE  Shaped(w, ev)
<1>1. Written(w, ev) = BedrockWrite(w, ev)
  BY DEF Written
<1>2. CASE ev.type = "BlockDelta"
  <2>1. Written(w, ev).st = w /\ Written(w, ev).out = Only(ev.kind # "citations", ev)
    BY <1>1, <1>2 DEF BedrockWrite, Writes
  <2>2. Written(w, ev).out \in Seq(Growing)
    BY <1>2, <2>1, EventInKind, OnlyTyped
  <2>3. QED BY <1>2, <2>1, <2>2, KindSeqs DEF Shaped, Shape
<1>3. CASE ev.type = "MessageStop"
  <2>1. Written(w, ev).st = w /\ Written(w, ev).out = <<>>
    BY <1>1, <1>3 DEF BedrockWrite, Writes
  <2>2. QED BY <1>3, <2>1, ShortSeqs DEF Shaped, Shape
<1>4. CASE ev.type = "MessageDelta"
  <2>1. Written(w, ev).st = w /\ Written(w, ev).out = <<IF ev.final THEN ev ELSE Frame("Metadata")>>
    BY <1>1, <1>4 DEF BedrockWrite, Writes
  <2>2. QED BY <1>4, <2>1, ShortSeqs, EventInKind, FramesTyped DEF Shaped, Shape
<1>5. CASE ev.type \notin {"BlockDelta", "MessageStop", "MessageDelta"}
  <2>1. Written(w, ev).st = w /\ Written(w, ev).out = <<ev>>
    BY <1>1, <1>5 DEF BedrockWrite, Writes
  <2>2. QED BY <1>5, <2>1, EventInKind, ShortSeqs DEF Shaped, Shape
<1>6. QED BY <1>2, <1>3, <1>4, <1>5

\* The openai writer.
LEMMA OpenAiShaped ==
  ASSUME NEW w \in Writer, NEW ev \in Events, ingress = "openai"
  PROVE  Shaped(w, ev)
<1>1. Written(w, ev) = OpenAiWrite(w, ev)
  BY DEF Written
<1>2. CASE ev.type \in {"BlockStart", "BlockDelta"}
  <2>0. Written(w, ev).st = w
    BY <1>1 DEF OpenAiWrite, Writes
  <2>1. Written(w, ev).out = <<>> \/ Written(w, ev).out = <<ev>>
    <3>1. CASE ev.type = "BlockStart"
      <4>1. Written(w, ev).out = Only(ev.kind = "tool", ev)
        BY <1>1, <3>1 DEF OpenAiWrite, Writes
      <4>2. QED BY <4>1 DEF Only
    <3>2. CASE ev.type = "BlockDelta"
      <4>1. Written(w, ev).out = Only(ev.kind \in {"text", "tool"}, ev)
        BY <1>1, <3>2 DEF OpenAiWrite, Writes
      <4>2. QED BY <4>1 DEF Only
    <3>3. QED BY <1>2, <3>1, <3>2
  <2>2. Written(w, ev).out \in Seq(Growing)
    BY <1>2, <2>1, EventInKind, ShortSeqs
  <2>3. QED BY <1>2, <2>0, <2>1, <2>2, KindSeqs DEF Shaped, Shape
<1>3. CASE ev.type \in {"BlockStop", "MessageStop"}
  <2>1. Written(w, ev).st = w /\ Written(w, ev).out = <<>>
    BY <1>1, <1>3 DEF OpenAiWrite, Writes
  <2>2. QED BY <1>3, <2>1, ShortSeqs DEF Shaped, Shape
<1>4. CASE ev.type = "MessageDelta"
  <2> DEFINE c == ev.final /\ ev.usage # ZeroUsage
  <2>1. Written(w, ev).st = w /\ Written(w, ev).out = <<ev>> \o Only(c, Frame("Trailer"))
    BY <1>1, <1>4 DEF OpenAiWrite, Writes
  <2>2. Written(w, ev).out = <<ev>> \/ Written(w, ev).out = <<ev, Frame("Trailer")>>
    <3>1. Only(c, Frame("Trailer")) = <<>> \/ Only(c, Frame("Trailer")) = <<Frame("Trailer")>>
      BY Zenon DEF Only
    <3>2. <<ev>> \o <<>> = <<ev>> /\ <<ev>> \o <<Frame("Trailer")>> = <<ev, Frame("Trailer")>>
      BY ShortConcat
    <3> HIDE DEF c
    <3>3. QED BY Zenon, <2>1, <3>1, <3>2
  <2>3. QED BY <1>4, <2>1, <2>2, ShortSeqs, EventInKind, FramesTyped DEF Shaped, Shape
<1>5. CASE ev.type \notin {"BlockStart", "BlockDelta", "BlockStop", "MessageStop", "MessageDelta"}
  <2>1. Written(w, ev).st = w /\ Written(w, ev).out = <<ev>>
    BY <1>1, <1>5 DEF OpenAiWrite, Writes
  <2>2. QED BY <1>5, <2>1, EventInKind, ShortSeqs DEF Shaped, Shape
<1>6. QED BY <1>2, <1>3, <1>4, <1>5

\* The gemini writer.
LEMMA GeminiShaped ==
  ASSUME NEW w \in Writer, NEW ev \in Events, ingress = "gemini"
  PROVE  Shaped(w, ev)
<1>1. Written(w, ev) = GeminiWrite(w, ev)
  BY DEF Written
<1>2. CASE ev.type = "BlockStart"
  <2>1. Written(w, ev).out = <<>> /\ Written(w, ev).st \in {w, Begin(w, ev)}
    BY <1>1, <1>2 DEF GeminiWrite, Writes
  <2>2. Begin(w, ev) \in Writer
    BY <1>2, EventCases, OpeningTyped DEF Begin, BlockStarts
  <2>3. QED BY <1>2, <2>1, <2>2, ShortSeqs DEF Shaped, Shape
<1>3. CASE ev.type = "BlockDelta"
  <2>1. Written(w, ev).st = w /\ Written(w, ev).out = Only(ev.kind # "tool", ev)
    BY <1>1, <1>3 DEF GeminiWrite, Writes
  <2>2. Written(w, ev).out \in Seq(Growing)
    BY <1>3, <2>1, EventInKind, OnlyTyped
  <2>3. QED BY <1>3, <2>1, <2>2, KindSeqs DEF Shaped, Shape
<1>4. CASE ev.type = "BlockStop"
  <2>1. Written(w, ev).st = End(w, "tool", ev.index)
        /\ Written(w, ev).out = Only(<<"tool", ev.index>> \in w.opened, Frame("Call"))
    BY <1>1, <1>4 DEF GeminiWrite, Writes
  <2>2. End(w, "tool", ev.index) \in Writer
    BY <1>4, EventCases, OpeningTyped DEF BlockStops, Blocks
  <2>3. Frame("Call") \in Ending
    BY FramesTyped DEF Ending, Frame
  <2>4. Written(w, ev).out \in Seq(Ending)
    <3>1. Written(w, ev).out \in {<<>>, <<Frame("Call")>>}
      BY Zenon, <2>1 DEF Only
    <3>2. QED BY <2>3, <3>1, ShortSeqs
  <2>5. QED BY <1>4, <2>1, <2>2, <2>4, KindSeqs DEF Shaped, Shape
<1>5. CASE ev.type = "MessageStop"
  <2>1. Written(w, ev).st = w /\ Written(w, ev).out = <<>>
    BY <1>1, <1>5 DEF GeminiWrite, Writes
  <2>2. QED BY <1>5, <2>1, ShortSeqs DEF Shaped, Shape
<1>6. CASE ev.type \notin {"BlockStart", "BlockDelta", "BlockStop", "MessageStop"}
  <2>1. Written(w, ev).st = w /\ Written(w, ev).out = <<ev>>
    BY <1>1, <1>6 DEF GeminiWrite, Writes
  <2>2. QED BY <1>6, <2>1, EventInKind, ShortSeqs DEF Shaped, Shape
<1>7. QED BY <1>2, <1>3, <1>4, <1>5, <1>6

\* The cohere writer.
LEMMA CohereShaped ==
  ASSUME NEW w \in Writer, NEW ev \in Events, ingress = "cohere"
  PROVE  Shaped(w, ev)
<1>1. Written(w, ev) = CohereWrite(w, ev)
  BY DEF Written
<1>2. CASE ev.type = "BlockStart"
  <2>1. \/ Written(w, ev).out = <<>> /\ Written(w, ev).st = w
        \/ Written(w, ev).out = <<ev>> /\ Written(w, ev).st = Begin(w, ev)
    BY <1>1, <1>2 DEF CohereWrite, Writes
  <2>2. Begin(w, ev) \in Writer
    BY <1>2, EventCases, OpeningTyped DEF Begin, BlockStarts
  <2>3. QED BY <1>2, <2>1, <2>2, ShortSeqs, EventInKind DEF Shaped, Shape
<1>3. CASE ev.type = "BlockDelta"
  <2>1. Written(w, ev).st = w /\ Written(w, ev).out = Only(ev.kind \in {"text", "tool"}, ev)
    BY <1>1, <1>3 DEF CohereWrite, Writes
  <2>2. Written(w, ev).out \in Seq(Growing)
    <3>1. Written(w, ev).out \in {<<>>, <<ev>>}
      BY Zenon, <2>1 DEF Only
    <3>2. QED BY <1>3, <3>1, EventInKind, ShortSeqs
  <2>3. QED BY <1>3, <2>1, <2>2, KindSeqs DEF Shaped, Shape
<1>4. CASE ev.type = "BlockStop"
  <2> DEFINE held == Held(w, ev.index, <<"tool", "text">>)
  <2>1. \/ Written(w, ev).out = <<>> /\ Written(w, ev).st = w
        \/ /\ held # {}
           /\ Written(w, ev).out = <<Closes(The(held), ev.index)>>
           /\ Written(w, ev).st = End(w, The(held), ev.index)
    BY <1>1, <1>4 DEF CohereWrite, Writes
  <2>2. ev.index \in Nat /\ <<"tool", "text">> \in Seq(Blocks)
    BY <1>4, EventCases DEF BlockStops, Blocks
  <2>3. held # {} => The(held) \in Blocks
    BY <2>2, HeldTyped DEF The
  <2> HIDE DEF held
  <2>4. held # {} => Closes(The(held), ev.index) \in Ending
    BY <2>2, <2>3, FramesTyped DEF Ending, Closes
  <2>5. Written(w, ev).out \in Seq(Ending)
    BY <2>1, <2>4, ShortSeqs
  <2>6. Written(w, ev).st \in Writer
    BY <2>1, <2>2, <2>3, OpeningTyped
  <2>7. Written(w, ev).out \in Seq(Frames)
    BY <2>5, KindSeqs
  <2>8. QED BY <1>4, <2>5, <2>6, <2>7 DEF Shaped, Shape
<1>5. CASE ev.type = "MessageStop"
  <2>1. Written(w, ev).st = w /\ Written(w, ev).out = <<>>
    BY <1>1, <1>5 DEF CohereWrite, Writes
  <2>2. QED BY <1>5, <2>1, ShortSeqs DEF Shaped, Shape
<1>6. CASE ev.type \notin {"BlockStart", "BlockDelta", "BlockStop", "MessageStop"}
  <2>1. Written(w, ev).st = w /\ Written(w, ev).out = <<ev>>
    BY <1>1, <1>6 DEF CohereWrite, Writes
  <2>2. QED BY <1>6, <2>1, EventInKind, ShortSeqs DEF Shaped, Shape
<1>7. QED BY <1>2, <1>3, <1>4, <1>5, <1>6

\* The Responses writer.
LEMMA ResponsesShaped ==
  ASSUME NEW w \in Writer, NEW ev \in Events, ingress = "responses"
  PROVE  Shaped(w, ev)
<1>1. Written(w, ev) = ResponsesWrite(w, ev)
  BY DEF Written
<1>2. CASE ev.type = "BlockStart"
  <2>1. Written(w, ev) = ResponsesStart(w, ev)
    BY <1>1, <1>2 DEF ResponsesWrite
  <2> DEFINE room == Cardinality(OpenAs(w, ev.kind)) < MaxOpenTools
             open == <<ev.kind, ev.index>> \in w.opened
             c == ev.kind = "tool" \/ (room /\ ~open)
  <2>2. /\ Written(w, ev).st \in {w, Begin(w, ev)}
        /\ Written(w, ev).out = Only(c, ev)
    BY <2>1 DEF ResponsesStart, Writes
  <2>0. Only(c, ev) = <<>> \/ Only(c, ev) = <<ev>>
    BY Zenon DEF Only
  <2> HIDE DEF c
  <2>3. Begin(w, ev) \in Writer
    BY <1>2, EventCases, OpeningTyped DEF Begin, BlockStarts
  <2>4. Written(w, ev).out \in Seq(Growing)
    BY <1>2, <2>2, <2>0, EventInKind, ShortSeqs
  <2>5. QED BY <1>2, <2>2, <2>3, <2>4, KindSeqs DEF Shaped, Shape
<1>3. CASE ev.type = "BlockDelta"
  <2>1. Written(w, ev).st = w /\ Written(w, ev).out = Only(ev.kind # "citations", ev)
    BY <1>1, <1>3 DEF ResponsesWrite, Writes
  <2>2. Written(w, ev).out \in Seq(Growing)
    BY <1>3, <2>1, EventInKind, OnlyTyped
  <2>3. QED BY <1>3, <2>1, <2>2, KindSeqs DEF Shaped, Shape
<1>4. CASE ev.type = "BlockStop"
  <2> DEFINE held == Held(w, ev.index, <<"thinking", "tool", "text">>)
  <2>0. Written(w, ev) = ResponsesStop(w, ev)
    BY <1>1, <1>4 DEF ResponsesWrite
  <2>1. \/ Written(w, ev).out = <<>> /\ Written(w, ev).st = w
        \/ /\ held # {}
           /\ Written(w, ev).out = <<Closes(The(held), ev.index)>>
           /\ Written(w, ev).st = [End(w, The(held), ev.index) EXCEPT !.output = @ \cup {ev.index}]
    BY <2>0 DEF ResponsesStop, Writes
  <2>2. ev.index \in Nat /\ <<"thinking", "tool", "text">> \in Seq(Blocks)
    BY <1>4, EventCases DEF BlockStops, Blocks
  <2>3. held # {} => The(held) \in Blocks
    BY <2>2, HeldTyped DEF The
  <2> HIDE DEF held
  <2>4. held # {} => Closes(The(held), ev.index) \in Ending
    BY <2>2, <2>3, FramesTyped DEF Ending, Closes
  <2>5. Written(w, ev).out \in Seq(Ending)
    BY <2>1, <2>4, ShortSeqs
  <2>6. Written(w, ev).st \in Writer
    BY <2>1, <2>2, <2>3, OpeningTyped
  <2>7. Written(w, ev).out \in Seq(Frames)
    BY <2>5, KindSeqs
  <2>8. QED BY <1>4, <2>5, <2>6, <2>7 DEF Shaped, Shape
<1>5. CASE ev.type = "MessageStop"
  <2>1. Written(w, ev).st = w /\ Written(w, ev).out = <<>>
    BY <1>1, <1>5 DEF ResponsesWrite, Writes
  <2>2. QED BY <1>5, <2>1, ShortSeqs DEF Shaped, Shape
<1>6. CASE ev.type = "MessageDelta"
  <2> DEFINE f == [type |-> "MessageDelta", output |-> w.output]
  <2>1. Written(w, ev).st = [w EXCEPT !.output = {}] /\ Written(w, ev).out = <<f>>
    BY <1>1, <1>6 DEF ResponsesWrite, Writes
  <2>2. f \in Frames /\ f.type = "MessageDelta"
    BY DEF Frames, Writer
  <2> HIDE DEF f
  <2>3. [w EXCEPT !.output = {}] \in Writer
    BY DEF Writer
  <2>4. QED BY <1>6, <2>1, <2>2, <2>3, ShortSeqs DEF Shaped, Shape
<1>7. CASE ev.type = "MessageStart"
  <2>1. Written(w, ev).st = Unwritten /\ Written(w, ev).out = <<ev>>
    BY <1>1, <1>7 DEF ResponsesWrite, Writes
  <2>2. Unwritten \in Writer
    BY DEF Unwritten, Writer
  <2>3. QED BY <1>7, <2>1, <2>2, EventInKind, ShortSeqs DEF Shaped, Shape
<1>8. CASE ev.type = "Error"
  <2>1. Written(w, ev).st = w /\ Written(w, ev).out = <<ev>>
    BY <1>1, <1>8 DEF ResponsesWrite, Writes
  <2>2. QED BY <1>8, <2>1, EventInKind, ShortSeqs DEF Shaped, Shape
<1>9. QED BY <1>2, <1>3, <1>4, <1>5, <1>6, <1>7, <1>8, EventCases

\* Every writer turns an event into frames of its shape.
LEMMA WritersShape ==
  ASSUME NEW w \in Writer, NEW ev \in Events, ingress \in Protocols
  PROVE  Shaped(w, ev)
BY AnthropicShaped, OpenAiShaped, BedrockShaped, GeminiShaped, CohereShaped, ResponsesShaped
   DEF Protocols

\* What writing changes of the translator.
LEMMA WriteIs ==
  ASSUME NEW x \in Translator, NEW ev \in Events, ingress \in Protocols
  PROVE  /\ Write(x, ev) = [x EXCEPT !.writer = Written(x.writer, ev).st,
                                     !.out = x.out \o Written(x.writer, ev).out]
         /\ Write(x, ev) \in Translator
         /\ Shaped(x.writer, ev)
<1> DEFINE w == Written(x.writer, ev)
<1>1. Write(x, ev) = [x EXCEPT !.writer = w.st, !.out = x.out \o w.out]
  BY Zenon DEF Write, Written
<1>2. Shaped(x.writer, ev)
  BY WritersShape DEF Translator
<1>3. w.st \in Writer /\ w.out \in Seq(Frames)
  BY <1>2 DEF Shaped
<1> HIDE DEF w
<1>4. x.out \o w.out \in Seq(Frames)
  BY <1>3 DEF Translator
<1>5. [x EXCEPT !.writer = w.st, !.out = x.out \o w.out] \in Translator
  BY <1>3, <1>4 DEF Translator
<1>6. QED BY <1>1, <1>2, <1>5 DEF w

-----------------------------------------------------------------------------
(* The client: what it makes of a frame, in a phase and a state of its     *)
(* array, as triples.                                                      *)

Phases == {"waiting", "reading", "final", "stopped", "failed"}
Arrays == {"unread", "open", "shut"}
Brackets == [type : {"[", "]"}]
AnyFrame == Frames \cup Brackets

\* FramesInOrder for one frame.
InOrder(p, f) ==
  /\ f.type = "MessageStart" => p = "waiting"
  /\ f.type \in {"BlockStart", "BlockDelta"} => p = "reading"
  /\ f.type = "BlockStop" => p \in {"reading", "failed"}
  /\ f.type = "MessageDelta" => p \in {"reading", "final"}
  /\ f.type = "Trailer" => p = "final"
  /\ f.type = "MessageStop" => p \in {"final", "failed"}
  /\ f.type = "Metadata" => p \in {"reading", "final"}

\* The phase of a client of protocol i after a frame.
HeardIn(i, p, f) ==
  IF f.type \in {"MessageStart", "Raw"} THEN "reading"
  ELSE IF f.type = "Error" THEN "failed"
  ELSE IF f.type = "MessageDelta"
       THEN IF i \in {"gemini", "cohere", "responses"} THEN "stopped" ELSE "final"
  ELSE IF f.type \in {"MessageStop", "Metadata", "Done"}
       THEN IF p = "failed" THEN "failed" ELSE "stopped"
  ELSE p

\* The steps of a client of protocol i.
Hearing(i) == {t \in Phases \X AnyFrame \X Phases :
                 InOrder(t[1], t[2]) /\ t[3] = HeardIn(i, t[1], t[2])}

ArrayAfter(a, f) == IF f.type = "[" THEN "open" ELSE IF f.type = "]" THEN "shut" ELSE a

\* The steps of an array; framed says whether there is one.
Framing(framed) == {t \in Arrays \X AnyFrame \X Arrays :
                      /\ framed => t[1] = IF t[2].type = "[" THEN "unread" ELSE "open"
                      /\ t[3] = ArrayAfter(t[1], t[2])}

\* A client is in a phase after any frame.
LEMMA HeardTyped ==
  ASSUME NEW i, NEW p \in Phases, NEW f
  PROVE  HeardIn(i, p, f) \in Phases
BY DEF HeardIn, Phases

\* A frame in its order takes the client on.
LEMMA HearingIs ==
  ASSUME NEW i, NEW p \in Phases, NEW f \in AnyFrame, InOrder(p, f)
  PROVE  <<p, f, HeardIn(i, p, f)>> \in Hearing(i)
<1>1. HeardIn(i, p, f) \in Phases
  BY HeardTyped
<1> DEFINE t == <<p, f, HeardIn(i, p, f)>>
<1>2. t \in Phases \X AnyFrame \X Phases /\ t[1] = p /\ t[2] = f /\ t[3] = HeardIn(i, p, f)
  BY <1>1
<1>3. InOrder(t[1], t[2]) /\ t[3] = HeardIn(i, t[1], t[2])
  BY <1>2
<1> HIDE DEF t
<1>4. t \in Hearing(i)
  BY <1>2, <1>3 DEF Hearing
<1>5. QED BY <1>4 DEF t

\* What a step of the client means.
LEMMA HearingGives ==
  ASSUME NEW i, NEW p, NEW f, NEW q, <<p, f, q>> \in Hearing(i)
  PROVE  p \in Phases /\ f \in AnyFrame /\ q \in Phases /\ InOrder(p, f) /\ q = HeardIn(i, p, f)
BY DEF Hearing

\* A frame in its place takes the array on.
LEMMA FramingIs ==
  ASSUME NEW framed, NEW a \in Arrays, NEW f \in AnyFrame,
         framed => a = IF f.type = "[" THEN "unread" ELSE "open"
  PROVE  <<a, f, ArrayAfter(a, f)>> \in Framing(framed)
<1> DEFINE t == <<a, f, ArrayAfter(a, f)>>
<1>1. ArrayAfter(a, f) \in Arrays
  BY DEF ArrayAfter, Arrays
<1>2. t \in Arrays \X AnyFrame \X Arrays /\ t[1] = a /\ t[2] = f /\ t[3] = ArrayAfter(a, f)
  BY <1>1
<1> HIDE DEF t
<1>3. t \in Framing(framed)
  BY <1>2 DEF Framing
<1>4. QED BY <1>3 DEF t

\* What a step of the array means.
LEMMA FramingGives ==
  ASSUME NEW framed, NEW a, NEW f, NEW b, <<a, f, b>> \in Framing(framed)
  PROVE  /\ framed => a = IF f.type = "[" THEN "unread" ELSE "open"
         /\ b = ArrayAfter(a, f) /\ a \in Arrays /\ b \in Arrays
BY DEF Framing

\* What a translator writes leaves the array open.
LEMMA FramesInside ==
  ASSUME NEW framed, NEW a \in Arrays, NEW s \in Seq(Frames), framed => a = "open"
  PROVE  Run(Framing(framed), a, s, a)
<1>1. \A f \in Frames : f.type \notin {"[", "]"}
  BY DEF Frames, Events, Starts, BlockStarts, BlockDeltas, BlockStops, MessageDeltas,
         MessageStops, Errors
<1>2. \A f \in Frames : <<a, f, a>> \in Framing(framed)
  <2> TAKE f \in Frames
  <2>1. ArrayAfter(a, f) = a /\ f \in AnyFrame
    BY <1>1 DEF ArrayAfter, AnyFrame
  <2>2. framed => a = IF f.type = "[" THEN "unread" ELSE "open"
    BY <1>1
  <2>3. <<a, f, ArrayAfter(a, f)>> \in Framing(framed)
    BY <2>1, <2>2, FramingIs
  <2>4. QED BY <2>1, <2>3
<1>3. QED BY <1>2, RunInPlace

-----------------------------------------------------------------------------
(* The tale the events of a reader tell: how far the message is, and the   *)
(* counts told with its start and since.                                   *)

Stages == {"before", "within", "delta", "over", "failed"}
Places == [at : Stages, start : Usage, last : Usage]

\* Which events may come where.
Fits(at, ev) ==
  /\ ev.type = "MessageStart" => at = "before"
  /\ ev.type \in {"BlockStart", "BlockDelta"} => at = "within"
  /\ ev.type = "BlockStop" => at \in {"within", "failed"}
  /\ ev.type = "MessageDelta" => at = "within" \/ (at = "over" /\ ~ev.final)
  /\ ev.type = "MessageStop" => at \in {"delta", "failed"}
  /\ ev.type = "Error" => at \in {"before", "within"}

\* A count once told is not undone by a zero, and the prompt's may have come
\* with the start.
Merged(g, usage) == [input |-> Or(Or(usage.input, g.start.input), g.last.input),
                     output |-> Or(usage.output, g.last.output)]

\* Where an event takes a message.
NextStage(at, ev) ==
  IF ev.type = "MessageStart" THEN "within"
  ELSE IF ev.type = "MessageDelta" THEN IF at = "over" THEN "over" ELSE "delta"
  ELSE IF ev.type = "MessageStop" THEN IF at = "failed" THEN "failed" ELSE "over"
  ELSE IF ev.type = "Error" THEN "failed"
  ELSE at

Onward(g, ev) ==
  [at    |-> NextStage(g.at, ev),
   start |-> IF ev.type = "MessageStart" THEN ev.usage ELSE g.start,
   last  |-> IF ev.type = "MessageDelta" THEN Merged(g, ev.usage) ELSE g.last]

Tale == {t \in Places \X Events \X Places : Fits(t[1].at, t[2]) /\ t[3] = Onward(t[1], t[2])}

\* Usages merged are usages.
LEMMA UsageTyped ==
  /\ ZeroUsage \in Usage
  /\ \A g \in Places, u \in Usage : Merged(g, u) \in Usage
  /\ \A u, v \in Usage : u.input = v.input /\ u.output = v.output => u = v
BY DEF ZeroUsage, Usage, Places, Merged, Or

\* An event takes a tale to a place.
LEMMA OnwardTyped ==
  ASSUME NEW g \in Places, NEW ev \in Events
  PROVE  Onward(g, ev) \in Places
<1>1. ev.type = "MessageStart" => ev.usage \in Usage
  BY EventCases DEF Starts
<1>2. ev.type = "MessageDelta" => ev.usage \in Usage
  BY EventCases DEF MessageDeltas
<1>3. ev.type = "MessageDelta" => Merged(g, ev.usage) \in Usage
  BY <1>2, UsageTyped
<1>4. g.at \in Stages /\ g.start \in Usage /\ g.last \in Usage
  BY DEF Places
<1> DEFINE a == NextStage(g.at, ev)
           b == IF ev.type = "MessageStart" THEN ev.usage ELSE g.start
           c == IF ev.type = "MessageDelta" THEN Merged(g, ev.usage) ELSE g.last
<1>5. a \in Stages
  BY <1>4 DEF Stages, NextStage
<1>6. b \in Usage /\ c \in Usage
  BY <1>1, <1>3, <1>4
<1>7. Onward(g, ev) = [at |-> a, start |-> b, last |-> c]
  BY DEF Onward
<1> HIDE DEF a, b, c
<1>8. QED BY <1>5, <1>6, <1>7 DEF Places

\* An event that fits takes the tale on.
LEMMA TaleIs ==
  ASSUME NEW g \in Places, NEW ev \in Events, Fits(g.at, ev)
  PROVE  <<g, ev, Onward(g, ev)>> \in Tale
<1> DEFINE t == <<g, ev, Onward(g, ev)>>
<1>1. t \in Places \X Events \X Places /\ t[1] = g /\ t[2] = ev /\ t[3] = Onward(g, ev)
  BY OnwardTyped
<1> HIDE DEF t
<1>2. t \in Tale
  BY <1>1 DEF Tale
<1>3. QED BY <1>2 DEF t

\* What a step of a tale means.
LEMMA TaleGives ==
  ASSUME NEW g, NEW ev, NEW h, <<g, ev, h>> \in Tale
  PROVE  g \in Places /\ ev \in Events /\ h \in Places /\ Fits(g.at, ev) /\ h = Onward(g, ev)
BY DEF Tale

-----------------------------------------------------------------------------
(* What the client has heard when a tale has come so far.                  *)

PhaseAt(i, at, emitted) ==
  IF at = "before" THEN "waiting"
  ELSE IF at = "within" THEN "reading"
  ELSE IF at = "failed" THEN "failed"
  ELSE IF i = "bedrock" THEN IF emitted THEN "stopped" ELSE "final"
  ELSE IF i = "openai" \/ (i = "anthropic" /\ at = "delta") THEN "final"
  ELSE "stopped"

\* The phase of a place is a phase.
LEMMA PhaseTyped ==
  \A i, at, emitted : PhaseAt(i, at, emitted) \in Phases
BY DEF PhaseAt, Phases

\* A single frame in its order.
LEMMA OneHeard ==
  ASSUME NEW i, NEW p \in Phases, NEW f \in Frames, InOrder(p, f)
  PROVE  Run(Hearing(i), p, <<f>>, HeardIn(i, p, f))
BY HearingIs, RunOne DEF AnyFrame

\* Frames that open and extend blocks keep a client reading.
LEMMA GrowingHeard ==
  ASSUME NEW i, NEW s \in Seq(Growing)
  PROVE  Run(Hearing(i), "reading", s, "reading")
<1>1. ASSUME NEW f \in Growing PROVE <<"reading", f, "reading">> \in Hearing(i)
  <2>1. f \in AnyFrame /\ f.type \in {"BlockStart", "BlockDelta"} /\ "reading" \in Phases
    BY DEF Growing, AnyFrame, Phases
  <2>2. InOrder("reading", f) /\ HeardIn(i, "reading", f) = "reading"
    BY <2>1 DEF InOrder, HeardIn
  <2>3. QED BY <2>1, <2>2, HearingIs
<1>2. QED BY <1>1, RunInPlace

\* Frames that close blocks leave a client where it is.
LEMMA EndingHeard ==
  ASSUME NEW i, NEW p \in {"reading", "failed"}, NEW s \in Seq(Ending)
  PROVE  Run(Hearing(i), p, s, p)
<1>1. ASSUME NEW f \in Ending PROVE <<p, f, p>> \in Hearing(i)
  <2>1. f \in AnyFrame /\ f.type \in {"BlockStop", "Call"} /\ p \in Phases
    BY DEF Ending, AnyFrame, Phases
  <2>2. InOrder(p, f) /\ HeardIn(i, p, f) = p
    BY <2>1 DEF InOrder, HeardIn
  <2>3. QED BY <2>1, <2>2, HearingIs
<1>2. QED BY <1>1, RunInPlace

\* What is written for an event takes the client where the tale goes.
LEMMA WrittenLeads ==
  ASSUME NEW w \in Writer, NEW ev \in Events, ingress \in Protocols,
         NEW at \in Stages, Fits(at, ev), NEW e \in BOOLEAN,
         ev.type = "MessageDelta" => ingress # "bedrock" /\ at = "within"
  PROVE  Run(Hearing(ingress), PhaseAt(ingress, at, e), Written(w, ev).out,
             PhaseAt(ingress, NextStage(at, ev), e))
<1> DEFINE o == Written(w, ev).out
           p == PhaseAt(ingress, at, e)
           q == PhaseAt(ingress, NextStage(at, ev), e)
<1>0. Shape(ingress, ev, o) /\ o \in Seq(Frames)
  BY WritersShape DEF Shaped
<1> SUFFICES Run(Hearing(ingress), p, o, q)
  OBVIOUS
<1> HIDE DEF o
<1>a. p \in Phases /\ q \in Phases /\ ev \in Frames
  BY PhaseTyped, EventInKind
<1>1. CASE ev.type \in {"BlockStart", "BlockDelta"}
  <2>1. p = "reading" /\ q = "reading"
    BY <1>1 DEF Fits, PhaseAt, NextStage
  <2>2. o \in Seq(Growing)
    BY <1>0, <1>1 DEF Shape
  <2> HIDE DEF p, q
  <2>3. QED BY <2>1, <2>2, GrowingHeard
<1>2. CASE ev.type = "BlockStop"
  <2>1. p = q /\ p \in {"reading", "failed"}
    BY <1>2 DEF Fits, PhaseAt, NextStage
  <2>2. o \in Seq(Ending)
    BY <1>0, <1>2 DEF Shape
  <2> HIDE DEF p, q
  <2>3. QED BY <2>1, <2>2, EndingHeard
<1>3. CASE ev.type \in {"MessageStart", "Error"}
  <2>1. o = <<ev>>
    BY <1>0, <1>3 DEF Shape
  <2>2. InOrder(p, ev) /\ q = HeardIn(ingress, p, ev)
    BY <1>3 DEF Fits, PhaseAt, NextStage, InOrder, HeardIn
  <2> HIDE DEF p, q
  <2>3. QED BY <1>a, <2>1, <2>2, OneHeard
<1>4. CASE ev.type = "MessageStop" /\ ingress = "anthropic"
  <2>1. o = <<ev>>
    BY <1>0, <1>4 DEF Shape
  <2>2. InOrder(p, ev) /\ q = HeardIn(ingress, p, ev)
    BY <1>4 DEF Fits, PhaseAt, NextStage, InOrder, HeardIn
  <2> HIDE DEF p, q
  <2>3. QED BY <1>a, <2>1, <2>2, OneHeard
<1>5. CASE ev.type = "MessageStop" /\ ingress # "anthropic"
  <2>1. o = <<>>
    BY <1>0, <1>5 DEF Shape
  <2>2. p = q
    BY <1>5 DEF Fits, PhaseAt, NextStage
  <2> HIDE DEF p, q
  <2>3. QED BY <2>1, <2>2, RunNothing
<1>6. CASE ev.type = "MessageDelta"
  <2>1. PICK f \in Frames : /\ f.type = "MessageDelta"
                            /\ \/ o = <<f>>
                               \/ ingress = "openai" /\ o = <<f, Frame("Trailer")>>
    BY <1>0, <1>6 DEF Shape
  <2>2. p = "reading" /\ InOrder(p, f) /\ q = HeardIn(ingress, p, f)
    BY <1>6, <2>1 DEF PhaseAt, NextStage, InOrder, HeardIn, Protocols
  <2>3. Run(Hearing(ingress), p, <<f>>, q)
    BY <1>a, <2>2, OneHeard
  <2>4. ASSUME ingress = "openai"
        PROVE  Run(Hearing(ingress), q, <<Frame("Trailer")>>, q)
    <3>1. q = "final"
      BY <2>2, <2>1, <2>4 DEF HeardIn
    <3> DEFINE r == Frame("Trailer")
    <3>2. r \in Frames /\ r.type = "Trailer"
      BY FramesTyped DEF Frame
    <3> HIDE DEF r
    <3>3. InOrder("final", r) /\ HeardIn(ingress, "final", r) = "final" /\ "final" \in Phases
      BY <3>2 DEF InOrder, HeardIn, Phases
    <3>4. Run(Hearing(ingress), "final", <<r>>, "final")
      BY <3>2, <3>3, OneHeard
    <3>5. QED BY <3>1, <3>4 DEF r
  <2>5. ASSUME ingress = "openai", o = <<f, Frame("Trailer")>>
        PROVE  Run(Hearing(ingress), p, o, q)
    <3>1. o = <<f>> \o <<Frame("Trailer")>>
      BY <2>5, ShortConcat
    <3>2. <<f>> \in Seq(Frames) /\ <<Frame("Trailer")>> \in Seq(Frames)
      BY FramesTyped, ShortSeqs
    <3> HIDE DEF p, q
    <3>3. QED BY <2>3, <2>4, <2>5, <3>1, <3>2, RunBoth
  <2>6. QED BY <2>1, <2>3, <2>5
<1>7. QED BY <1>1, <1>2, <1>3, <1>4, <1>5, <1>6, EventCases

-----------------------------------------------------------------------------
(* The translator's state when a tale has come so far: it has counted what *)
(* the tale counts, and what it has written takes the client there.        *)

\* What the translator's flags say of the message.
Flags(x, at) ==
  /\ at = "over" => x.stopped
  /\ at \in {"before", "within"} => ~x.stopped
  /\ at \notin {"delta", "over"} => ~x.emitted /\ ~x.pending
  /\ at \in {"delta", "over"} /\ Binary => x.emitted \/ x.pending

CountsOf(x, g) == x.start = g.start /\ x.last = g.last /\ (x.failed <=> g.at = "failed")

\* p is the client's phase before what has been written.
Told(p, g, x) ==
  /\ CountsOf(x, g)
  /\ IF Verbatim THEN x.out = <<>>
     ELSE Flags(x, g.at) /\ Run(Hearing(ingress), p, x.out, PhaseAt(ingress, g.at, x.emitted))

\* Counting an event changes the counts, as the tale has it, and nothing else.
LEMMA CountGives ==
  ASSUME NEW x \in Translator, NEW ev \in Events, NEW g \in Places, CountsOf(x, g),
         Fits(g.at, ev)
  PROVE  /\ Count(x, ev) \in Translator
         /\ CountsOf(Count(x, ev), Onward(g, ev))
         /\ Count(x, ev).out = x.out /\ Count(x, ev).stopped = x.stopped
         /\ Count(x, ev).emitted = x.emitted /\ Count(x, ev).pending = x.pending
         /\ Count(x, ev).writer = x.writer /\ Count(x, ev).aborted = x.aborted
<1> DEFINE h == Onward(g, ev)
           c == Count(x, ev)
<1> SUFFICES /\ c \in Translator
             /\ c.start = h.start /\ c.last = h.last /\ (c.failed <=> h.at = "failed")
             /\ c.out = x.out /\ c.stopped = x.stopped /\ c.emitted = x.emitted
             /\ c.pending = x.pending /\ c.writer = x.writer /\ c.aborted = x.aborted
  BY DEF CountsOf
<1>0. x.start = g.start /\ x.last = g.last /\ (x.failed <=> g.at = "failed")
  BY DEF CountsOf
<1>1. CASE ev.type = "MessageStart"
  <2>1. c = [x EXCEPT !.start = ev.usage]
    BY Zenon, <1>1 DEF Count
  <2>a. ev.usage \in Usage
    BY <1>1, EventCases DEF Starts
  <2>2. ev.usage \in Usage /\ h.start = ev.usage /\ h.last = g.last /\ h.at # "failed" /\ g.at # "failed"
    BY <1>1, <2>a DEF Onward, NextStage, Fits
  <2> HIDE DEF c, h
  <2>3. c \in Translator
    BY <2>1, <2>2 DEF Translator
  <2>4. /\ c.start = h.start /\ c.last = h.last /\ (c.failed <=> h.at = "failed")
        /\ c.out = x.out /\ c.stopped = x.stopped /\ c.emitted = x.emitted
        /\ c.pending = x.pending /\ c.writer = x.writer /\ c.aborted = x.aborted
    BY <1>0, <2>1, <2>2 DEF Translator
  <2>5. QED BY <2>3, <2>4
<1>2. CASE ev.type = "MessageDelta"
  <2>1. c = [x EXCEPT !.last = [input |-> Or(Backfilled(x, ev.usage).input, x.last.input),
                                output |-> Or(Backfilled(x, ev.usage).output, x.last.output)]]
    BY Zenon, <1>2 DEF Count
  <2>a. ev.usage \in Usage
    BY <1>2, EventCases DEF MessageDeltas
  <2>b. /\ Backfilled(x, ev.usage).input = Or(ev.usage.input, x.start.input)
        /\ Backfilled(x, ev.usage).output = ev.usage.output
    BY <2>a DEF Backfilled, Usage
  <2>c. c = [x EXCEPT !.last = Merged(g, ev.usage)]
    BY <1>0, <2>1, <2>b DEF Merged
  <2>2. /\ Merged(g, ev.usage) \in Usage /\ h.start = g.start /\ h.last = Merged(g, ev.usage)
        /\ h.at # "failed" /\ g.at # "failed"
    BY <1>2, <2>a, UsageTyped DEF Onward, NextStage, Fits
  <2> HIDE DEF c, h
  <2>3. c \in Translator
    BY <2>c, <2>2 DEF Translator
  <2>4. /\ c.start = h.start /\ c.last = h.last /\ (c.failed <=> h.at = "failed")
        /\ c.out = x.out /\ c.stopped = x.stopped /\ c.emitted = x.emitted
        /\ c.pending = x.pending /\ c.writer = x.writer /\ c.aborted = x.aborted
    BY <1>0, <2>c, <2>2 DEF Translator
  <2>5. QED BY <2>3, <2>4
<1>3. CASE ev.type = "Error"
  <2>1. c = [x EXCEPT !.failed = TRUE]
    BY Zenon, <1>3 DEF Count
  <2>2. h.start = g.start /\ h.last = g.last /\ h.at = "failed"
    BY <1>3 DEF Onward, NextStage, Fits
  <2> HIDE DEF c, h
  <2>3. c \in Translator
    BY <2>1, <2>2 DEF Translator
  <2>4. /\ c.start = h.start /\ c.last = h.last /\ (c.failed <=> h.at = "failed")
        /\ c.out = x.out /\ c.stopped = x.stopped /\ c.emitted = x.emitted
        /\ c.pending = x.pending /\ c.writer = x.writer /\ c.aborted = x.aborted
    BY <1>0, <2>1, <2>2 DEF Translator
  <2>5. QED BY <2>3, <2>4
<1>4. CASE ev.type \notin {"MessageStart", "MessageDelta", "Error"}
  <2>1. c = x
    BY Zenon, <1>4 DEF Count
  <2>2. h.start = g.start /\ h.last = g.last /\ (h.at = "failed" <=> g.at = "failed")
    BY <1>4 DEF Onward, NextStage, Fits
  <2> HIDE DEF c, h
  <2>3. c \in Translator
    BY <2>1, <2>2 DEF Translator
  <2>4. /\ c.start = h.start /\ c.last = h.last /\ (c.failed <=> h.at = "failed")
        /\ c.out = x.out /\ c.stopped = x.stopped /\ c.emitted = x.emitted
        /\ c.pending = x.pending /\ c.writer = x.writer /\ c.aborted = x.aborted
    BY <1>0, <2>1, <2>2 DEF Translator
  <2>5. QED BY <2>3, <2>4
<1>5. QED BY <1>1, <1>2, <1>3, <1>4

\* Writing an event.
LEMMA WriteLeads ==
  ASSUME NEW x \in Translator, NEW ev \in Events, ingress \in Protocols,
         NEW p, NEW q, NEW r, Run(Hearing(ingress), p, x.out, q),
         Run(Hearing(ingress), q, Written(x.writer, ev).out, r)
  PROVE  /\ Write(x, ev) \in Translator
         /\ Run(Hearing(ingress), p, Write(x, ev).out, r)
         /\ Write(x, ev).start = x.start /\ Write(x, ev).last = x.last
         /\ Write(x, ev).failed = x.failed /\ Write(x, ev).stopped = x.stopped
         /\ Write(x, ev).emitted = x.emitted /\ Write(x, ev).pending = x.pending
         /\ Write(x, ev).aborted = x.aborted
<1> DEFINE w == Written(x.writer, ev).st
           o == Written(x.writer, ev).out
           y == [x EXCEPT !.writer = w, !.out = x.out \o o]
<1>1. Write(x, ev) = y /\ y \in Translator
  BY WriteIs
<1>2. o \in Seq(Frames) /\ x.out \in Seq(Frames)
  BY WriteIs DEF Shaped, Translator
<1>3. Run(Hearing(ingress), q, o, r)
  OBVIOUS
<1> HIDE DEF w, o
<1>4. Run(Hearing(ingress), p, x.out \o o, r)
  BY <1>2, <1>3, RunBoth
<1>5. /\ y.out = x.out \o o /\ y.start = x.start /\ y.last = x.last /\ y.failed = x.failed
      /\ y.stopped = x.stopped /\ y.emitted = x.emitted /\ y.pending = x.pending
      /\ y.aborted = x.aborted
  BY DEF Translator
<1> HIDE DEF y
<1>6. QED BY <1>1, <1>4, <1>5

\* The metadata frame of bedrock.
LEMMA MetadataHeard ==
  ASSUME NEW w \in Writer, NEW u \in Usage, ingress = "bedrock", NEW p \in {"reading", "final"}
  PROVE  /\ MessageDelta(FALSE, u) \in Events
         /\ Run(Hearing(ingress), p, Written(w, MessageDelta(FALSE, u)).out, "stopped")
<1> DEFINE m == MessageDelta(FALSE, u)
           f == Frame("Metadata")
<1>1. m \in Events /\ m.type = "MessageDelta" /\ m.final = FALSE
  BY DEF MessageDelta, Events, MessageDeltas
<1>2. ingress \in Protocols
  BY DEF Protocols
<1> HIDE DEF m
<1>3. Written(w, m).out = <<f>>
  BY <1>1, <1>2, WritersShape DEF Shaped, Shape
<1>4. f \in Frames /\ f.type = "Metadata"
  BY FramesTyped DEF Frame
<1> HIDE DEF f
<1>5. p \in Phases /\ InOrder(p, f) /\ HeardIn(ingress, p, f) = "stopped"
  BY <1>4 DEF Phases, InOrder, HeardIn
<1>6. Run(Hearing(ingress), p, <<f>>, "stopped")
  BY <1>4, <1>5, OneHeard
<1>7. Run(Hearing(ingress), p, Written(w, m).out, "stopped")
  BY <1>3, <1>6
<1>8. QED BY <1>1, <1>7 DEF m

\* Its messageStop.
LEMMA StopHeard ==
  ASSUME NEW w \in Writer, ingress = "bedrock"
  PROVE  /\ MessageDelta(TRUE, ZeroUsage) \in Events
         /\ Run(Hearing(ingress), "reading", Written(w, MessageDelta(TRUE, ZeroUsage)).out, "final")
<1> DEFINE m == MessageDelta(TRUE, ZeroUsage)
<1>1. m \in Events /\ m.type = "MessageDelta" /\ m.final = TRUE
  BY UsageTyped DEF MessageDelta, Events, MessageDeltas
<1>2. ingress \in Protocols
  BY DEF Protocols
<1> HIDE DEF m
<1>3. Written(w, m).out = <<m>>
  BY <1>1, <1>2, WritersShape DEF Shaped, Shape
<1>4. m \in Frames /\ "reading" \in Phases /\ InOrder("reading", m)
      /\ HeardIn(ingress, "reading", m) = "final"
  BY <1>1, EventInKind DEF Phases, InOrder, HeardIn
<1>5. Run(Hearing(ingress), "reading", <<m>>, "final")
  BY <1>4, OneHeard
<1>6. Run(Hearing(ingress), "reading", Written(w, m).out, "final")
  BY <1>3, <1>5
<1>7. QED BY <1>1, <1>6 DEF m

\* The translator follows the tale event by event.
LEMMA EventKeeps ==
  ASSUME ingress \in Protocols, NEW p, NEW g, NEW ev, NEW h, <<g, ev, h>> \in Tale,
         NEW x \in Translator, Told(p, g, x), ~x.aborted
  PROVE  Translate(x, ev) \in Translator /\ Told(p, h, Translate(x, ev)) /\ ~Translate(x, ev).aborted
<1> DEFINE c == Count(x, ev)
           fev == IF ev.type = "MessageDelta" THEN [ev EXCEPT !.usage = Backfilled(x, @)] ELSE ev
           M == Hearing(ingress)
<1>1. /\ g \in Places /\ ev \in Events /\ h = Onward(g, ev) /\ Fits(g.at, ev)
      /\ h.at = NextStage(g.at, ev) /\ g.at \in Stages /\ h.at \in Stages
  <2>1. g \in Places /\ ev \in Events /\ h \in Places /\ h = Onward(g, ev) /\ Fits(g.at, ev)
    BY TaleGives
  <2>2. QED BY <2>1 DEF Onward, Places
<1>2. /\ c \in Translator /\ CountsOf(c, h) /\ c.out = x.out /\ c.stopped = x.stopped
      /\ c.emitted = x.emitted /\ c.pending = x.pending /\ c.writer = x.writer /\ ~c.aborted
  <2>1. CountsOf(x, g)
    BY DEF Told
  <2>2. QED BY <1>1, <2>1, CountGives
<1>3. Translate(x, ev) = IF Verbatim THEN c ELSE Forward(c, fev)
  BY Zenon DEF Translate
<1>4. /\ fev \in Events /\ fev.type = ev.type
      /\ ev.type = "MessageDelta" => fev.final = ev.final /\ fev.final \in BOOLEAN /\ fev.usage \in Usage
  <2>1. CASE ev.type = "MessageDelta"
    <3>1. ev \in MessageDeltas
      BY <1>1, <2>1, EventCases
    <3>2. Backfilled(x, ev.usage) \in Usage
      BY <3>1 DEF MessageDeltas, Usage, Backfilled, Translator, Or
    <3>3. fev = [ev EXCEPT !.usage = Backfilled(x, ev.usage)]
      BY <2>1
    <3> HIDE DEF fev
    <3>4. fev \in MessageDeltas /\ fev.final = ev.final
      BY <3>1, <3>2, <3>3 DEF MessageDeltas
    <3>5. QED BY <2>1, <3>4 DEF Events, MessageDeltas
  <2>2. CASE ev.type # "MessageDelta"
    BY <1>1, <2>2
  <2>3. QED BY <2>1, <2>2
<1> HIDE DEF c, fev
<1>5. CASE Verbatim
  BY <1>2, <1>3, <1>5 DEF Told
<1>6. ASSUME ~Verbatim PROVE Forward(c, fev) \in Translator /\ Told(p, h, Forward(c, fev)) /\ ~Forward(c, fev).aborted
  <2>1. Flags(x, g.at) /\ Run(M, p, c.out, PhaseAt(ingress, g.at, x.emitted))
    BY <1>2, <1>6 DEF Told
  <2>2. c.emitted \in BOOLEAN /\ c.stopped \in BOOLEAN /\ c.writer \in Writer
    BY <1>2 DEF Translator
  <2>3. Fits(g.at, fev) /\ NextStage(g.at, fev) = h.at
    BY <1>1, <1>4 DEF Fits, NextStage
  <2>4. CASE ~(Binary /\ fev.type = "MessageDelta") /\ ~(c.stopped /\ fev.type = "MessageDelta")
    <3> DEFINE y == [c EXCEPT !.stopped = @ \/ fev.type = "MessageStop"]
               z == Write(y, fev)
    <3>1. Forward(c, fev) = z
      BY <2>4 DEF Forward
    <3>2. /\ y \in Translator /\ y.out = c.out /\ y.writer = c.writer /\ y.emitted = c.emitted
          /\ y.pending = c.pending /\ y.start = c.start /\ y.last = c.last /\ y.failed = c.failed
          /\ y.aborted = c.aborted /\ (y.stopped <=> c.stopped \/ fev.type = "MessageStop")
      BY <1>2 DEF Translator
    <3>3. fev.type = "MessageDelta" => ingress # "bedrock" /\ g.at = "within"
      BY <1>2, <2>1, <2>3, <2>4 DEF Fits, Flags, Binary
    <3>4. Run(M, PhaseAt(ingress, g.at, c.emitted), Written(c.writer, fev).out,
                 PhaseAt(ingress, h.at, c.emitted))
      BY <1>1, <1>4, <2>2, <2>3, <3>3, WrittenLeads
    <3> HIDE DEF y
    <3>5. /\ z \in Translator /\ Run(M, p, z.out, PhaseAt(ingress, h.at, c.emitted))
          /\ z.start = y.start /\ z.last = y.last /\ z.failed = y.failed /\ z.stopped = y.stopped
          /\ z.emitted = y.emitted /\ z.pending = y.pending /\ z.aborted = y.aborted
      BY <1>2, <1>4, <2>1, <3>2, <3>4, WriteLeads
    <3> HIDE DEF z
    <3>6. CountsOf(z, h)
      BY <1>2, <3>2, <3>5 DEF CountsOf
    <3>7. Flags(z, h.at)
      BY <1>1, <1>2, <1>4, <2>1, <2>3, <3>2, <3>3, <3>5 DEF Flags, Fits, NextStage, Binary
    <3>8. QED BY <1>2, <1>6, <3>1, <3>2, <3>5, <3>6, <3>7 DEF Told
  <2>5. CASE ~Binary /\ c.stopped /\ fev.type = "MessageDelta"
    <3>1. Forward(c, fev) = c
      BY <2>5 DEF Forward
    <3>2. g.at = "over" /\ h.at = "over"
      BY <1>2, <2>1, <2>3, <2>5 DEF Flags, Fits, NextStage
    <3>3. Flags(c, h.at)
      BY <1>2, <2>1, <3>2 DEF Flags
    <3>4. QED BY <1>2, <1>6, <2>1, <3>1, <3>2, <3>3 DEF Told
  <2>6. CASE Binary /\ fev.type = "MessageDelta" /\ fev.final
    <3> DEFINE u == fev.usage
               m == MessageDelta(TRUE, ZeroUsage)
               n == MessageDelta(FALSE, u)
               y == Write(c, m)
    <3>1. g.at = "within" /\ h.at = "delta" /\ ~c.emitted /\ ~c.stopped /\ u \in Usage
      BY <1>2, <1>4, <2>1, <2>3, <2>6 DEF Flags, Fits, NextStage
    <3>2. ingress = "bedrock" /\ PhaseAt(ingress, g.at, c.emitted) = "reading"
      BY <2>6, <3>1 DEF Binary, PhaseAt
    <3>3. Forward(c, fev) = IF u # ZeroUsage
                            THEN Write([y EXCEPT !.emitted = TRUE, !.pending = FALSE], n)
                            ELSE [y EXCEPT !.pending = TRUE]
      BY <2>6, <3>1 DEF Forward, CombinedStop
    <3>4. /\ y \in Translator /\ Run(M, p, y.out, "final")
          /\ y.start = c.start /\ y.last = c.last /\ y.failed = c.failed /\ y.stopped = c.stopped
          /\ y.emitted = c.emitted /\ y.aborted = c.aborted
      <4>1. m \in Events /\ Run(M, "reading", Written(c.writer, m).out, "final")
        BY <2>2, <3>2, StopHeard
      <4> HIDE DEF m
      <4>2. Run(M, p, c.out, "reading")
        BY <1>2, <2>1, <3>2
      <4>3. QED BY <1>2, <4>1, <4>2, WriteLeads
    <3> HIDE DEF y, m
    <3>5. CASE u # ZeroUsage
      <4> DEFINE z == [y EXCEPT !.emitted = TRUE, !.pending = FALSE]
                 f == Write(z, n)
      <4>1. /\ z \in Translator /\ z.out = y.out /\ z.emitted = TRUE /\ z.pending = FALSE
            /\ z.start = y.start /\ z.last = y.last /\ z.failed = y.failed
            /\ z.stopped = y.stopped /\ z.aborted = y.aborted /\ z.writer \in Writer
        BY <3>4 DEF Translator
      <4> HIDE DEF z
      <4>2. n \in Events /\ Run(M, "final", Written(z.writer, n).out, "stopped")
        BY <3>1, <3>2, <4>1, MetadataHeard
      <4> HIDE DEF n
      <4>3. /\ f \in Translator /\ Run(M, p, f.out, "stopped")
            /\ f.start = z.start /\ f.last = z.last /\ f.failed = z.failed
            /\ f.stopped = z.stopped /\ f.emitted = z.emitted /\ f.pending = z.pending
            /\ f.aborted = z.aborted
        BY <3>4, <4>1, <4>2, WriteLeads
      <4>4. Forward(c, fev) = f
        BY <3>3, <3>5 DEF z
      <4> HIDE DEF f
      <4>5. CountsOf(f, h) /\ Flags(f, h.at) /\ PhaseAt(ingress, h.at, f.emitted) = "stopped"
        BY <1>2, <3>1, <3>2, <3>4, <4>1, <4>3 DEF CountsOf, Flags, PhaseAt
      <4>6. QED BY <1>2, <1>6, <3>4, <4>1, <4>3, <4>4, <4>5 DEF Told
    <3>6. CASE u = ZeroUsage
      <4> DEFINE f == [y EXCEPT !.pending = TRUE]
      <4>1. /\ f \in Translator /\ f.out = y.out /\ f.emitted = y.emitted /\ f.pending = TRUE
            /\ f.start = y.start /\ f.last = y.last /\ f.failed = y.failed
            /\ f.stopped = y.stopped /\ f.aborted = y.aborted
        BY <3>4 DEF Translator
      <4>2. Forward(c, fev) = f
        BY <3>3, <3>6
      <4> HIDE DEF f
      <4>3. CountsOf(f, h) /\ Flags(f, h.at) /\ PhaseAt(ingress, h.at, f.emitted) = "final"
        BY <1>2, <3>1, <3>2, <3>4, <4>1 DEF CountsOf, Flags, PhaseAt
      <4>4. QED BY <1>2, <1>6, <3>4, <4>1, <4>2, <4>3 DEF Told
    <3>7. QED BY <3>5, <3>6
  <2>7. CASE Binary /\ fev.type = "MessageDelta" /\ ~fev.final
    <3> DEFINE u == fev.usage
               n == MessageDelta(FALSE, u)
    <3>1. Forward(c, fev) = UsageOnly(c, u)
      BY <2>7 DEF Forward
    <3>2. /\ \/ g.at = "within" /\ h.at = "delta" /\ ~c.emitted /\ ~c.stopped
             \/ g.at = "over" /\ h.at = "over" /\ c.stopped
          /\ u \in Usage /\ ingress = "bedrock"
      BY <1>2, <1>4, <2>1, <2>3, <2>7 DEF Flags, Fits, NextStage, Binary
    <3>3. CASE c.emitted
      <4>1. Forward(c, fev) = c
        BY <3>1, <3>3 DEF UsageOnly
      <4>2. Flags(c, h.at) /\ g.at = h.at
        BY <1>2, <2>1, <3>2, <3>3 DEF Flags
      <4>3. QED BY <1>2, <1>6, <2>1, <4>1, <4>2 DEF Told
    <3>4. CASE ~c.emitted
      <4> DEFINE z == [c EXCEPT !.emitted = TRUE, !.pending = FALSE]
                 f == Write(z, n)
      <4>1. /\ z \in Translator /\ z.out = c.out /\ z.emitted = TRUE /\ z.pending = FALSE
            /\ z.start = c.start /\ z.last = c.last /\ z.failed = c.failed
            /\ z.stopped = c.stopped /\ z.aborted = c.aborted /\ z.writer \in Writer
        BY <1>2 DEF Translator
      <4>2. Forward(c, fev) = f
        BY <3>1, <3>4 DEF UsageOnly
      <4> HIDE DEF z
      <4>3. PhaseAt(ingress, g.at, c.emitted) \in {"reading", "final"}
        BY <3>2, <3>4 DEF PhaseAt
      <4>4. n \in Events /\ Run(M, PhaseAt(ingress, g.at, c.emitted), Written(z.writer, n).out, "stopped")
        BY <3>2, <4>1, <4>3, MetadataHeard
      <4> HIDE DEF n
      <4>5. /\ f \in Translator /\ Run(M, p, f.out, "stopped")
            /\ f.start = z.start /\ f.last = z.last /\ f.failed = z.failed
            /\ f.stopped = z.stopped /\ f.emitted = z.emitted /\ f.pending = z.pending
            /\ f.aborted = z.aborted
        BY <1>2, <2>1, <4>1, <4>4, WriteLeads
      <4> HIDE DEF f
      <4>6. CountsOf(f, h) /\ Flags(f, h.at) /\ PhaseAt(ingress, h.at, f.emitted) = "stopped"
        BY <1>2, <3>2, <4>1, <4>5 DEF CountsOf, Flags, PhaseAt
      <4>7. QED BY <1>2, <1>6, <4>1, <4>2, <4>5, <4>6 DEF Told
    <3>5. QED BY <3>3, <3>4
  <2>8. QED
    <3>1. fev.type = "MessageDelta" => fev.final \in BOOLEAN
      BY <1>4
    <3>2. QED BY <2>4, <2>5, <2>6, <2>7, <3>1
<1>7. QED BY <1>3, <1>5, <1>6

\* A whole frame's events.
LEMMA FoldLeads ==
  ASSUME ingress \in Protocols, NEW p, NEW g \in Places, NEW h, NEW s \in Seq(Events),
         Run(Tale, g, s, h), NEW x \in Translator, Told(p, g, x), ~x.aborted
  PROVE  /\ FoldLeft(Translate, x, s) \in Translator
         /\ Told(p, h, FoldLeft(Translate, x, s))
         /\ ~FoldLeft(Translate, x, s).aborted
<1> DEFINE Good == {t \in Places \X Translator : Told(p, t[1], t[2]) /\ ~t[2].aborted}
<1>1. ASSUME NEW a \in Places, NEW y \in Translator, Told(p, a, y), ~y.aborted
      PROVE  <<a, y>> \in Good
  <2> DEFINE t == <<a, y>>
  <2>1. t \in Places \X Translator /\ t[1] = a /\ t[2] = y
    OBVIOUS
  <2> HIDE DEF t
  <2>2. t \in Good
    BY <1>1, <2>1
  <2>3. QED BY <2>2 DEF t
<1>2. ASSUME NEW a, NEW y, <<a, y>> \in Good
      PROVE  a \in Places /\ y \in Translator /\ Told(p, a, y) /\ ~y.aborted
  <2> DEFINE t == <<a, y>>
  <2>1. t[1] = a /\ t[2] = y
    OBVIOUS
  <2>2. t \in Good
    BY <1>2
  <2> HIDE DEF t
  <2>3. QED BY <2>1, <2>2
<1> HIDE DEF Good
<1>3. <<g, x>> \in Good
  BY <1>1
<1>4. ASSUME NEW e \in Events, NEW a, NEW b, NEW y, <<a, e, b>> \in Tale, <<a, y>> \in Good
      PROVE  <<b, Translate(y, e)>> \in Good
  <2>1. a \in Places /\ y \in Translator /\ Told(p, a, y) /\ ~y.aborted
    BY <1>2, <1>4
  <2>2. Translate(y, e) \in Translator /\ Told(p, b, Translate(y, e)) /\ ~Translate(y, e).aborted
    BY <1>4, <2>1, EventKeeps
  <2>3. b \in Places
    BY <1>4, TaleGives
  <2>4. QED BY <1>1, <2>2, <2>3
<1>5. <<h, FoldLeft(Translate, x, s)>> \in Good
  <2>1. Kept(Tale, Events, Good)
    BY <1>4 DEF Kept
  <2>2. QED BY <1>3, <2>1, FoldKeeps
<1>6. QED BY <1>2, <1>5

-----------------------------------------------------------------------------
(* The end of a stream.                                                    *)

\* An error is heard in any phase.
LEMMA ErrorHeard ==
  ASSUME ingress \in Protocols, NEW w \in Writer, NEW p \in Phases
  PROVE  /\ Run(Hearing(ingress), p, Written(w, StreamError).out, "failed")
         /\ Run(Hearing(ingress), p, <<StreamError>>, "failed")
<1>1. StreamError \in Events /\ StreamError \in Frames /\ StreamError.type = "Error"
  BY FramesTyped DEF StreamError
<1>2. Written(w, StreamError).out = <<StreamError>>
  BY <1>1, WritersShape DEF Shaped, Shape
<1>3. InOrder(p, StreamError) /\ HeardIn(ingress, p, StreamError) = "failed"
  BY <1>1 DEF InOrder, HeardIn
<1>4. Run(Hearing(ingress), p, <<StreamError>>, "failed")
  BY <1>1, <1>3, OneHeard
<1>5. QED BY <1>2, <1>4

\* The end marker stops the client unless it has failed.
LEMMA DoneHeard ==
  ASSUME NEW i, NEW p, NEW s \in Seq(Frames), NEW q \in Phases, Run(Hearing(i), p, s, q)
  PROVE  /\ Append(s, Frame("Done")) \in Seq(Frames)
         /\ Run(Hearing(i), p, Append(s, Frame("Done")), IF q = "failed" THEN "failed" ELSE "stopped")
<1> DEFINE f == Frame("Done")
<1>1. f \in Frames /\ f.type = "Done"
  BY FramesTyped DEF Frame
<1> HIDE DEF f
<1>2. InOrder(q, f) /\ HeardIn(i, q, f) = IF q = "failed" THEN "failed" ELSE "stopped"
  BY <1>1 DEF InOrder, HeardIn
<1>3. Run(Hearing(i), q, <<f>>, IF q = "failed" THEN "failed" ELSE "stopped")
  BY <1>1, <1>2, OneHeard
<1>4. <<f>> \in Seq(Frames) /\ Append(s, f) = s \o <<f>> /\ Append(s, f) \in Seq(Frames)
  BY <1>1
<1>5. Run(Hearing(i), p, Append(s, f), IF q = "failed" THEN "failed" ELSE "stopped")
  BY <1>3, <1>4, RunBoth
<1>6. QED BY <1>4, <1>5 DEF f

\* What finish writes, for a client who has heard all before.
LEMMA FinishLeads ==
  ASSUME ingress \in Protocols, NEW p \in Phases, NEW g \in Places, NEW x \in Translator,
         x.out = <<>>,
         ~Verbatim => Flags(x, g.at) /\ (~x.aborted => p = PhaseAt(ingress, g.at, x.emitted))
  PROVE  /\ Finish(x) \in Translator
         /\ Finish(x).last = x.last /\ Finish(x).failed = x.failed /\ Finish(x).start = x.start
         /\ Finish(x).aborted = x.aborted
         /\ \E q \in Phases :
              /\ Run(Hearing(ingress), p, Finish(x).out, q)
              /\ x.aborted => q = "failed"
              /\ ~x.aborted /\ ~Verbatim => /\ q = "failed" <=> g.at = "failed"
                                            /\ g.at = "over" => q = "stopped"
<1> DEFINE Done(y) == IF ingress = "openai" THEN [y EXCEPT !.out = Append(@, Frame("Done"))] ELSE y
           M == Hearing(ingress)
           Same(y) == y.last = x.last /\ y.failed = x.failed /\ y.start = x.start /\ y.aborted = x.aborted
<1>1. ASSUME NEW y \in Translator, Same(y), NEW q \in Phases, Run(M, p, y.out, q)
      PROVE  /\ Done(y) \in Translator /\ Same(Done(y))
             /\ Run(M, p, Done(y).out, IF ingress # "openai" \/ q = "failed" THEN q ELSE "stopped")
  <2>1. CASE ingress # "openai"
    BY <1>1, <2>1
  <2>2. CASE ingress = "openai"
    <3> DEFINE o == Append(y.out, Frame("Done"))
               z == [y EXCEPT !.out = o]
    <3>1. o \in Seq(Frames) /\ Run(M, p, o, IF q = "failed" THEN "failed" ELSE "stopped")
      <4>1. y.out \in Seq(Frames)
        BY <1>1 DEF Translator
      <4>2. QED BY <1>1, <4>1, DoneHeard
    <3> HIDE DEF o
    <3>2. z \in Translator /\ z.out = o /\ Same(z)
      BY <1>1, <3>1 DEF Translator
    <3>3. Done(y) = z
      BY <2>2 DEF o
    <3> HIDE DEF z, Done, Same
    <3>4. QED BY <2>2, <3>1, <3>2, <3>3
  <2>3. QED BY <2>1, <2>2
<1>2. Run(M, p, x.out, p) /\ Same(x) /\ x.writer \in Writer
  BY RunNothing DEF Translator
<1>3. CASE x.aborted
  <2> DEFINE y == Write(x, StreamError)
  <2>1. Finish(x) = Done(y)
    BY Zenon, <1>3 DEF Finish
  <2>2. Run(M, p, Written(x.writer, StreamError).out, "failed") /\ StreamError \in Events
    BY <1>2, ErrorHeard, FramesTyped
  <2>3. y \in Translator /\ Run(M, p, y.out, "failed") /\ Same(y)
    BY <1>2, <2>2, WriteLeads
  <2>4. "failed" \in Phases
    BY DEF Phases
  <2> HIDE DEF y
  <2>5. Done(y) \in Translator /\ Same(Done(y)) /\ Run(M, p, Done(y).out, "failed")
    BY <1>1, <2>3, <2>4
  <2> HIDE DEF Done
  <2>6. QED BY <1>3, <2>1, <2>4, <2>5
<1>4. CASE ~x.aborted /\ Verbatim
  <2>1. Finish(x) = x
    BY Zenon, <1>4 DEF Finish
  <2>2. QED BY <1>2, <1>4, <2>1
<1>5. CASE ~x.aborted /\ ~Verbatim
  <2> DEFINE n == MessageDelta(FALSE, ZeroUsage)
             e == [x EXCEPT !.emitted = TRUE, !.pending = FALSE]
             y == IF Binary /\ x.pending /\ ~x.emitted THEN Write(e, n) ELSE x
  <2>1. Finish(x) = Done(y)
    BY Zenon, <1>5 DEF Finish
  <2>2. Flags(x, g.at) /\ p = PhaseAt(ingress, g.at, x.emitted) /\ g.at \in Stages
    BY <1>5 DEF Places
  <2>3. \E q \in Phases : /\ y \in Translator /\ Run(M, p, y.out, q) /\ Same(y)
                          /\ q = "failed" <=> g.at = "failed"
                          /\ g.at = "over" /\ ingress # "openai" => q = "stopped"
    <3>1. CASE Binary /\ x.pending /\ ~x.emitted
      <4>1. g.at \in {"delta", "over"} /\ ingress = "bedrock"
        BY <2>2, <3>1 DEF Flags, Binary
      <4>2. p = "final" /\ "stopped" \in Phases /\ y = Write(e, n)
        BY <2>2, <3>1, <4>1 DEF PhaseAt, Phases
      <4>3. e \in Translator /\ e.out = x.out /\ Same(e) /\ e.writer \in Writer
        BY DEF Translator
      <4>4. n \in Events /\ Run(M, p, Written(e.writer, n).out, "stopped")
        BY <4>1, <4>2, <4>3, MetadataHeard, UsageTyped
      <4> HIDE DEF n, e
      <4>5. Write(e, n) \in Translator /\ Run(M, p, Write(e, n).out, "stopped") /\ Same(Write(e, n))
        BY <1>2, <4>3, <4>4, WriteLeads
      <4> HIDE DEF y, Same
      <4>6. QED BY <4>1, <4>2, <4>5
    <3>2. CASE ~(Binary /\ x.pending /\ ~x.emitted)
      <4>1. y = x
        BY <3>2
      <4>2. /\ p = "failed" <=> g.at = "failed"
            /\ g.at = "over" /\ ingress # "openai" => p = "stopped"
        BY <2>2, <3>2 DEF PhaseAt, Flags, Binary
      <4> HIDE DEF y, Same
      <4>3. QED BY <1>2, <4>1, <4>2
    <3>3. QED BY <3>1, <3>2
  <2> HIDE DEF y
  <2>4. PICK q \in Phases : /\ y \in Translator /\ Run(M, p, y.out, q) /\ Same(y)
                            /\ q = "failed" <=> g.at = "failed"
                            /\ g.at = "over" /\ ingress # "openai" => q = "stopped"
    BY <2>3
  <2> DEFINE r == IF ingress # "openai" \/ q = "failed" THEN q ELSE "stopped"
  <2>5. Done(y) \in Translator /\ Same(Done(y)) /\ Run(M, p, Done(y).out, r)
    BY <1>1, <2>4
  <2>6. r \in Phases /\ (r = "failed" <=> g.at = "failed") /\ (g.at = "over" => r = "stopped")
    BY <2>4 DEF Phases
  <2> HIDE DEF Done, r
  <2>7. QED BY <1>5, <2>1, <2>5, <2>6
<1>6. QED BY <1>3, <1>4, <1>5

-----------------------------------------------------------------------------
(* Runs of events.                                                         *)

\* The events of blocks, which leave a tale where it is.
BlockEvents == BlockStarts \cup BlockDeltas \cup BlockStops

\* The events are events, and which are of blocks.
LEMMA EventsTyped ==
  /\ BlockEvents \subseteq Events /\ BlockStops \subseteq BlockEvents
  /\ \A i \in Nat, k \in Blocks : BlockStart(i, k) \in BlockEvents
  /\ \A i \in Nat, k \in Blocks \cup {"citations"} : BlockDelta(i, k) \in BlockEvents
  /\ \A i \in Nat : BlockStop(i) \in BlockStops
  /\ \A f \in BOOLEAN, u \in Usage : MessageDelta(f, u) \in MessageDeltas
  /\ \A u \in Usage : MessageStart(u) \in Starts
  /\ MessageStop \in MessageStops /\ StreamError \in Errors
  /\ Starts \subseteq Events /\ MessageDeltas \subseteq Events /\ MessageStops \subseteq Events
  /\ Errors \subseteq Events
BY DEF BlockEvents, Events, BlockStart, BlockDelta, BlockStop, BlockStarts, BlockDeltas, BlockStops,
       MessageDelta, MessageDeltas, MessageStart, Starts, MessageStop, MessageStops, StreamError, Errors

\* Sequences of them.
LEMMA EventSeqs ==
  \A s : (s \in Seq(BlockEvents) => s \in Seq(Events)) /\ (s \in Seq(BlockStops) => s \in Seq(BlockEvents))
<1>1. BlockEvents \subseteq Events /\ BlockStops \subseteq BlockEvents
  BY EventsTyped
<1>2. QED BY <1>1

\* A single event that fits.
LEMMA OneTold ==
  ASSUME NEW g \in Places, NEW ev \in Events, Fits(g.at, ev)
  PROVE  Run(Tale, g, <<ev>>, Onward(g, ev)) /\ Onward(g, ev) \in Places
BY TaleIs, OnwardTyped, RunOne

\* Blocks leave a message where it is.
LEMMA BlocksTold ==
  ASSUME NEW g \in Places, g.at = "within", NEW s \in Seq(BlockEvents)
  PROVE  Run(Tale, g, s, g)
<1>1. ASSUME NEW ev \in BlockEvents PROVE <<g, ev, g>> \in Tale
  <2>1. ev \in Events /\ ev.type \in {"BlockStart", "BlockDelta", "BlockStop"}
    BY EventsTyped DEF BlockEvents, BlockStarts, BlockDeltas, BlockStops
  <2>2. Fits(g.at, ev)
    BY <2>1 DEF Fits
  <2>3. Onward(g, ev) = g
    BY <2>1 DEF Onward, NextStage, Places
  <2>4. <<g, ev, Onward(g, ev)>> \in Tale
    BY <2>1, <2>2, TaleIs
  <2>5. QED BY <2>3, <2>4
<1>2. QED BY <1>1, RunInPlace

\* After an error blocks still end, and so does the message.
LEMMA ClosingTold ==
  ASSUME NEW g \in Places, g.at = "failed", NEW s \in Seq(BlockStops)
  PROVE  Run(Tale, g, s \o <<MessageStop>>, g)
<1>1. ASSUME NEW ev \in BlockStops \cup MessageStops PROVE <<g, ev, g>> \in Tale
  <2>1. ev \in Events /\ ev.type \in {"BlockStop", "MessageStop"}
    BY EventsTyped DEF BlockStops, MessageStops
  <2>2. Fits(g.at, ev)
    BY <2>1 DEF Fits
  <2>3. Onward(g, ev) = g
    BY <2>1 DEF Onward, NextStage, Places
  <2>4. <<g, ev, Onward(g, ev)>> \in Tale
    BY <2>1, <2>2, TaleIs
  <2>5. QED BY <2>3, <2>4
<1>2. MessageStop \in MessageStops
  BY EventsTyped
<1> DEFINE S == BlockStops \cup MessageStops
           t == s \o <<MessageStop>>
<1>3. s \in Seq(S) /\ <<MessageStop>> \in Seq(S)
  BY <1>2
<1>4. t \in Seq(S)
  BY <1>3
<1> HIDE DEF t
<1>5. QED BY <1>1, <1>4, RunInPlace DEF t

\* The end of a message.
LEMMA EndTold ==
  ASSUME NEW g \in Places, g.at = "within", NEW f \in BOOLEAN, NEW u \in Usage, NEW h,
         h = [at |-> "over", start |-> g.start, last |-> Merged(g, u)]
  PROVE  /\ Run(Tale, g, <<MessageDelta(f, u), MessageStop>>, h)
         /\ <<MessageDelta(f, u), MessageStop>> \in Seq(Events)
<1> DEFINE d == MessageDelta(f, u)
           k == [at |-> "delta", start |-> g.start, last |-> Merged(g, u)]
<1>1. d \in Events /\ d.type = "MessageDelta" /\ d.usage = u
      /\ MessageStop \in Events /\ MessageStop.type = "MessageStop"
  BY EventsTyped DEF MessageDelta, MessageStop
<1> HIDE DEF d
<1>2. Fits(g.at, d) /\ Onward(g, d) = k /\ k.at = "delta"
  BY <1>1 DEF Fits, Onward, NextStage
<1>3. Run(Tale, g, <<d>>, k) /\ k \in Places
  BY <1>1, <1>2, OneTold
<1>4. Fits(k.at, MessageStop) /\ Onward(k, MessageStop) = h
  BY <1>1 DEF Fits, Onward, NextStage
<1> HIDE DEF k
<1>5. Run(Tale, k, <<MessageStop>>, h)
  BY <1>1, <1>3, <1>4, OneTold
<1>6. <<d>> \in Seq(Events) /\ <<MessageStop>> \in Seq(Events) /\ <<d, MessageStop>> \in Seq(Events)
  BY <1>1, ShortSeqs
<1>7. <<d, MessageStop>> = <<d>> \o <<MessageStop>>
  BY ShortConcat
<1>8. Run(Tale, g, <<d, MessageStop>>, h)
  BY <1>3, <1>5, <1>6, <1>7, RunBoth
<1>9. QED BY <1>6, <1>8 DEF d

-----------------------------------------------------------------------------
(* Stopping every block of a set, the lowest index first.                  *)

\* Every rank of a finite set of numbers has its member.
LEMMA Below ==
  ASSUME NEW S \in SUBSET Nat, IsFiniteSet(S), NEW k \in Nat, k < Cardinality(S)
  PROVE  \E i \in S : Cardinality({j \in S : j < i}) = k
<1> DEFINE under(i) == {j \in S : j < i}
           P == {n \in Nat : n < Cardinality(S) => \E i \in S : Cardinality(under(i)) = n}
<1>1. ASSUME NEW T \in SUBSET Nat, T # {}
      PROVE  \E i \in T : \A j \in T : i <= j
  <2> DEFINE R == OpToRel(<, Nat)
  <2>1. IsWellFoundedOn(R, Nat)
    BY NatLessThanWellFounded
  <2>2. R = {ss \in Nat \X Nat : ss[1] < ss[2]}
    BY DEF OpToRel
  <2> HIDE DEF R
  <2>3. PICK i \in T : \A j \in T : ~(<<j, i>> \in R)
    BY <1>1, <2>1, WFMin
  <2>4. ASSUME NEW j \in T PROVE i <= j
    <3>1. <<j, i>> \in Nat \X Nat /\ <<j, i>>[1] = j /\ <<j, i>>[2] = i
      OBVIOUS
    <3>2. ~(j < i)
      BY <2>2, <2>3, <3>1
    <3>3. QED BY <3>2
  <2>5. QED BY <2>4
<1>2. \A i \in S : IsFiniteSet(under(i)) /\ Cardinality(under(i)) \in Nat
  <2> TAKE i \in S
  <2>1. under(i) \in SUBSET S
    OBVIOUS
  <2>2. QED BY <2>1, FS_Subset, FS_CardinalityType
<1>3. 0 \in P
  <2> SUFFICES ASSUME 0 < Cardinality(S) PROVE \E i \in S : Cardinality(under(i)) = 0
    OBVIOUS
  <2>1. S # {}
    BY FS_EmptySet
  <2>2. PICK i \in S : \A j \in S : i <= j
    BY <1>1, <2>1
  <2>3. under(i) = {}
    <3>1. \A j \in S : j \in Nat /\ i \in Nat /\ ~(j < i)
      BY <2>2
    <3>2. QED BY <3>1
  <2>4. QED BY <2>3, FS_EmptySet
<1>4. ASSUME NEW n \in P PROVE n + 1 \in P
  <2> SUFFICES ASSUME n + 1 < Cardinality(S) PROVE \E i \in S : Cardinality(under(i)) = n + 1
    OBVIOUS
  <2>0. n \in Nat /\ Cardinality(S) \in Nat
    BY FS_CardinalityType
  <2>1. PICK i \in S : Cardinality(under(i)) = n
    BY <2>0
  <2> DEFINE U == under(i) \cup {i}
             T == S \ U
  <2>2. IsFiniteSet(U) /\ Cardinality(U) = n + 1
    <3>1. i \notin under(i)
      OBVIOUS
    <3>2. QED BY <1>2, <2>1, <3>1, FS_AddElement
  <2>3. T # {}
    <3>1. ASSUME T = {} PROVE FALSE
      <4>1. S = U
        BY <3>1
      <4> HIDE DEF U
      <4>2. QED BY <2>0, <2>2, <4>1
    <3>2. QED BY <3>1
  <2>4. PICK m \in T : \A j \in T : m <= j
    BY <1>1, <2>3
  <2>5. under(m) = U
    <3>1. m \in Nat /\ m \in S /\ m > i
      OBVIOUS
    <3>2. ASSUME NEW j \in S, j < m PROVE j \in U
      BY <2>4, <3>2
    <3>3. \A j \in U : j \in S /\ j < m
      BY <3>1
    <3>4. \A j : j \in U <=> j \in S /\ j < m
      BY <3>2, <3>3
    <3> HIDE DEF U
    <3>5. QED BY <3>4
  <2> HIDE DEF U
  <2>6. QED BY <2>2, <2>5
<1>5. P \in SUBSET Nat
  OBVIOUS
<1> HIDE DEF P
<1>6. k \in P
  BY <1>3, <1>4, <1>5, EveryNumber
<1>7. QED BY <1>6 DEF P

\* Stopping a finite set of blocks is a sequence of stops.
LEMMA StopsTyped ==
  ASSUME NEW S \in SUBSET Nat, IsFiniteSet(S)
  PROVE  Stops(S) \in Seq(BlockStops)
<1> DEFINE c == Cardinality(S)
<1>1. c \in Nat
  BY FS_CardinalityType
<1>2. ASSUME NEW n \in 1 .. c PROVE BlockStop(Nth(S, n)) \in BlockStops
  <2>1. n - 1 \in Nat /\ n - 1 < c
    BY <1>1
  <2>2. \E i \in S : Cardinality({j \in S : j < i}) = n - 1
    BY <2>1, Below
  <2>3. Nth(S, n) \in S
    BY <2>2 DEF Nth
  <2>4. QED BY <2>3, EventsTyped
<1>3. Stops(S) = [n \in 1 .. c |-> BlockStop(Nth(S, n))]
  BY DEF Stops
<1> HIDE DEF c
<1>4. QED BY <1>1, <1>2, <1>3

-----------------------------------------------------------------------------
(* A backend's stream so far, and the reader's memory of it.               *)

Ats == {"idle", "open", "stopping", "finished", "counted", "failed"}

\* What a backend of protocol e may have sent.
SentOK(e, s) ==
  /\ s = [at |-> s.at, text |-> s.text, open |-> s.open, used |-> s.used, told |-> s.told]
  /\ s.at \in Ats
  /\ s.used \subseteq Nat
  /\ \A i \in DOMAIN s.open : /\ i \in Nat
                              /\ s.open[i] \in Blocks \/ (e = "responses" /\ s.open[i] = "said")
  /\ e = "anthropic" => s.told = IF s.at = "idle" THEN ZeroUsage
                                 ELSE IF s.at \in {"stopping", "finished", "counted"} THEN Counts ELSE Prompt
  /\ e # "anthropic" => /\ s.told \in {ZeroUsage, Counts}
                        /\ s.at \notin {"finished", "counted"} => s.told = ZeroUsage

\* How far the events of all its frames have told the message.
PlaceOf(e, s) ==
  [at    |-> IF s.at = "idle" THEN "before"
             ELSE IF s.at \in {"finished", "counted"} THEN "over"
             ELSE IF s.at = "failed" /\ e # "openai" THEN "failed"
             ELSE IF s.at = "stopping" /\ e = "anthropic" THEN "delta"
             ELSE "within",
   start |-> IF e = "anthropic" /\ s.at # "idle" THEN Prompt ELSE ZeroUsage,
   last  |-> IF e = "anthropic" /\ s.at \notin {"stopping", "finished", "counted"} THEN ZeroUsage ELSE s.told]

ToolMaps == UNION {[S -> Nat] : S \in SUBSET Nat}
Memory == [started : BOOLEAN, text : BOOLEAN, text_index : Nat \cup {NoIndex},
           thinking : BOOLEAN, reasoning_seen : BOOLEAN, stop_pending : BOOLEAN,
           tools : ToolMaps, texts : SUBSET Nat]

\* A reader's memory within its cap.
Sound(e, d) ==
  /\ d \in Memory
  /\ IsFiniteSet(DOMAIN d.tools) /\ IsFiniteSet(d.texts)
  /\ Cardinality(DOMAIN d.tools) + Cardinality(d.texts) <= MaxOpenTools
  /\ e # "bedrock" /\ d.text => d.text_index \in Nat
  /\ e # "responses" => d.texts = {}

\* A reader that has opened the message if its backend has.
Ready(e, s, d) ==
  /\ Sound(e, d)
  /\ e # "anthropic" => /\ s.at = "idle" => ~d.started
                        /\ s.at \in {"open", "stopping", "finished", "counted"} => d.started

\* The reader of protocol e.
ReadBy(e, d, c) ==
  CASE e = "openai"    -> OpenAiRead(d, c)
    [] e = "gemini"    -> GeminiRead(d, c)
    [] e = "cohere"    -> CohereRead(d, c)
    [] e = "bedrock"   -> BedrockRead(d, c)
    [] e = "responses" -> ResponsesRead(d, c)
    [] e = "anthropic" -> AnthropicRead(d, c)

\* No count is one the backend did not tell.
Fit(usage, told) == usage.input \in {0, told.input} /\ usage.output \in {0, told.output}

\* What a reader makes of the frame c, sent on the way from s to t.
Answers(e, s, d, c, t) ==
  LET read == ReadBy(e, d, c)
  IN  /\ SentOK(e, t)
      /\ read.out \in Seq(Events)
      /\ Run(Tale, PlaceOf(e, s), read.out, PlaceOf(e, t))
      /\ Ready(e, t, read.st)
      /\ Fit(PlaceOf(e, s).last, t.told)

\* The counts of the backends are usages.
LEMMA UsagesTyped ==
  /\ ZeroUsage \in Usage /\ Prompt \in Usage /\ Completion \in Usage /\ Counts \in Usage
  /\ ZeroUsage = [input |-> 0, output |-> 0] /\ Counts = [input |-> 2, output |-> 1]
  /\ Prompt = [input |-> 2, output |-> 0]
  /\ Reported({}) = ZeroUsage /\ \A u : Reported({u}) = u
BY DEF ZeroUsage, Prompt, Completion, Counts, Usage, Reported, The

\* A backend's stream has a place in the tale.
LEMMA PlaceTyped ==
  ASSUME NEW e, NEW s, SentOK(e, s)
  PROVE  PlaceOf(e, s) \in Places
<1>1. s.told \in Usage
  BY UsagesTyped DEF SentOK
<1>2. QED BY <1>1, UsagesTyped DEF PlaceOf, Places, Stages

\* Maps from numbers to numbers of any domain.
LEMMA ToolMapsTyped ==
  /\ \A S \in SUBSET Nat : \A f \in [S -> Nat] : f \in ToolMaps
  /\ \A f \in ToolMaps : DOMAIN f \in SUBSET Nat /\ \A t \in DOMAIN f : f[t] \in Nat
  /\ <<>> \in ToolMaps /\ DOMAIN <<>> = {}
<1>1. \A S \in SUBSET Nat : \A f \in [S -> Nat] : f \in ToolMaps
  BY DEF ToolMaps
<1>2. ASSUME NEW f \in ToolMaps PROVE DOMAIN f \in SUBSET Nat /\ \A t \in DOMAIN f : f[t] \in Nat
  <2>1. PICK S \in SUBSET Nat : f \in [S -> Nat]
    BY DEF ToolMaps
  <2>2. QED BY <2>1
<1>3. <<>> \in [{} -> Nat] /\ {} \in SUBSET Nat /\ DOMAIN <<>> = {}
  OBVIOUS
<1>4. QED BY <1>1, <1>2, <1>3

\* What a step does to what a backend has open.
LEMMA SentMoves ==
  ASSUME NEW e, NEW s, SentOK(e, s), NEW i \in Nat, NEW k,
         k \in Blocks \/ (e = "responses" /\ k = "said")
  PROVE  /\ SentOK(e, Opening(s, i, k)) /\ Opening(s, i, k).at = s.at
         /\ SentOK(e, Closing(s, i)) /\ Closing(s, i).at = s.at
         /\ \A b \in BOOLEAN : SentOK(e, [s EXCEPT !.text = b]) /\ [s EXCEPT !.text = b].at = s.at
<1>1. s = [at |-> s.at, text |-> s.text, open |-> s.open, used |-> s.used, told |-> s.told]
  BY DEF SentOK
<1> DEFINE o == [j \in DOMAIN s.open \cup {i} |-> IF j = i THEN k ELSE s.open[j]]
           q == [j \in DOMAIN s.open \ {i} |-> s.open[j]]
<1>2. Opening(s, i, k) = [at |-> s.at, text |-> s.text, open |-> o, used |-> s.used \cup {i}, told |-> s.told]
  <2>1. Opening(s, i, k) = [s EXCEPT !.used = s.used \cup {i}, !.open = o]
    BY Zenon DEF Opening
  <2> HIDE DEF o
  <2>2. QED BY <1>1, <2>1
<1>3. Closing(s, i) = [at |-> s.at, text |-> s.text, open |-> q, used |-> s.used, told |-> s.told]
  BY <1>1 DEF Closing
<1>4. \A b : [s EXCEPT !.text = b] = [at |-> s.at, text |-> b, open |-> s.open, used |-> s.used, told |-> s.told]
  BY <1>1
<1>5. /\ \A j \in DOMAIN o : j \in Nat /\ (o[j] \in Blocks \/ (e = "responses" /\ o[j] = "said"))
      /\ \A j \in DOMAIN q : j \in Nat /\ (q[j] \in Blocks \/ (e = "responses" /\ q[j] = "said"))
  BY DEF SentOK
<1> HIDE DEF o, q
<1>6. SentOK(e, Opening(s, i, k)) /\ Opening(s, i, k).at = s.at
  BY <1>2, <1>5 DEF SentOK
<1>7. SentOK(e, Closing(s, i)) /\ Closing(s, i).at = s.at
  BY <1>3, <1>5 DEF SentOK
<1>8. \A b \in BOOLEAN : SentOK(e, [s EXCEPT !.text = b]) /\ [s EXCEPT !.text = b].at = s.at
  BY <1>4 DEF SentOK
<1>9. QED BY <1>6, <1>7, <1>8

\* Inside a message a frame becomes events of blocks.
LEMMA WithinAnswers ==
  ASSUME NEW e, NEW s, NEW d, NEW c, NEW t, SentOK(e, s), SentOK(e, t), Ready(e, s, d),
         s.at = "open", t.at = "open", ReadBy(e, d, c).out \in Seq(BlockEvents),
         Sound(e, ReadBy(e, d, c).st), ReadBy(e, d, c).st.started = d.started
  PROVE  Answers(e, s, d, c, t)
<1> DEFINE read == ReadBy(e, d, c)
<1>1. PlaceOf(e, s) = PlaceOf(e, t) /\ PlaceOf(e, s).at = "within"
  BY DEF PlaceOf, SentOK
<1>2. Run(Tale, PlaceOf(e, s), read.out, PlaceOf(e, t)) /\ read.out \in Seq(Events)
  BY <1>1, PlaceTyped, BlocksTold, EventSeqs
<1>3. Ready(e, t, read.st)
  BY DEF Ready
<1>4. Fit(PlaceOf(e, s).last, t.told)
  BY UsagesTyped DEF PlaceOf, Fit, SentOK
<1> HIDE DEF read
<1>5. QED BY <1>2, <1>3, <1>4 DEF Answers, read

\* What a step does to where a backend is and what it has told.
LEMMA Tells ==
  ASSUME NEW e, NEW s, SentOK(e, s), NEW w, NEW u
  PROVE  /\ At(s, w) = [at |-> w, text |-> s.text, open |-> s.open, used |-> s.used, told |-> s.told]
         /\ Telling(At(s, w), u) =
              [at |-> w, text |-> s.text, open |-> s.open, used |-> s.used,
               told |-> [input |-> Larger(s.told.input, Reported(u).input),
                         output |-> Larger(s.told.output, Reported(u).output)]]
<1>1. s = [at |-> s.at, text |-> s.text, open |-> s.open, used |-> s.used, told |-> s.told]
  BY DEF SentOK
<1>2. At(s, w) = [at |-> w, text |-> s.text, open |-> s.open, used |-> s.used, told |-> s.told]
  BY <1>1 DEF At
<1> DEFINE v == [input |-> Larger(s.told.input, Reported(u).input),
                 output |-> Larger(s.told.output, Reported(u).output)]
           r == At(s, w)
<1>3. r.told = s.told
  BY <1>2
<1>4. Telling(r, u) = [r EXCEPT !.told = v]
  BY <1>3 DEF Telling
<1> HIDE DEF v
<1>5. [r EXCEPT !.told = v] = [at |-> w, text |-> s.text, open |-> s.open, used |-> s.used, told |-> v]
  BY <1>2
<1>6. QED BY <1>2, <1>4, <1>5 DEF v

\* The larger of the counts that occur.
LEMMA LargerIs ==
  /\ Larger(0, 0) = 0 /\ Larger(0, 1) = 1 /\ Larger(0, 2) = 2
  /\ Larger(1, 0) = 1 /\ Larger(1, 1) = 1 /\ Larger(2, 0) = 2 /\ Larger(2, 2) = 2
BY DEF Larger

\* A frame that is one event.
LEMMA OneAnswers ==
  ASSUME NEW e, NEW s, NEW d, NEW c, NEW t, SentOK(e, s), SentOK(e, t),
         NEW ev \in Events, ReadBy(e, d, c).out = <<ev>>, Fits(PlaceOf(e, s).at, ev),
         PlaceOf(e, t) = Onward(PlaceOf(e, s), ev), Ready(e, t, ReadBy(e, d, c).st),
         Fit(PlaceOf(e, s).last, t.told)
  PROVE  Answers(e, s, d, c, t)
<1>1. PlaceOf(e, s) \in Places
  BY PlaceTyped
<1>2. Run(Tale, PlaceOf(e, s), <<ev>>, PlaceOf(e, t)) /\ <<ev>> \in Seq(Events)
  BY <1>1, OneTold, ShortSeqs
<1>3. QED BY <1>2 DEF Answers

-----------------------------------------------------------------------------
(* What a reader takes an index for is a number.                           *)
LEMMA ClampedIs ==
  ASSUME NEW i \in Nat
  PROVE  Clamped(i) \in Nat /\ BlockIndex(i) \in Nat /\ CohereFrame(i) \in Nat
BY CapIsPositive, BlockIndexIsNumber DEF Clamped, BlockIndex, CohereFrame, AtMost

-----------------------------------------------------------------------------
(* Anthropic *)

\* Whatever an anthropic backend sends, its reader answers it.
LEMMA AnthropicAnswers ==
  ASSUME egress = "anthropic", SentOK("anthropic", sent), NEW d, Ready("anthropic", sent, d),
         AnthropicSends
  PROVE  \E c, t : Send(c, t) /\ Answers("anthropic", sent, d, c, t)
<1> DEFINE e == "anthropic"
<1>0. \A c : ReadBy(e, d, c) = AnthropicRead(d, c) /\ ReadBy(e, d, c).st = d
  BY DEF ReadBy, AnthropicRead, Says
<1>a. \A t : Ready(e, t, d)
  BY DEF Ready
<1>1. CASE /\ sent.at = "idle"
           /\ Send([type |-> "message_start", usage |-> {Prompt}],
                   Telling(At(sent, "open"), {Prompt}))
  <2> DEFINE c == [type |-> "message_start", usage |-> {Prompt}]
             t == Telling(At(sent, "open"), {Prompt})
             ev == MessageStart(Prompt)
  <2>1. t = [at |-> "open", text |-> sent.text, open |-> sent.open, used |-> sent.used, told |-> Prompt]
    <3>1. sent.told = ZeroUsage
      BY <1>1 DEF SentOK
    <3>2. /\ Larger(sent.told.input, Reported({Prompt}).input) = 2
          /\ Larger(sent.told.output, Reported({Prompt}).output) = 0
      <4>1. Reported({Prompt}) = Prompt
        BY Zenon, UsagesTyped
      <4>2. /\ sent.told.input = 0 /\ sent.told.output = 0
            /\ Reported({Prompt}).input = 2 /\ Reported({Prompt}).output = 0
        BY <3>1, <4>1, UsagesTyped
      <4>3. QED BY <4>2, LargerIs
    <3>3. [input |-> Larger(sent.told.input, Reported({Prompt}).input),
           output |-> Larger(sent.told.output, Reported({Prompt}).output)] = Prompt
      BY <3>2, UsagesTyped
    <3>4. QED BY <3>3, Tells
  <2>2. ReadBy(e, d, c).out = <<ev>>
    <3>1. AnthropicRead(d, c).out = <<MessageStart(Reported(c.usage))>>
      BY DEF AnthropicRead, Says
    <3>2. QED BY <1>0, <3>1, UsagesTyped
  <2>3. ev \in Events /\ ev.type = "MessageStart" /\ ev.usage = Prompt
    BY EventsTyped, UsagesTyped DEF MessageStart
  <2> HIDE DEF c, t, ev
  <2>4. SentOK(e, t)
    BY <2>1 DEF SentOK, Ats
  <2>5. /\ Fits(PlaceOf(e, sent).at, ev) /\ PlaceOf(e, t) = Onward(PlaceOf(e, sent), ev)
        /\ Fit(PlaceOf(e, sent).last, t.told)
    BY <1>1, <2>1, <2>3, UsagesTyped DEF PlaceOf, Fits, Onward, NextStage, Fit
  <2>6. Answers(e, sent, d, c, t)
    BY <1>0, <1>a, <2>2, <2>3, <2>4, <2>5, OneAnswers
  <2>7. QED BY <1>1, <2>6 DEF c, t
<1>2. ASSUME sent.at = "open", NEW c, NEW t, Send(c, t), SentOK(e, t), t.at = "open",
             AnthropicRead(d, c).out \in Seq(BlockEvents)
      PROVE  \E cc, tt : Send(cc, tt) /\ Answers(e, sent, d, cc, tt)
  <2>1. Sound(e, d)
    BY DEF Ready
  <2>2. Answers(e, sent, d, c, t)
    BY <1>0, <1>2, <2>1, WithinAnswers
  <2>3. QED BY <1>2, <2>2
<1>3. ASSUME sent.at = "open", NEW i \in NextIndex, NEW k \in Blocks,
             Send([type |-> "content_block_start", index |-> i, kind |-> k], Opening(sent, i, k))
      PROVE  \E c, t : Send(c, t) /\ Answers(e, sent, d, c, t)
  <2> DEFINE c == [type |-> "content_block_start", index |-> i, kind |-> k]
  <2>1. i \in Nat
    BY IndicesAreNumbers DEF NextIndex
  <2>2. AnthropicRead(d, c).out = <<BlockStart(BlockIndex(i), k)>>
    BY DEF AnthropicRead, Says
  <2>3. AnthropicRead(d, c).out \in Seq(BlockEvents)
    BY <2>1, <2>2, ClampedIs, EventsTyped, ShortSeqs
  <2> HIDE DEF c
  <2>4. SentOK(e, Opening(sent, i, k)) /\ Opening(sent, i, k).at = "open"
    BY <1>3, <2>1, SentMoves
  <2>5. Send(c, Opening(sent, i, k))
    BY <1>3 DEF c
  <2>6. QED BY <1>2, <1>3, <2>3, <2>4, <2>5
<1>4. ASSUME sent.at = "open", NEW i \in DOMAIN sent.open,
             Send([type |-> "content_block_delta", index |-> i, kind |-> sent.open[i]], sent)
      PROVE  \E c, t : Send(c, t) /\ Answers(e, sent, d, c, t)
  <2> DEFINE c == [type |-> "content_block_delta", index |-> i, kind |-> sent.open[i]]
  <2>1. i \in Nat /\ sent.open[i] \in Blocks
    BY DEF SentOK
  <2>2. AnthropicRead(d, c).out = <<BlockDelta(BlockIndex(i), sent.open[i])>>
    BY DEF AnthropicRead, Says
  <2>3. AnthropicRead(d, c).out \in Seq(BlockEvents)
    BY <2>1, <2>2, ClampedIs, EventsTyped, ShortSeqs
  <2> HIDE DEF c
  <2>4. Send(c, sent)
    BY <1>4 DEF c
  <2>5. QED BY <1>2, <1>4, <2>3, <2>4
<1>5. ASSUME sent.at = "open", NEW i \in DOMAIN sent.open,
             Send([type |-> "content_block_stop", index |-> i, kind |-> sent.open[i]], Closing(sent, i))
      PROVE  \E c, t : Send(c, t) /\ Answers(e, sent, d, c, t)
  <2> DEFINE c == [type |-> "content_block_stop", index |-> i, kind |-> sent.open[i]]
  <2>1. i \in Nat /\ sent.open[i] \in Blocks
    BY DEF SentOK
  <2>2. AnthropicRead(d, c).out = <<BlockStop(BlockIndex(i))>>
    BY DEF AnthropicRead, Says
  <2>3. AnthropicRead(d, c).out \in Seq(BlockEvents)
    BY <2>1, <2>2, ClampedIs, EventsTyped, ShortSeqs
  <2> HIDE DEF c
  <2>4. Send(c, Closing(sent, i)) /\ SentOK(e, Closing(sent, i)) /\ Closing(sent, i).at = "open"
    BY <1>5, <2>1, SentMoves DEF c
  <2>5. QED BY <1>2, <1>5, <2>3, <2>4
<1>6. ASSUME sent.at = "open", NEW u \in {Completion, Counts},
             Send([type |-> "message_delta", final |-> TRUE, usage |-> {u}],
                  Telling(At(sent, "stopping"), {u}))
      PROVE  \E c, t : Send(c, t) /\ Answers(e, sent, d, c, t)
  <2> DEFINE c == [type |-> "message_delta", final |-> TRUE, usage |-> {u}]
             t == Telling(At(sent, "stopping"), {u})
             ev == MessageDelta(TRUE, u)
  <2>0. u.input \in {0, 2} /\ u.output = 1 /\ u \in Usage
    BY UsagesTyped DEF Completion
  <2>1. t = [at |-> "stopping", text |-> sent.text, open |-> sent.open, used |-> sent.used, told |-> Counts]
    <3>1. sent.told = Prompt
      BY <1>6 DEF SentOK
    <3>2. /\ Larger(sent.told.input, Reported({u}).input) = 2
          /\ Larger(sent.told.output, Reported({u}).output) = 1
      <4>1. Reported({u}) = u
        BY Zenon, UsagesTyped
      <4>2. /\ sent.told.input = 2 /\ sent.told.output = 0
            /\ Reported({u}).input \in {0, 2} /\ Reported({u}).output = 1
        BY <2>0, <3>1, <4>1, UsagesTyped
      <4>3. QED BY <4>2, LargerIs
    <3>3. [input |-> Larger(sent.told.input, Reported({u}).input),
           output |-> Larger(sent.told.output, Reported({u}).output)] = Counts
      BY <3>2, UsagesTyped
    <3>4. QED BY <3>3, Tells
  <2>2. ReadBy(e, d, c).out = <<ev>>
    <3>1. AnthropicRead(d, c).out = <<MessageDelta(c.final, Reported(c.usage))>>
      BY DEF AnthropicRead, Says
    <3>2. QED BY <1>0, <3>1, UsagesTyped
  <2>3. ev \in Events /\ ev.type = "MessageDelta" /\ ev.usage = u
    BY <2>0, EventsTyped DEF MessageDelta
  <2> HIDE DEF c, t, ev
  <2>4. SentOK(e, t)
    BY <2>1 DEF SentOK, Ats
  <2>a. Merged(PlaceOf(e, sent), u) = Counts
    BY <1>6, <2>0, UsagesTyped DEF PlaceOf, Merged, Or
  <2>5. /\ Fits(PlaceOf(e, sent).at, ev) /\ PlaceOf(e, t) = Onward(PlaceOf(e, sent), ev)
        /\ Fit(PlaceOf(e, sent).last, t.told)
    BY <1>6, <2>1, <2>3, <2>a, UsagesTyped DEF PlaceOf, Fits, Onward, NextStage, Fit
  <2>6. Answers(e, sent, d, c, t)
    BY <1>0, <1>a, <2>2, <2>3, <2>4, <2>5, OneAnswers
  <2>7. QED BY <1>6, <2>6 DEF c, t
<1>7. CASE sent.at = "open" /\ Send([type |-> "error"], At(sent, "failed"))
  <2> DEFINE c == [type |-> "error"]
             t == At(sent, "failed")
             ev == StreamError
  <2>1. t = [at |-> "failed", text |-> sent.text, open |-> sent.open, used |-> sent.used, told |-> Prompt]
    <3>1. sent.told = Prompt
      BY <1>7 DEF SentOK
    <3>2. QED BY <3>1, Tells
  <2>2. ReadBy(e, d, c).out = <<ev>>
    <3>1. AnthropicRead(d, c).out = <<StreamError>>
      BY DEF AnthropicRead, Says
    <3>2. QED BY <1>0, <3>1
  <2>3. ev \in Events /\ ev.type = "Error"
    BY EventsTyped DEF StreamError
  <2> HIDE DEF c, t, ev
  <2>4. SentOK(e, t)
    BY <2>1 DEF SentOK, Ats
  <2>5. /\ Fits(PlaceOf(e, sent).at, ev) /\ PlaceOf(e, t) = Onward(PlaceOf(e, sent), ev)
        /\ Fit(PlaceOf(e, sent).last, t.told)
    BY <1>7, <2>1, <2>3, UsagesTyped DEF PlaceOf, Fits, Onward, NextStage, Fit
  <2>6. Answers(e, sent, d, c, t)
    BY <1>0, <1>a, <2>2, <2>3, <2>4, <2>5, OneAnswers
  <2>7. QED BY <1>7, <2>6 DEF c, t
<1>8. CASE sent.at = "stopping" /\ Send([type |-> "message_stop"], At(sent, "finished"))
  <2> DEFINE c == [type |-> "message_stop"]
             t == At(sent, "finished")
             ev == MessageStop
  <2>1. t = [at |-> "finished", text |-> sent.text, open |-> sent.open, used |-> sent.used, told |-> Counts]
        /\ sent.told = Counts
    <3>1. sent.told = Counts
      BY <1>8 DEF SentOK
    <3>2. QED BY <3>1, Tells
  <2>2. ReadBy(e, d, c).out = <<ev>>
    <3>1. AnthropicRead(d, c).out = <<MessageStop>>
      BY DEF AnthropicRead, Says
    <3>2. QED BY <1>0, <3>1
  <2>3. ev \in Events /\ ev.type = "MessageStop"
    BY EventsTyped DEF MessageStop
  <2> HIDE DEF c, t, ev
  <2>4. SentOK(e, t)
    BY <2>1 DEF SentOK, Ats
  <2>5. /\ Fits(PlaceOf(e, sent).at, ev) /\ PlaceOf(e, t) = Onward(PlaceOf(e, sent), ev)
        /\ Fit(PlaceOf(e, sent).last, t.told)
    BY <1>8, <2>1, <2>3, UsagesTyped DEF PlaceOf, Fits, Onward, NextStage, Fit
  <2>6. Answers(e, sent, d, c, t)
    BY <1>0, <1>a, <2>2, <2>3, <2>4, <2>5, OneAnswers
  <2>7. QED BY <1>8, <2>6 DEF c, t
<1> HIDE DEF e
<1>9. QED BY <1>1, <1>3, <1>4, <1>5, <1>6, <1>7, <1>8 DEF AnthropicSends, e

-----------------------------------------------------------------------------
(* The readers that open the message themselves and end it with a last     *)
(* count and a stop.                                                       *)

\* A message that has been opened, and nothing counted.
Midway == [at |-> "within", start |-> ZeroUsage, last |-> ZeroUsage]

\* An open stream is midway in its tale.
LEMMA MidwayIs ==
  ASSUME NEW e, e # "anthropic", NEW s, SentOK(e, s)
  PROVE  /\ Midway \in Places /\ Midway.at = "within"
         /\ s.at \in {"open", "stopping"} => PlaceOf(e, s) = Midway
         /\ s.at \notin {"finished", "counted"} => s.told = ZeroUsage
BY UsagesTyped DEF Midway, Places, Stages, PlaceOf, SentOK

\* A reader that has not begun tells the message's start first.
LEMMA BegunTold ==
  ASSUME NEW e, e # "anthropic", NEW s, SentOK(e, s), NEW d, Ready(e, s, d),
         s.at \in {"idle", "open"}
  PROVE  /\ Begun(d).out \in Seq(Events)
         /\ Run(Tale, PlaceOf(e, s), Begun(d).out, Midway)
         /\ Sound(e, Begun(d).st) /\ Begun(d).st.started
         /\ Begun(d).st = [d EXCEPT !.started = TRUE]
<1> DEFINE ev == MessageStart(ZeroUsage)
<1>1. Begun(d).out = Only(~d.started, ev) /\ Begun(d).st = [d EXCEPT !.started = TRUE]
  BY DEF Begun, Says
<1>2. ev \in Events /\ ev.type = "MessageStart" /\ ev.usage = ZeroUsage
  BY EventsTyped, UsagesTyped DEF MessageStart
<1> HIDE DEF ev
<1>3. d \in Memory
  BY DEF Ready, Sound
<1>4. Sound(e, Begun(d).st) /\ Begun(d).st.started
  BY <1>1, <1>3 DEF Ready, Sound, Memory
<1>5. CASE s.at = "idle"
  <2>1. Begun(d).out = <<ev>>
    BY <1>1, <1>5 DEF Ready, Only
  <2>2. PlaceOf(e, s) \in Places
    BY PlaceTyped
  <2>3. Fits(PlaceOf(e, s).at, ev) /\ Onward(PlaceOf(e, s), ev) = Midway
    BY <1>2, <1>5, MidwayIs DEF PlaceOf, Fits, Onward, NextStage, Midway
  <2>4. Run(Tale, PlaceOf(e, s), <<ev>>, Midway)
    BY <1>2, <2>2, <2>3, OneTold
  <2>5. QED BY <1>1, <1>2, <1>4, <2>1, <2>4, ShortSeqs
<1>6. CASE s.at = "open"
  <2>1. Begun(d).out = <<>>
    BY <1>1, <1>6 DEF Ready, Only
  <2>2. PlaceOf(e, s) = Midway
    BY <1>6, MidwayIs
  <2>3. Run(Tale, Midway, <<>>, Midway) /\ <<>> \in Seq(Events)
    BY RunNothing, ShortSeqs
  <2>4. QED BY <1>1, <1>4, <2>1, <2>2, <2>3
<1>7. QED BY <1>5, <1>6

\* Counts that come are reported, those that do not are zero.
LEMMA ReportedIs ==
  ASSUME NEW u \in Counted
  PROVE  /\ Reported(u) \in {ZeroUsage, Counts} /\ Reported(u) \in Usage
         /\ Larger(0, Reported(u).input) = Reported(u).input
         /\ Larger(0, Reported(u).output) = Reported(u).output
         /\ Reported(u) = [input |-> Reported(u).input, output |-> Reported(u).output]
<1>1. Reported({}) = ZeroUsage /\ Reported({Counts}) = Counts
  BY Zenon, UsagesTyped
<1>2. u = {} \/ u = {Counts}
  BY DEF Counted
<1>3. Reported(u) \in {ZeroUsage, Counts}
  BY <1>1, <1>2
<1>4. QED BY <1>3, UsagesTyped, LargerIs

\* A backend that has counted has told its counts.
LEMMA CountedIs ==
  ASSUME NEW e, e # "anthropic", NEW s, SentOK(e, s), s.told = ZeroUsage, NEW u \in Counted,
         NEW w \in {"finished", "counted"}
  PROVE  /\ SentOK(e, Telling(At(s, w), u)) /\ Telling(At(s, w), u).at = w
         /\ Telling(At(s, w), u).told = Reported(u)
<1> DEFINE t == Telling(At(s, w), u)
<1>1. t = [at |-> w, text |-> s.text, open |-> s.open, used |-> s.used, told |-> Reported(u)]
  <2>1. s.told.input = 0 /\ s.told.output = 0
    BY UsagesTyped
  <2>2. [input |-> Larger(s.told.input, Reported(u).input),
         output |-> Larger(s.told.output, Reported(u).output)] = Reported(u)
    BY <2>1, ReportedIs
  <2>3. QED BY <2>2, Tells
<1> HIDE DEF t
<1>2. SentOK(e, t)
  BY <1>1, ReportedIs DEF SentOK, Ats
<1>3. QED BY <1>1, <1>2 DEF t

\* The stop of the blocks, the last count and the stop end the tale.
LEMMA FinishTold ==
  ASSUME NEW e, e # "anthropic", NEW t, SentOK(e, t), t.at \in {"finished", "counted"},
         NEW u \in Counted, t.told = Reported(u), NEW f \in BOOLEAN, NEW b \in Seq(BlockEvents)
  PROVE  /\ Run(Tale, Midway, b \o <<MessageDelta(f, Reported(u)), MessageStop>>, PlaceOf(e, t))
         /\ b \o <<MessageDelta(f, Reported(u)), MessageStop>> \in Seq(Events)
<1> DEFINE s == <<MessageDelta(f, Reported(u)), MessageStop>>
<1>1. Midway \in Places /\ Midway.at = "within" /\ Midway.start = ZeroUsage /\ Midway.last = ZeroUsage
  BY MidwayIs DEF Midway
<1>2. Run(Tale, Midway, b, Midway) /\ b \in Seq(Events)
  BY <1>1, BlocksTold, EventSeqs
<1>3. Merged(Midway, Reported(u)) = Reported(u)
  BY <1>1, UsagesTyped, ReportedIs DEF Merged, Or
<1>4. PlaceOf(e, t) = [at |-> "over", start |-> Midway.start, last |-> Merged(Midway, Reported(u))]
  BY <1>1, <1>3 DEF PlaceOf
<1>5. Run(Tale, Midway, s, PlaceOf(e, t)) /\ s \in Seq(Events)
  BY <1>1, <1>4, ReportedIs, EndTold
<1> HIDE DEF s
<1>6. Run(Tale, Midway, b \o s, PlaceOf(e, t)) /\ b \o s \in Seq(Events)
  BY <1>2, <1>5, RunBoth
<1>7. QED BY <1>6 DEF s

\* Before the end nothing is counted.
LEMMA NothingLast ==
  ASSUME NEW e, e # "anthropic", NEW s, SentOK(e, s), s.told = ZeroUsage, NEW told
  PROVE  Fit(PlaceOf(e, s).last, told)
BY UsagesTyped DEF PlaceOf, Fit

-----------------------------------------------------------------------------
(* Bedrock *)

\* A bedrock reader keeps its memory sound over the frames of blocks.
LEMMA BedrockBlock ==
  ASSUME NEW d, Sound("bedrock", d), NEW c, c.index \in Nat, c.kind \in Blocks,
         c.type \in {"contentBlockStart", "contentBlockDelta", "contentBlockStop"}
  PROVE  /\ BedrockRead(d, c).out \in Seq(BlockEvents)
         /\ Sound("bedrock", BedrockRead(d, c).st) /\ BedrockRead(d, c).st.started = d.started
<1> DEFINE i == BlockIndex(c.index)
<1>1. d \in Memory /\ BlockStart(i, c.kind) \in BlockEvents
      /\ BlockDelta(i, c.kind) \in BlockEvents /\ BlockStop(i) \in BlockEvents
  BY ClampedIs, EventsTyped DEF Sound
<1>2. /\ BedrockStart(d, c).out \in {<<>>, <<BlockStart(i, c.kind)>>}
      /\ Sound("bedrock", BedrockStart(d, c).st) /\ BedrockStart(d, c).st.started = d.started
  <2> DEFINE o == [d EXCEPT !.text = @ \/ c.kind = "text", !.thinking = @ \/ c.kind = "thinking"]
  <2>1. o \in Memory /\ o.started = d.started /\ o.tools = d.tools /\ o.texts = d.texts
    BY <1>1 DEF Memory
  <2>2. Sound("bedrock", o)
    BY <2>1 DEF Sound
  <2> HIDE DEF o
  <2>3. \/ BedrockStart(d, c).st = d /\ BedrockStart(d, c).out = <<>>
        \/ BedrockStart(d, c).st = o /\ BedrockStart(d, c).out = <<BlockStart(i, c.kind)>>
    BY DEF BedrockStart, Says, Silent, o
  <2>4. QED BY <2>1, <2>2, <2>3
<1>3. CASE c.type = "contentBlockStart"
  <2>1. BedrockRead(d, c) = BedrockStart(d, c)
    BY <1>3 DEF BedrockRead
  <2>2. QED BY <1>1, <1>2, <2>1, ShortSeqs
<1>4. CASE c.type = "contentBlockDelta" /\ c.kind = "thinking"
  <2> DEFINE a == BedrockStart(d, c)
             o == Only(a.st.thinking, BlockDelta(i, "thinking"))
  <2>1. BedrockRead(d, c) = Says(a.st, a.out \o o)
    BY <1>4 DEF BedrockRead, BedrockDelta
  <2>2. o = <<>> \/ o = <<BlockDelta(i, c.kind)>>
    BY Zenon, <1>4 DEF Only
  <2> HIDE DEF a, o
  <2>3. a.out \in Seq(BlockEvents) /\ o \in Seq(BlockEvents)
    BY <1>1, <1>2, <2>2, ShortSeqs DEF a
  <2>4. BedrockRead(d, c).st = a.st /\ BedrockRead(d, c).out = a.out \o o
    BY <2>1 DEF Says
  <2>5. QED BY <1>2, <2>3, <2>4 DEF a
<1>5. CASE c.type = "contentBlockDelta" /\ c.kind # "thinking"
  <2>1. BedrockRead(d, c).st = d /\ BedrockRead(d, c).out = <<BlockDelta(i, c.kind)>>
    BY <1>5 DEF BedrockRead, BedrockDelta, Says
  <2>2. QED BY <1>1, <2>1, ShortSeqs
<1>6. CASE c.type = "contentBlockStop"
  <2> DEFINE o == [d EXCEPT !.text = FALSE, !.thinking = FALSE]
  <2>1. BedrockRead(d, c).st = o /\ BedrockRead(d, c).out = <<BlockStop(i)>>
    BY <1>6 DEF BedrockRead, Says
  <2>2. o \in Memory /\ o.started = d.started /\ o.tools = d.tools /\ o.texts = d.texts
    BY <1>1 DEF Memory
  <2> HIDE DEF o
  <2>3. QED BY <1>1, <2>1, <2>2, ShortSeqs DEF Sound
<1>7. QED BY <1>3, <1>4, <1>5, <1>6

\* Whatever a bedrock backend sends, its reader answers it.
LEMMA BedrockAnswers ==
  ASSUME egress = "bedrock", SentOK("bedrock", sent), NEW d, Ready("bedrock", sent, d),
         BedrockSends
  PROVE  \E c, t : Send(c, t) /\ Answers("bedrock", sent, d, c, t)
<1> DEFINE e == "bedrock"
<1>0. \A c : ReadBy(e, d, c) = BedrockRead(d, c)
  BY DEF ReadBy
<1>a. Sound(e, d) /\ d \in Memory
  BY DEF Ready, Sound
<1>1. CASE sent.at = "idle" /\ Send([type |-> "messageStart"], At(sent, "open"))
  <2> DEFINE c == [type |-> "messageStart"]
             t == At(sent, "open")
  <2>1. sent.told = ZeroUsage
    BY <1>1, MidwayIs
  <2>2. t = [at |-> "open", text |-> sent.text, open |-> sent.open, used |-> sent.used, told |-> ZeroUsage]
    BY <2>1, Tells
  <2>3. ReadBy(e, d, c) = Begun(d)
    <3>1. BedrockRead(d, c) = Begun(d)
      BY DEF BedrockRead
    <3>2. QED BY <1>0, <3>1
  <2> HIDE DEF c, t
  <2>4. SentOK(e, t) /\ PlaceOf(e, t) = Midway
    <3>1. SentOK(e, t)
      BY <2>2 DEF SentOK, Ats
    <3>2. QED BY <2>2, <3>1, MidwayIs
  <2>5. Ready(e, t, Begun(d).st)
    BY <1>1, <2>2, BegunTold DEF Ready
  <2>6. Answers(e, sent, d, c, t)
    BY <1>1, <2>1, <2>3, <2>4, <2>5, BegunTold, NothingLast DEF Answers
  <2>7. QED BY <1>1, <2>6 DEF c, t
<1>2. ASSUME sent.at = "open", NEW c, NEW t, Send(c, t), SentOK(e, t), t.at = "open",
             c.index \in Nat, c.kind \in Blocks,
             c.type \in {"contentBlockStart", "contentBlockDelta", "contentBlockStop"}
      PROVE  \E cc, tt : Send(cc, tt) /\ Answers(e, sent, d, cc, tt)
  <2>1. /\ ReadBy(e, d, c).out \in Seq(BlockEvents)
        /\ Sound(e, ReadBy(e, d, c).st) /\ ReadBy(e, d, c).st.started = d.started
    BY <1>0, <1>2, <1>a, BedrockBlock
  <2>2. Answers(e, sent, d, c, t)
    BY <1>2, <2>1, WithinAnswers
  <2>3. QED BY <1>2, <2>2
<1>3. ASSUME sent.at = "open", NEW i \in NextIndex, NEW k \in Blocks,
             NEW type \in {"contentBlockStart", "contentBlockDelta"},
             Send([type |-> type, index |-> i, kind |-> k], Opening(sent, i, k))
      PROVE  \E c, t : Send(c, t) /\ Answers(e, sent, d, c, t)
  <2> DEFINE c == [type |-> type, index |-> i, kind |-> k]
  <2>1. i \in Nat
    BY IndicesAreNumbers DEF NextIndex
  <2>2. SentOK(e, Opening(sent, i, k)) /\ Opening(sent, i, k).at = "open"
    BY <1>3, <2>1, SentMoves
  <2>3. Send(c, Opening(sent, i, k)) /\ c.index \in Nat /\ c.kind \in Blocks
        /\ c.type \in {"contentBlockStart", "contentBlockDelta", "contentBlockStop"}
    BY <1>3, <2>1
  <2> HIDE DEF c, e
  <2>4. QED BY <1>2, <1>3, <2>2, <2>3
<1>4. ASSUME sent.at = "open", NEW i \in DOMAIN sent.open, NEW t \in {sent, Closing(sent, i)},
             NEW type \in {"contentBlockDelta", "contentBlockStop"},
             Send([type |-> type, index |-> i, kind |-> sent.open[i]], t)
      PROVE  \E cc, tt : Send(cc, tt) /\ Answers(e, sent, d, cc, tt)
  <2> DEFINE c == [type |-> type, index |-> i, kind |-> sent.open[i]]
  <2>1. i \in Nat /\ sent.open[i] \in Blocks
    BY DEF SentOK
  <2>2. SentOK(e, t) /\ t.at = "open"
    BY <1>4, <2>1, SentMoves
  <2>3. Send(c, t) /\ c.index \in Nat /\ c.kind \in Blocks
        /\ c.type \in {"contentBlockStart", "contentBlockDelta", "contentBlockStop"}
    BY <1>4, <2>1
  <2> HIDE DEF c, e
  <2>4. QED BY <1>2, <1>4, <2>2, <2>3
<1>5. CASE sent.at = "open" /\ Send([type |-> "messageStop", final |-> TRUE], At(sent, "stopping"))
  <2> DEFINE c == [type |-> "messageStop", final |-> TRUE]
             t == At(sent, "stopping")
             s == [d EXCEPT !.stop_pending = TRUE]
  <2>1. sent.told = ZeroUsage
    BY <1>5, MidwayIs
  <2>2. t = [at |-> "stopping", text |-> sent.text, open |-> sent.open, used |-> sent.used, told |-> ZeroUsage]
    BY <2>1, Tells
  <2>3. ReadBy(e, d, c).st = s /\ ReadBy(e, d, c).out = <<>>
    <3>1. BedrockRead(d, c).st = s /\ BedrockRead(d, c).out = <<>>
      BY DEF BedrockRead, Silent, Says
    <3>2. QED BY <1>0, <3>1
  <2>4. s \in Memory /\ s.started = d.started /\ s.tools = d.tools /\ s.texts = d.texts
    BY <1>a DEF Memory
  <2> HIDE DEF c, t, s
  <2>5. SentOK(e, t) /\ PlaceOf(e, t) = Midway /\ PlaceOf(e, sent) = Midway
    <3>1. SentOK(e, t)
      BY <2>2 DEF SentOK, Ats
    <3>2. QED BY <1>5, <2>2, <3>1, MidwayIs
  <2>6. Ready(e, t, s)
    BY <1>5, <2>2, <2>4 DEF Ready, Sound
  <2>7. Run(Tale, PlaceOf(e, sent), <<>>, PlaceOf(e, t))
    BY <2>5, RunNothing
  <2>8. Answers(e, sent, d, c, t)
    BY <2>1, <2>3, <2>5, <2>6, <2>7, NothingLast, ShortSeqs DEF Answers
  <2>9. QED BY <1>5, <2>8 DEF c, t
<1>6. CASE sent.at = "open" /\ Send([type |-> "exception"], At(sent, "failed"))
  <2> DEFINE c == [type |-> "exception"]
             t == At(sent, "failed")
             ev == StreamError
  <2>1. sent.told = ZeroUsage
    BY <1>6, MidwayIs
  <2>2. t = [at |-> "failed", text |-> sent.text, open |-> sent.open, used |-> sent.used, told |-> ZeroUsage]
    BY <2>1, Tells
  <2>3. ReadBy(e, d, c).st = d /\ ReadBy(e, d, c).out = <<ev>>
    <3>1. BedrockRead(d, c).st = d /\ BedrockRead(d, c).out = <<ev>>
      BY DEF BedrockRead, Says
    <3>2. QED BY <1>0, <3>1
  <2>4. ev \in Events /\ ev.type = "Error"
    BY EventsTyped DEF StreamError
  <2> HIDE DEF c, t, ev
  <2>5. SentOK(e, t) /\ Ready(e, t, d)
    BY <1>6, <2>2 DEF SentOK, Ats, Ready
  <2>6. Fits(PlaceOf(e, sent).at, ev) /\ PlaceOf(e, t) = Onward(PlaceOf(e, sent), ev)
    BY <1>6, <2>1, <2>2, <2>4 DEF PlaceOf, Fits, Onward, NextStage
  <2>7. Answers(e, sent, d, c, t)
    BY <2>1, <2>3, <2>4, <2>5, <2>6, OneAnswers, NothingLast
  <2>8. QED BY <1>6, <2>7 DEF c, t
<1>7. ASSUME sent.at = "stopping", NEW u \in Counted,
             Send([type |-> "metadata", usage |-> u], Telling(At(sent, "finished"), u))
      PROVE  \E c, t : Send(c, t) /\ Answers(e, sent, d, c, t)
  <2> DEFINE c == [type |-> "metadata", usage |-> u]
             t == Telling(At(sent, "finished"), u)
             s == [d EXCEPT !.stop_pending = FALSE]
             f == d.stop_pending
             o == <<MessageDelta(f, Reported(u)), MessageStop>>
  <2>1. sent.told = ZeroUsage
    BY <1>7, MidwayIs
  <2>2. SentOK(e, t) /\ t.at = "finished" /\ t.told = Reported(u)
    BY <2>1, CountedIs
  <2>3. ReadBy(e, d, c).st = s /\ ReadBy(e, d, c).out = o
    <3>1. BedrockRead(d, c).st = s /\ BedrockRead(d, c).out = o
      BY DEF BedrockRead, Says
    <3>2. QED BY <1>0, <3>1
  <2>4. s \in Memory /\ s.started = d.started /\ s.tools = d.tools /\ s.texts = d.texts /\ f \in BOOLEAN
    BY <1>a DEF Memory
  <2> HIDE DEF c, t, s, f
  <2>5. Run(Tale, Midway, <<>> \o o, PlaceOf(e, t)) /\ <<>> \o o \in Seq(Events)
    BY <2>2, <2>4, ShortSeqs, FinishTold
  <2>6. <<>> \o o = o
    BY EmptyConcat
  <2> HIDE DEF o
  <2>7. Run(Tale, PlaceOf(e, sent), o, PlaceOf(e, t)) /\ o \in Seq(Events)
    BY <1>7, <2>5, <2>6, MidwayIs
  <2>8. Ready(e, t, s)
    BY <1>7, <2>2, <2>4 DEF Ready, Sound
  <2>9. Answers(e, sent, d, c, t)
    BY <2>1, <2>2, <2>3, <2>7, <2>8, NothingLast DEF Answers
  <2>10. QED BY <1>7, <2>9 DEF c, t
<1> HIDE DEF e
<1>8. \A i \in NextIndex, k \in Blocks :
        sent.at = "open" /\ Send([type |-> "contentBlockStart", index |-> i, kind |-> k], Opening(sent, i, k))
        => \E c, t : Send(c, t) /\ Answers(e, sent, d, c, t)
  BY <1>3
<1>9. \A i \in NextIndex :
        sent.at = "open" /\ Send([type |-> "contentBlockDelta", index |-> i, kind |-> "thinking"],
                                Opening(sent, i, "thinking"))
        => \E c, t : Send(c, t) /\ Answers(e, sent, d, c, t)
  BY <1>3 DEF Blocks
<1>10. \A i \in DOMAIN sent.open :
        sent.at = "open" /\ Send([type |-> "contentBlockDelta", index |-> i, kind |-> sent.open[i]], sent)
        => \E c, t : Send(c, t) /\ Answers(e, sent, d, c, t)
  BY <1>4
<1>11. \A i \in DOMAIN sent.open :
        sent.at = "open" /\ Send([type |-> "contentBlockStop", index |-> i, kind |-> sent.open[i]],
                                Closing(sent, i))
        => \E c, t : Send(c, t) /\ Answers(e, sent, d, c, t)
  BY <1>4
<1>12. QED BY <1>1, <1>8, <1>9, <1>10, <1>11, <1>5, <1>6, <1>7 DEF BedrockSends, e

-----------------------------------------------------------------------------
(* What the readers remember.                                              *)

\* The counts of a sound memory.
LEMMA SoundCounts ==
  ASSUME NEW e, NEW d, Sound(e, d)
  PROVE  /\ ToolCount(d) \in Nat /\ Cardinality(d.texts) \in Nat
         /\ ToolCount(d) + Cardinality(d.texts) <= MaxOpenTools /\ MaxOpenTools \in Nat \ {0}
         /\ e # "responses" => Cardinality(d.texts) = 0
         /\ d.text_index # NoIndex => d.text_index \in Nat
         /\ DOMAIN d.tools \in SUBSET Nat /\ \A t \in DOMAIN d.tools : d.tools[t] \in Nat
<1>1. ToolCount(d) \in Nat /\ Cardinality(d.texts) \in Nat
  BY FS_CardinalityType DEF Sound, ToolCount
<1>2. e # "responses" => Cardinality(d.texts) = 0
  BY FS_EmptySet DEF Sound
<1>3. d.tools \in ToolMaps /\ d.text_index \in Nat \cup {NoIndex}
  BY DEF Sound, Memory
<1>4. QED BY <1>1, <1>2, <1>3, ToolMapsTyped, CapIsPositive DEF Sound, ToolCount

\* A tool within the cap can be remembered.
LEMMA ToolKept ==
  ASSUME NEW e, NEW d, Sound(e, d), NEW wire \in Nat, NEW index \in Nat,
         wire \in DOMAIN d.tools \/ ToolCount(d) + Cardinality(d.texts) < MaxOpenTools
  PROVE  /\ Sound(e, WithTool(d, wire, index))
         /\ WithTool(d, wire, index).started = d.started
         /\ DOMAIN WithTool(d, wire, index).tools = DOMAIN d.tools \cup {wire}
         /\ WithTool(d, wire, index).texts = d.texts
<1> DEFINE S == DOMAIN d.tools \cup {wire}
           m == [t \in S |-> IF t = wire THEN index ELSE d.tools[t]]
           o == [d EXCEPT !.tools = m]
<1>0. d \in Memory /\ IsFiniteSet(DOMAIN d.tools) /\ Cardinality(DOMAIN d.tools) \in Nat
      /\ Cardinality(d.texts) \in Nat
  BY SoundCounts DEF Sound, ToolCount
<1>1. WithTool(d, wire, index) = o
  BY Zenon DEF WithTool
<1>2. S \in SUBSET Nat /\ m \in [S -> Nat]
  BY SoundCounts
<1>3. m \in ToolMaps /\ DOMAIN m = S
  BY <1>2, ToolMapsTyped
<1>4. IsFiniteSet(S) /\ Cardinality(S) + Cardinality(d.texts) <= MaxOpenTools
  <2>1. CASE wire \in DOMAIN d.tools
    <3>1. S = DOMAIN d.tools
      BY <2>1
    <3> HIDE DEF S
    <3>2. QED BY <3>1 DEF Sound
  <2>2. CASE wire \notin DOMAIN d.tools
    <3>1. IsFiniteSet(S) /\ Cardinality(S) = Cardinality(DOMAIN d.tools) + 1
      BY <1>0, <2>2, FS_AddElement
    <3>2. Cardinality(DOMAIN d.tools) + Cardinality(d.texts) < MaxOpenTools
      BY <2>2 DEF ToolCount
    <3> HIDE DEF S
    <3>3. QED BY <1>0, <3>1, <3>2, CapIsPositive
  <2>3. QED BY <2>1, <2>2
<1> HIDE DEF m, S
<1>5. /\ o \in Memory /\ o.tools = m /\ o.started = d.started /\ o.texts = d.texts
      /\ o.text = d.text /\ o.text_index = d.text_index
  BY <1>0, <1>3 DEF Memory
<1> HIDE DEF o
<1>6. Sound(e, o)
  BY <1>3, <1>4, <1>5 DEF Sound
<1>7. QED BY <1>1, <1>3, <1>5, <1>6 DEF S

WithText(d, i) == [d EXCEPT !.text = TRUE, !.text_index = i]

\* The text block can be remembered.
LEMMA TextKept ==
  ASSUME NEW e, NEW d, Sound(e, d), NEW i \in Nat
  PROVE  /\ Sound(e, WithText(d, i)) /\ WithText(d, i).started = d.started
         /\ WithText(d, i).text_index = i /\ WithText(d, i).texts = d.texts
<1> DEFINE o == [d EXCEPT !.text = TRUE, !.text_index = i]
<1>1. d \in Memory
  BY DEF Sound
<1>2. o \in Memory /\ o.started = d.started /\ o.text_index = i /\ o.texts = d.texts /\ o.tools = d.tools
  BY <1>1 DEF Memory
<1> HIDE DEF o
<1>3. Sound(e, o)
  BY <1>2 DEF Sound
<1>4. WithText(d, i) = o
  BY DEF WithText, o
<1>5. QED BY <1>2, <1>3, <1>4

\* A backend may take up and leave its text.
LEMMA SentTexts ==
  ASSUME NEW e, NEW s, SentOK(e, s), NEW b \in BOOLEAN
  PROVE  SentOK(e, [s EXCEPT !.text = b]) /\ [s EXCEPT !.text = b].at = s.at
<1>1. 0 \in Nat /\ "text" \in Blocks
  BY DEF Blocks
<1>2. QED BY <1>1, SentMoves

-----------------------------------------------------------------------------
(* Cohere *)

\* The frames of a message that neither begin nor end it.
CohereBlocks == {"content-start", "content-delta", "content-end",
                 "tool-call-start", "tool-call-delta", "tool-call-end"}

\* A cohere reader keeps its memory sound over the frames of blocks.
LEMMA CohereBlock ==
  ASSUME NEW d, Sound("cohere", d), NEW c, c.type \in CohereBlocks,
         c.type \in {"tool-call-start", "tool-call-delta", "tool-call-end"} => c.index \in Nat
  PROVE  /\ CohereRead(d, c).out \in Seq(BlockEvents)
         /\ Sound("cohere", CohereRead(d, c).st) /\ CohereRead(d, c).st.started = d.started
<1>0. d \in Memory
  BY DEF Sound
<1> DEFINE i == CohereTextSlot(d)
           a == CohereText(d)
           o == WithText(d, i)
<1>1. i \in Nat
  BY SoundCounts DEF CohereTextSlot
<1>2. /\ BlockStart(i, "text") \in BlockEvents /\ BlockDelta(i, "text") \in BlockEvents
  BY <1>1, EventsTyped DEF Blocks
<1>3. /\ a.st = o /\ Sound("cohere", o) /\ o.started = d.started /\ o.text_index = i
      /\ a.out \in {<<>>, <<BlockStart(i, "text")>>}
  <2>1. a.st = o /\ a.out = Only(~d.text, BlockStart(i, "text"))
    BY DEF CohereText, Says, WithText
  <2>2. Only(~d.text, BlockStart(i, "text")) \in {<<>>, <<BlockStart(i, "text")>>}
    BY Zenon DEF Only
  <2>3. Sound("cohere", o) /\ o.started = d.started /\ o.text_index = i
    BY <1>1, TextKept
  <2> HIDE DEF a, o
  <2>4. QED BY <2>1, <2>2, <2>3
<1> HIDE DEF a, o, i
<1>4. a.out \in Seq(BlockEvents)
  BY <1>2, <1>3, ShortSeqs
<1>5. CASE c.type = "content-start"
  <2>1. CohereRead(d, c) = IF d.text THEN Silent(d) ELSE a
    BY <1>5 DEF CohereRead, a
  <2>2. QED BY <1>3, <1>4, <2>1, ShortSeqs DEF Silent, Says
<1>6. CASE c.type = "content-delta"
  <2> DEFINE b == Append(a.out, BlockDelta(a.st.text_index, "text"))
  <2>1. CohereRead(d, c).st = a.st /\ CohereRead(d, c).out = b
    BY <1>6 DEF CohereRead, Says, a
  <2>2. b = a.out \o <<BlockDelta(i, "text")>> /\ b \in Seq(BlockEvents)
    BY <1>2, <1>3, <1>4
  <2> HIDE DEF b
  <2>3. QED BY <1>3, <2>1, <2>2
<1>7. CASE c.type = "content-end"
  <2> DEFINE q == [d EXCEPT !.text = FALSE]
             b == Only(d.text, BlockStop(d.text_index))
  <2>1. CohereRead(d, c).st = q /\ CohereRead(d, c).out = b
    BY <1>7 DEF CohereRead, Says
  <2>2. q \in Memory /\ q.started = d.started /\ q.tools = d.tools /\ q.texts = d.texts /\ q.text = FALSE
    BY <1>0 DEF Memory
  <2>3. d.text => BlockStop(d.text_index) \in BlockEvents
    BY EventsTyped DEF Sound
  <2>4. b \in Seq(BlockEvents)
    BY <2>3, ShortSeqs DEF Only
  <2> HIDE DEF q, b
  <2>5. Sound("cohere", q)
    BY <2>2 DEF Sound
  <2>6. QED BY <2>1, <2>2, <2>4, <2>5
<1>8. CASE c.type = "tool-call-start"
  <2> DEFINE j == CohereToolSlot(d)
             n == CohereFrame(c.index)
             w == WithTool(d, n, j)
  <2>0. n \in Nat
    BY <1>8, ClampedIs
  <2>1. j \in Nat /\ BlockStart(j, "tool") \in BlockEvents
    <3>1. j \in Nat
      BY SoundCounts DEF CohereToolSlot
    <3> HIDE DEF j
    <3>2. QED BY <3>1, EventsTyped DEF Blocks
  <2>2. \/ CohereRead(d, c).st = d /\ CohereRead(d, c).out = <<>>
        \/ /\ CohereAssigns(d, n)
           /\ CohereRead(d, c).st = w /\ CohereRead(d, c).out = <<BlockStart(j, "tool")>>
    BY <1>8 DEF CohereRead, Says, Silent
  <2> HIDE DEF j, n
  <2>3. CohereAssigns(d, n) => Sound("cohere", w) /\ w.started = d.started
    <3>1. CohereAssigns(d, n) => ToolCount(d) + Cardinality(d.texts) < MaxOpenTools
      BY SoundCounts DEF CohereAssigns
    <3>2. QED BY <2>0, <2>1, <3>1, ToolKept
  <2> HIDE DEF w
  <2>4. QED BY <2>1, <2>2, <2>3, ShortSeqs
<1>9. CASE c.type \in {"tool-call-delta", "tool-call-end"}
  <2> DEFINE n == CohereFrame(c.index)
             ev == IF c.type = "tool-call-delta" THEN BlockDelta(d.tools[n], "tool")
                   ELSE BlockStop(d.tools[n])
  <2>1. CohereRead(d, c) = IF n \in DOMAIN d.tools THEN Says(d, <<ev>>) ELSE Silent(d)
    BY <1>9 DEF CohereRead
  <2>2. n \in DOMAIN d.tools => ev \in BlockEvents
    BY SoundCounts, EventsTyped DEF Blocks
  <2> HIDE DEF ev
  <2>3. QED BY <2>1, <2>2, ShortSeqs DEF Says, Silent
<1>10. QED BY <1>5, <1>6, <1>7, <1>8, <1>9 DEF CohereBlocks

\* Whatever a cohere backend sends, its reader answers it.
LEMMA CohereAnswers ==
  ASSUME egress = "cohere", SentOK("cohere", sent), NEW d, Ready("cohere", sent, d), CohereSends
  PROVE  \E c, t : Send(c, t) /\ Answers("cohere", sent, d, c, t)
<1> DEFINE e == "cohere"
<1>0. \A c : ReadBy(e, d, c) = CohereRead(d, c)
  BY DEF ReadBy
<1>a. Sound(e, d) /\ d \in Memory
  BY DEF Ready, Sound
<1>1. CASE sent.at = "idle" /\ Send([type |-> "message-start"], At(sent, "open"))
  <2> DEFINE c == [type |-> "message-start"]
             t == At(sent, "open")
  <2>1. sent.told = ZeroUsage
    BY <1>1, MidwayIs
  <2>2. t = [at |-> "open", text |-> sent.text, open |-> sent.open, used |-> sent.used, told |-> ZeroUsage]
    BY <2>1, Tells
  <2>3. ReadBy(e, d, c) = Begun(d)
    <3>1. CohereRead(d, c) = Begun(d)
      BY DEF CohereRead
    <3>2. QED BY <1>0, <3>1
  <2> HIDE DEF c, t
  <2>4. SentOK(e, t) /\ PlaceOf(e, t) = Midway
    <3>1. SentOK(e, t)
      BY <2>2 DEF SentOK, Ats
    <3>2. QED BY <2>2, <3>1, MidwayIs
  <2>5. Ready(e, t, Begun(d).st)
    BY <1>1, <2>2, BegunTold DEF Ready
  <2>6. Answers(e, sent, d, c, t)
    BY <1>1, <2>1, <2>3, <2>4, <2>5, BegunTold, NothingLast DEF Answers
  <2>7. QED BY <1>1, <2>6 DEF c, t
<1>2. ASSUME sent.at = "open", NEW c, NEW t, Send(c, t), SentOK(e, t), t.at = "open",
             c.type \in CohereBlocks,
             c.type \in {"tool-call-start", "tool-call-delta", "tool-call-end"} => c.index \in Nat
      PROVE  \E cc, tt : Send(cc, tt) /\ Answers(e, sent, d, cc, tt)
  <2>1. /\ ReadBy(e, d, c).out \in Seq(BlockEvents)
        /\ Sound(e, ReadBy(e, d, c).st) /\ ReadBy(e, d, c).st.started = d.started
    BY <1>0, <1>2, <1>a, CohereBlock
  <2>2. Answers(e, sent, d, c, t)
    BY <1>2, <2>1, WithinAnswers
  <2>3. QED BY <1>2, <2>2
<1>3. ASSUME sent.at = "open", NEW b \in BOOLEAN,
             NEW type \in {"content-start", "content-delta", "content-end"},
             Send([type |-> type], [sent EXCEPT !.text = b])
      PROVE  \E c, t : Send(c, t) /\ Answers(e, sent, d, c, t)
  <2> DEFINE c == [type |-> type]
             t == [sent EXCEPT !.text = b]
  <2>1. SentOK(e, t) /\ t.at = "open"
    BY <1>3, SentTexts
  <2>2. Send(c, t) /\ c.type = type
    BY <1>3
  <2> HIDE DEF c, t, e
  <2>3. QED BY <1>2, <1>3, <2>1, <2>2 DEF CohereBlocks
<1>4. ASSUME sent.at = "open", NEW i \in Nat,
             NEW type \in {"tool-call-start", "tool-call-delta", "tool-call-end"},
             NEW t \in {sent, Opening(sent, i, "tool"), Closing(sent, i)},
             Send([type |-> type, index |-> i], t)
      PROVE  \E cc, tt : Send(cc, tt) /\ Answers(e, sent, d, cc, tt)
  <2> DEFINE c == [type |-> type, index |-> i]
  <2>1. SentOK(e, t) /\ t.at = "open"
    BY <1>4, SentMoves DEF Blocks
  <2>2. Send(c, t) /\ c.type = type /\ c.index = i
    BY <1>4
  <2> HIDE DEF c, e
  <2>3. QED BY <1>2, <1>4, <2>1, <2>2 DEF CohereBlocks
<1>5. ASSUME sent.at = "open", NEW f \in BOOLEAN, NEW u \in Counted,
             Send([type |-> "message-end", final |-> f, usage |-> u],
                  Telling(At(sent, "finished"), u))
      PROVE  \E c, t : Send(c, t) /\ Answers(e, sent, d, c, t)
  <2> DEFINE c == [type |-> "message-end", final |-> f, usage |-> u]
             t == Telling(At(sent, "finished"), u)
             o == <<MessageDelta(f, Reported(u)), MessageStop>>
  <2>1. sent.told = ZeroUsage
    BY <1>5, MidwayIs
  <2>2. SentOK(e, t) /\ t.at = "finished" /\ t.told = Reported(u)
    BY <2>1, CountedIs
  <2>3. ReadBy(e, d, c).st = d /\ ReadBy(e, d, c).out = o
    <3>1. CohereRead(d, c).st = d /\ CohereRead(d, c).out = o
      BY DEF CohereRead, Says
    <3>2. QED BY <1>0, <3>1
  <2> HIDE DEF c, t
  <2>5. Run(Tale, Midway, <<>> \o o, PlaceOf(e, t)) /\ <<>> \o o \in Seq(Events)
    BY <2>2, ShortSeqs, FinishTold
  <2>6. <<>> \o o = o
    BY EmptyConcat
  <2> HIDE DEF o
  <2>7. Run(Tale, PlaceOf(e, sent), o, PlaceOf(e, t)) /\ o \in Seq(Events)
    BY <1>5, <2>5, <2>6, MidwayIs
  <2>8. Ready(e, t, d)
    BY <1>5, <2>2 DEF Ready
  <2>9. Answers(e, sent, d, c, t)
    BY <2>1, <2>2, <2>3, <2>7, <2>8, NothingLast DEF Answers
  <2>10. QED BY <1>5, <2>9 DEF c, t
<1>6. \A i \in DOMAIN sent.open : i \in Nat
  BY DEF SentOK
<1>7. \A i \in WireIndices : i \in Nat
  BY IndicesAreNumbers
<1>8. \A i \in DOMAIN sent.open :
        sent.at = "open" /\ Send([type |-> "tool-call-delta", index |-> i], sent)
        => \E c, t : Send(c, t) /\ Answers(e, sent, d, c, t)
  BY <1>4, <1>6
<1>9. \A i \in DOMAIN sent.open :
        sent.at = "open" /\ Send([type |-> "tool-call-end", index |-> i], Closing(sent, i))
        => \E c, t : Send(c, t) /\ Answers(e, sent, d, c, t)
  BY <1>4, <1>6
<1>10. \A i \in WireIndices :
        sent.at = "open" /\ Send([type |-> "tool-call-start", index |-> i], Opening(sent, i, "tool"))
        => \E c, t : Send(c, t) /\ Answers(e, sent, d, c, t)
  BY <1>4, <1>7
<1>11. QED BY <1>1, <1>3, <1>8, <1>9, <1>10, <1>5 DEF CohereSends, e

-----------------------------------------------------------------------------
(* Gemini *)

\* Four runs in a row.
LEMMA RunsInARow ==
  ASSUME NEW M, NEW S, NEW p, NEW q, NEW r, NEW u, NEW v,
         NEW a \in Seq(S), NEW b \in Seq(S), NEW c \in Seq(S), NEW d \in Seq(S),
         Run(M, p, a, q), Run(M, q, b, r), Run(M, r, c, u), Run(M, u, d, v)
  PROVE  Run(M, p, a \o b \o c \o d, v) /\ a \o b \o c \o d \in Seq(S)
<1>1. Run(M, p, a \o b, r) /\ a \o b \in Seq(S)
  <2>1. a \o b \in Seq(S)
    OBVIOUS
  <2>2. Run(M, p, a \o b, r)
    BY RunBoth
  <2>3. QED BY <2>1, <2>2
<1> DEFINE x == a \o b
<1> HIDE DEF x
<1>2. Run(M, p, x \o c, u) /\ x \o c \in Seq(S)
  <2>1. x \in Seq(S) /\ Run(M, p, x, r)
    BY <1>1 DEF x
  <2>2. x \o c \in Seq(S)
    BY <2>1
  <2>3. Run(M, p, x \o c, u)
    BY <2>1, RunBoth
  <2>4. QED BY <2>2, <2>3
<1> DEFINE y == x \o c
<1> HIDE DEF y
<1>3. Run(M, p, y \o d, v) /\ y \o d \in Seq(S)
  <2>1. y \in Seq(S) /\ Run(M, p, y, u)
    BY <1>2 DEF y
  <2>2. y \o d \in Seq(S)
    BY <2>1
  <2>3. Run(M, p, y \o d, v)
    BY <2>1, RunBoth
  <2>4. QED BY <2>2, <2>3
<1>4. QED BY <1>3 DEF x, y

\* What a reader does inside a message.
Tame(e, d, read) ==
  read.out \in Seq(BlockEvents) /\ Sound(e, read.st) /\ read.st.started = d.started

\* Ignoring a frame is tame.
LEMMA SilentTame ==
  ASSUME NEW e, NEW d, Sound(e, d)
  PROVE  Tame(e, d, Silent(d)) /\ Silent(d).out = <<>>
BY ShortSeqs DEF Tame, Silent, Says

\* A part of text is tame.
LEMMA GeminiTextTame ==
  ASSUME NEW d, Sound("gemini", d), NEW kind \in {"text", "citations"}
  PROVE  Tame("gemini", d, GeminiText(d, kind))
<1> DEFINE i == GeminiTextSlot(d)
           o == WithText(d, i)
           a == Only(~d.text, BlockStart(i, "text"))
           b == <<BlockDelta(i, kind)>>
<1>1. i \in Nat
  BY SoundCounts DEF GeminiTextSlot
<1>2. GeminiText(d, kind).st = o /\ GeminiText(d, kind).out = a \o b
  BY DEF GeminiText, Says, WithText
<1> HIDE DEF i
<1>3. BlockStart(i, "text") \in BlockEvents /\ BlockDelta(i, kind) \in BlockEvents
  BY <1>1, EventsTyped DEF Blocks
<1>4. a \in {<<>>, <<BlockStart(i, "text")>>}
  BY Zenon DEF Only
<1> HIDE DEF a
<1>5. a \in Seq(BlockEvents) /\ b \in Seq(BlockEvents)
  BY <1>3, <1>4, ShortSeqs
<1>6. Sound("gemini", o) /\ o.started = d.started
  BY <1>1, TextKept
<1> HIDE DEF b, o
<1>7. QED BY <1>2, <1>5, <1>6 DEF Tame

\* A function call is tame.
LEMMA GeminiCallTame ==
  ASSUME NEW d, Sound("gemini", d)
  PROVE  Tame("gemini", d, GeminiCall(d))
<1> DEFINE i == GeminiToolSlot(d)
           w == WithTool(d, i, i)
           b == <<BlockStart(i, "tool"), BlockDelta(i, "tool")>>
<1>1. i \in Nat
  BY SoundCounts DEF GeminiToolSlot
<1>2. GeminiCall(d) = IF ToolCount(d) < MaxOpenTools THEN Says(w, b) ELSE Silent(d)
  BY DEF GeminiCall
<1> HIDE DEF i
<1>3. BlockStart(i, "tool") \in BlockEvents /\ BlockDelta(i, "tool") \in BlockEvents
  BY <1>1, EventsTyped DEF Blocks
<1>4. b \in Seq(BlockEvents)
  BY <1>3, ShortSeqs
<1>5. ToolCount(d) < MaxOpenTools => Sound("gemini", w) /\ w.started = d.started
  <2>1. ToolCount(d) < MaxOpenTools => ToolCount(d) + Cardinality(d.texts) < MaxOpenTools
    BY SoundCounts
  <2>2. QED BY <1>1, <2>1, ToolKept
<1> HIDE DEF b, w
<1>6. QED BY <1>2, <1>4, <1>5, SilentTame DEF Says, Tame

\* The indices of the tools are finitely many numbers.
LEMMA IndicesTyped ==
  ASSUME NEW e, NEW d, Sound(e, d)
  PROVE  ToolIndices(d) \in SUBSET Nat /\ IsFiniteSet(ToolIndices(d))
<1> DEFINE f == d.tools
           S == DOMAIN f
<1>1. ToolIndices(d) = {f[t] : t \in S}
  BY DEF ToolIndices
<1>2. IsFiniteSet(S) /\ \A t \in S : f[t] \in Nat
  BY SoundCounts DEF Sound
<1> HIDE DEF f
<1>3. IsFiniteSet({f[t] : t \in S})
  <2> DEFINE T == {f[t] : t \in S}
             g == [t \in S |-> f[t]]
  <2>1. g \in Surjection(S, T)
    BY DEF Surjection
  <2> HIDE DEF T, g
  <2>2. IsFiniteSet(T)
    BY <1>2, <2>1, FS_Surjection
  <2>3. QED BY <2>2 DEF T
<1>4. QED BY <1>1, <1>2, <1>3

\* The finish of a gemini stream ends the tale.
LEMMA GeminiFinishEnds ==
  ASSUME NEW d, Sound("gemini", d), NEW c
  PROVE  /\ \E b \in Seq(BlockEvents) :
              GeminiFinish(d, c).out = b \o <<MessageDelta(TRUE, Reported(c.usage)), MessageStop>>
         /\ Sound("gemini", GeminiFinish(d, c).st) /\ GeminiFinish(d, c).st.started = d.started
<1> DEFINE a == Only(d.text, BlockStop(d.text_index))
           s == Stops(ToolIndices(d))
           z == <<MessageDelta(TRUE, Reported(c.usage)), MessageStop>>
           j == IF d.text THEN NoIndex ELSE d.text_index
           o == [d EXCEPT !.text = FALSE, !.text_index = j, !.tools = <<>>]
<1>1. GeminiFinish(d, c).out = a \o s \o z
  BY DEF GeminiFinish, Says
<1>2. GeminiFinish(d, c).st = [d EXCEPT !.text = FALSE,
                                        !.text_index = IF d.text THEN NoIndex ELSE d.text_index, !.tools = <<>>]
  BY Zenon DEF GeminiFinish, Says
<1>3. d.text => BlockStop(d.text_index) \in BlockEvents
  BY EventsTyped DEF Sound
<1>4. a \in Seq(BlockEvents)
  BY <1>3, ShortSeqs DEF Only
<1>5. s \in Seq(BlockEvents)
  BY IndicesTyped, StopsTyped, EventSeqs
<1>6. d \in Memory /\ j \in Nat \cup {NoIndex}
  BY DEF Sound, Memory
<1> HIDE DEF a, s, z, j
<1>7. a \o s \in Seq(BlockEvents)
  BY <1>4, <1>5
<1>8. /\ o \in Memory /\ o.started = d.started /\ o.text = FALSE /\ o.tools = <<>> /\ o.texts = d.texts
  BY <1>6, ToolMapsTyped DEF Memory
<1>9. Sound("gemini", o)
  <2>1. IsFiniteSet({}) /\ Cardinality({}) = 0
    BY FS_EmptySet
  <2>2. IsFiniteSet(DOMAIN o.tools) /\ Cardinality(DOMAIN o.tools) = 0
    BY <1>8, <2>1, ToolMapsTyped
  <2>3. Cardinality(d.texts) = 0
    BY SoundCounts
  <2> HIDE DEF o
  <2>4. QED BY <1>8, <2>2, <2>3, CapIsPositive DEF Sound
<1>10. GeminiFinish(d, c).st = o
  BY <1>2 DEF j
<1> HIDE DEF o
<1>11. QED BY <1>1, <1>7, <1>8, <1>9, <1>10 DEF z

\* A chunk that is not an error.
LEMMA GeminiChunkAnswers ==
  ASSUME egress = "gemini", SentOK("gemini", sent), NEW d, Ready("gemini", sent, d), Streaming,
         NEW u \in Counted, NEW c, NEW t, SentOK("gemini", t), ~c.error, c.usage = u,
         \/ (c.finish \/ c.blocked) /\ t.at = "finished" /\ t.told = Reported(u)
         \/ ~c.finish /\ ~c.blocked /\ t.at = "open"
  PROVE  Answers("gemini", sent, d, c, t)
<1> DEFINE e == "gemini"
           begun == Begun(d)
           part  == CASE c.part = "text" -> GeminiText(begun.st, "text")
                      [] c.part = "call" -> GeminiCall(begun.st)
                      [] OTHER           -> Silent(begun.st)
           cited  == IF c.citations THEN GeminiText(part.st, "citations") ELSE Silent(part.st)
           finish == IF c.finish THEN GeminiFinish(cited.st, c) ELSE Silent(cited.st)
           block  == GeminiFinish(begun.st, c)
<1>1. sent.at \in {"idle", "open"} /\ sent.told = ZeroUsage /\ e # "anthropic" /\ e # "bedrock"
  BY MidwayIs DEF Streaming
<1>2. /\ begun.out \in Seq(Events) /\ Run(Tale, PlaceOf(e, sent), begun.out, Midway)
      /\ Sound(e, begun.st) /\ begun.st.started
  BY <1>1, BegunTold
<1>a. GeminiRead(d, c) = IF c.blocked THEN Says(block.st, begun.out \o block.out)
                         ELSE Says(finish.st, begun.out \o part.out \o cited.out \o finish.out)
  BY Zenon DEF GeminiRead
<1>b. ReadBy(e, d, c) = GeminiRead(d, c)
  BY DEF ReadBy
<1> HIDE DEF begun
<1>3. Tame(e, begun.st, part)
  <2>1. CASE c.part = "text"
    <3>1. part = GeminiText(begun.st, "text")
      BY <2>1
    <3>2. QED BY <1>2, <3>1, GeminiTextTame
  <2>2. CASE c.part = "call"
    <3>1. part = GeminiCall(begun.st)
      BY <2>2
    <3>2. QED BY <1>2, <3>1, GeminiCallTame
  <2>3. CASE c.part \notin {"text", "call"}
    <3>1. part = Silent(begun.st)
      BY <2>3
    <3>2. QED BY <1>2, <3>1, SilentTame
  <2>4. QED BY <2>1, <2>2, <2>3
<1> HIDE DEF part
<1>4. Tame(e, part.st, cited)
  <2>1. Sound(e, part.st)
    BY <1>3 DEF Tame
  <2>2. Tame(e, part.st, GeminiText(part.st, "citations")) /\ Tame(e, part.st, Silent(part.st))
    BY <2>1, GeminiTextTame, SilentTame
  <2>3. cited = GeminiText(part.st, "citations") \/ cited = Silent(part.st)
    BY Zenon
  <2> HIDE DEF cited
  <2>4. QED BY <2>2, <2>3
<1> HIDE DEF cited
<1>5. Midway \in Places /\ Midway.at = "within"
  BY <1>1, MidwayIs
<1>6. part.out \in Seq(BlockEvents) /\ cited.out \in Seq(BlockEvents)
      /\ Sound(e, cited.st) /\ cited.st.started
  BY <1>2, <1>3, <1>4 DEF Tame
<1>7. /\ Run(Tale, Midway, part.out, Midway) /\ part.out \in Seq(Events)
      /\ Run(Tale, Midway, cited.out, Midway) /\ cited.out \in Seq(Events)
  BY <1>5, <1>6, BlocksTold, EventSeqs
<1>8. Fit(PlaceOf(e, sent).last, t.told)
  BY <1>1, NothingLast
<1>9. ASSUME NEW f, Sound(e, f), f.started, t.at = "finished", t.told = Reported(u)
      PROVE  /\ GeminiFinish(f, c).out \in Seq(Events)
             /\ Run(Tale, Midway, GeminiFinish(f, c).out, PlaceOf(e, t))
             /\ Ready(e, t, GeminiFinish(f, c).st)
  <2>1. PICK b \in Seq(BlockEvents) :
              GeminiFinish(f, c).out = b \o <<MessageDelta(TRUE, Reported(c.usage)), MessageStop>>
    BY <1>9, GeminiFinishEnds
  <2>2. Sound(e, GeminiFinish(f, c).st) /\ GeminiFinish(f, c).st.started
    BY <1>9, GeminiFinishEnds
  <2>3. GeminiFinish(f, c).out = b \o <<MessageDelta(TRUE, Reported(u)), MessageStop>>
    BY <2>1
  <2>4. QED BY <1>1, <1>9, <2>2, <2>3, FinishTold DEF Ready
<1>10. CASE c.blocked
  <2>1. t.at = "finished" /\ t.told = Reported(u)
    BY <1>10
  <2>2. /\ block.out \in Seq(Events) /\ Run(Tale, Midway, block.out, PlaceOf(e, t))
        /\ Ready(e, t, block.st)
    BY <1>2, <1>9, <2>1
  <2> HIDE DEF block
  <2>3. /\ Run(Tale, PlaceOf(e, sent), begun.out \o block.out, PlaceOf(e, t))
        /\ begun.out \o block.out \in Seq(Events)
    BY <1>2, <2>2, RunBoth
  <2>4. ReadBy(e, d, c).st = block.st /\ ReadBy(e, d, c).out = begun.out \o block.out
    <3> DEFINE o == begun.out \o block.out
    <3>1. ReadBy(e, d, c) = Says(block.st, o)
      BY Zenon, <1>a, <1>b, <1>10
    <3> HIDE DEF o
    <3>2. ReadBy(e, d, c).st = block.st /\ ReadBy(e, d, c).out = o
      BY <3>1 DEF Says
    <3>3. QED BY <3>2 DEF o
  <2>5. QED BY <1>8, <2>2, <2>3, <2>4 DEF Answers
<1>11. CASE ~c.blocked
  <2>1. /\ finish.out \in Seq(Events) /\ Run(Tale, Midway, finish.out, PlaceOf(e, t))
        /\ Ready(e, t, finish.st)
    <3>1. CASE c.finish
      <4>1. finish = GeminiFinish(cited.st, c)
        BY <3>1
      <4>2. QED BY <1>6, <1>9, <1>11, <3>1, <4>1
    <3>2. CASE ~c.finish
      <4>1. finish.out = <<>> /\ finish.st = cited.st /\ t.at = "open"
        BY <1>11, <3>2 DEF Silent, Says
      <4>2. PlaceOf(e, t) = Midway
        BY <1>1, <4>1, MidwayIs
      <4> HIDE DEF finish
      <4>3. Run(Tale, Midway, <<>>, PlaceOf(e, t)) /\ <<>> \in Seq(Events)
        BY <4>2, RunNothing, ShortSeqs
      <4>4. Ready(e, t, cited.st)
        BY <1>6, <4>1 DEF Ready
      <4>5. QED BY <4>1, <4>3, <4>4
    <3>3. QED BY <3>1, <3>2
  <2> HIDE DEF finish
  <2>2. /\ Run(Tale, PlaceOf(e, sent), begun.out \o part.out \o cited.out \o finish.out, PlaceOf(e, t))
        /\ begun.out \o part.out \o cited.out \o finish.out \in Seq(Events)
    BY <1>2, <1>7, <2>1, RunsInARow
  <2>3. /\ ReadBy(e, d, c).st = finish.st
        /\ ReadBy(e, d, c).out = begun.out \o part.out \o cited.out \o finish.out
    <3> DEFINE o == begun.out \o part.out \o cited.out \o finish.out
    <3>1. ReadBy(e, d, c) = Says(finish.st, o)
      BY Zenon, <1>a, <1>b, <1>11
    <3> HIDE DEF o
    <3>2. ReadBy(e, d, c).st = finish.st /\ ReadBy(e, d, c).out = o
      BY <3>1 DEF Says
    <3>3. QED BY <3>2 DEF o
  <2>4. QED BY <1>8, <2>1, <2>2, <2>3 DEF Answers
<1>12. QED BY <1>10, <1>11

\* Whatever a gemini backend sends, its reader answers it.
LEMMA GeminiAnswers ==
  ASSUME egress = "gemini", SentOK("gemini", sent), NEW d, Ready("gemini", sent, d), GeminiSends
  PROVE  \E c, t : Send(c, t) /\ Answers("gemini", sent, d, c, t)
<1> DEFINE e == "gemini"
           Parts == {"none", "text", "call"}
<1>1. /\ Streaming /\ sent.at \in {"idle", "open"} /\ sent.told = ZeroUsage /\ {} \in Counted
  BY MidwayIs DEF GeminiSends, Streaming, Counted
<1>2. ASSUME NEW p \in Parts, NEW b \in BOOLEAN,
             Send([GeminiChunk EXCEPT !.part = p, !.citations = b], At(sent, "open"))
      PROVE  \E c, t : Send(c, t) /\ Answers(e, sent, d, c, t)
  <2> DEFINE c == [GeminiChunk EXCEPT !.part = p, !.citations = b]
             t == At(sent, "open")
  <2>1. ~c.error /\ ~c.finish /\ ~c.blocked /\ c.usage = {}
    BY DEF GeminiChunk
  <2>2. t = [at |-> "open", text |-> sent.text, open |-> sent.open, used |-> sent.used, told |-> ZeroUsage]
    BY <1>1, Tells
  <2> HIDE DEF c, t
  <2>3. SentOK(e, t) /\ t.at = "open"
    BY <2>2 DEF SentOK, Ats
  <2>4. Answers(e, sent, d, c, t)
    BY <1>1, <2>1, <2>3, GeminiChunkAnswers
  <2>5. QED BY <1>2, <2>4 DEF c, t
<1>3. ASSUME NEW u \in Counted, NEW c, c.usage = u, ~c.error, c.finish \/ c.blocked,
             Send(c, Telling(At(sent, "finished"), u))
      PROVE  \E cc, t : Send(cc, t) /\ Answers(e, sent, d, cc, t)
  <2> DEFINE t == Telling(At(sent, "finished"), u)
  <2>1. SentOK(e, t) /\ t.at = "finished" /\ t.told = Reported(u)
    BY <1>1, CountedIs
  <2>2. Answers(e, sent, d, c, t)
    BY <1>1, <1>3, <2>1, GeminiChunkAnswers
  <2>3. QED BY <1>3, <2>2
<1>4. ASSUME NEW p \in Parts, NEW b \in BOOLEAN, NEW u \in Counted,
             Send([GeminiChunk EXCEPT !.part = p, !.citations = b, !.finish = TRUE, !.usage = u],
                  Telling(At(sent, "finished"), u))
      PROVE  \E c, t : Send(c, t) /\ Answers(e, sent, d, c, t)
  <2> DEFINE c == [GeminiChunk EXCEPT !.part = p, !.citations = b, !.finish = TRUE, !.usage = u]
  <2>1. c.usage = u /\ ~c.error /\ c.finish
    BY DEF GeminiChunk
  <2>2. Send(c, Telling(At(sent, "finished"), u))
    BY <1>4
  <2> HIDE DEF c
  <2>3. QED BY <1>3, <2>1, <2>2
<1>5. ASSUME NEW u \in Counted,
             Send([GeminiChunk EXCEPT !.blocked = TRUE, !.usage = u], Telling(At(sent, "finished"), u))
      PROVE  \E c, t : Send(c, t) /\ Answers(e, sent, d, c, t)
  <2> DEFINE c == [GeminiChunk EXCEPT !.blocked = TRUE, !.usage = u]
  <2>1. c.usage = u /\ ~c.error /\ c.blocked
    BY DEF GeminiChunk
  <2>2. Send(c, Telling(At(sent, "finished"), u))
    BY <1>5
  <2> HIDE DEF c
  <2>3. QED BY <1>3, <2>1, <2>2
<1>6. ASSUME Send([GeminiChunk EXCEPT !.error = TRUE], At(sent, "failed"))
      PROVE  \E c, t : Send(c, t) /\ Answers(e, sent, d, c, t)
  <2> DEFINE c == [GeminiChunk EXCEPT !.error = TRUE]
             t == At(sent, "failed")
             ev == StreamError
  <2>1. t = [at |-> "failed", text |-> sent.text, open |-> sent.open, used |-> sent.used, told |-> ZeroUsage]
    BY <1>1, Tells
  <2>2. c.error
    BY DEF GeminiChunk
  <2> HIDE DEF c, t
  <2>3. ReadBy(e, d, c).st = d /\ ReadBy(e, d, c).out = <<ev>>
    <3>1. GeminiRead(d, c) = Says(d, <<ev>>)
      BY Zenon, <2>2 DEF GeminiRead
    <3>2. ReadBy(e, d, c) = GeminiRead(d, c)
      BY DEF ReadBy
    <3>3. QED BY <3>1, <3>2 DEF Says
  <2>4. ev \in Events /\ ev.type = "Error"
    BY EventsTyped DEF StreamError
  <2> HIDE DEF ev
  <2>5. SentOK(e, t) /\ Ready(e, t, d)
    BY <1>1, <2>1 DEF SentOK, Ats, Ready
  <2>6. Fits(PlaceOf(e, sent).at, ev) /\ PlaceOf(e, t) = Onward(PlaceOf(e, sent), ev)
    BY <1>1, <2>1, <2>4 DEF PlaceOf, Fits, Onward, NextStage
  <2>7. Answers(e, sent, d, c, t)
    BY <1>1, <2>3, <2>4, <2>5, <2>6, OneAnswers, NothingLast
  <2>8. QED BY <1>6, <2>7 DEF c, t
<1>7. QED BY <1>2, <1>4, <1>5, <1>6 DEF GeminiSends, e

-----------------------------------------------------------------------------
(* Responses *)

\* Text items within the cap can be remembered.
LEMMA TextsKept ==
  ASSUME NEW d, Sound("responses", d), NEW X \in SUBSET Nat, IsFiniteSet(X),
         ToolCount(d) + Cardinality(X) <= MaxOpenTools
  PROVE  LET o == [d EXCEPT !.texts = X]
         IN  Sound("responses", o) /\ o.started = d.started /\ o.texts = X /\ o.tools = d.tools
<1> DEFINE o == [d EXCEPT !.texts = X]
<1>1. d \in Memory
  BY DEF Sound
<1>2. /\ o \in Memory /\ o.started = d.started /\ o.texts = X /\ o.tools = d.tools
      /\ o.text = d.text /\ o.text_index = d.text_index
  BY <1>1 DEF Memory
<1> HIDE DEF o
<1>3. Sound("responses", o)
  BY <1>2 DEF Sound, ToolCount
<1>4. QED BY <1>2, <1>3 DEF o

\* A tool can be forgotten.
LEMMA ToolDropped ==
  ASSUME NEW e, NEW d, Sound(e, d), NEW i
  PROVE  Sound(e, WithoutTool(d, i)) /\ WithoutTool(d, i).started = d.started
<1> DEFINE S == DOMAIN d.tools \ {i}
           m == [t \in S |-> d.tools[t]]
           o == [d EXCEPT !.tools = m]
<1>1. WithoutTool(d, i) = o
  BY DEF WithoutTool
<1>2. S \in SUBSET Nat /\ m \in [S -> Nat]
  BY SoundCounts
<1>3. m \in ToolMaps /\ DOMAIN m = S
  BY <1>2, ToolMapsTyped
<1>4. IsFiniteSet(S) /\ Cardinality(S) <= Cardinality(DOMAIN d.tools) /\ Cardinality(S) \in Nat
      /\ Cardinality(DOMAIN d.tools) \in Nat /\ Cardinality(d.texts) \in Nat
  <2>1. IsFiniteSet(DOMAIN d.tools) /\ S \in SUBSET DOMAIN d.tools
    BY DEF Sound
  <2> HIDE DEF S
  <2>2. QED BY <2>1, FS_Subset, FS_CardinalityType, SoundCounts
<1>5. d \in Memory
  BY DEF Sound
<1> HIDE DEF m, S
<1>6. /\ o \in Memory /\ o.tools = m /\ o.started = d.started /\ o.texts = d.texts
      /\ o.text = d.text /\ o.text_index = d.text_index
  BY <1>3, <1>5 DEF Memory
<1> HIDE DEF o
<1>7. Cardinality(S) + Cardinality(d.texts) <= MaxOpenTools
  BY <1>4, CapIsPositive DEF Sound
<1>8. Sound(e, o)
  BY <1>3, <1>4, <1>6, <1>7 DEF Sound
<1>9. QED BY <1>1, <1>6, <1>8

\* Opening a text item is tame, within the cap or over it.
LEMMA TextOpenedTame ==
  ASSUME NEW d, Sound("responses", d), NEW i \in Nat
  PROVE  /\ Tame("responses", d, TextOpened(d, i))
         /\ TextOpened(d, i).out \in {<<>>, <<BlockStart(i, "text")>>}
<1> DEFINE X == d.texts \cup {i}
           o == [d EXCEPT !.texts = X]
           ev == BlockStart(i, "text")
<1>1. TextOpened(d, i) = IF ~HoldsText(d, i) /\ Room(d) THEN Says(o, <<ev>>) ELSE Silent(d)
  BY DEF TextOpened
<1>2. ev \in BlockEvents
  BY EventsTyped DEF Blocks
<1>3. ASSUME ~HoldsText(d, i), Room(d)
      PROVE  Sound("responses", o) /\ o.started = d.started
  <2>1. d.texts \in SUBSET Nat /\ IsFiniteSet(d.texts) /\ i \notin d.texts
    BY <1>3 DEF Sound, Memory, HoldsText
  <2>2. X \in SUBSET Nat /\ IsFiniteSet(X) /\ Cardinality(X) = Cardinality(d.texts) + 1
    BY <2>1, FS_AddElement
  <2>3. ToolCount(d) + Cardinality(X) <= MaxOpenTools
    <3>1. ToolCount(d) + Cardinality(d.texts) < MaxOpenTools
      BY <1>3 DEF Room, ItemsOpen
    <3> HIDE DEF X
    <3>2. QED BY <2>2, <3>1, SoundCounts
  <2> HIDE DEF X
  <2>4. QED BY <2>2, <2>3, TextsKept
<1> HIDE DEF o, ev
<1>4. CASE ~HoldsText(d, i) /\ Room(d)
  <2>1. TextOpened(d, i).st = o /\ TextOpened(d, i).out = <<ev>>
    BY <1>1, <1>4 DEF Says
  <2>2. QED BY <1>2, <1>3, <1>4, <2>1, ShortSeqs DEF Tame, ev
<1>5. CASE ~(~HoldsText(d, i) /\ Room(d))
  <2>1. TextOpened(d, i) = Silent(d)
    BY <1>1, <1>5
  <2>2. QED BY <2>1, SilentTame
<1>6. QED BY <1>4, <1>5

\* Opening an item is tame.
LEMMA ItemOpenedTame ==
  ASSUME NEW d, Sound("responses", d), NEW i \in Nat, NEW k \in Blocks
  PROVE  Tame("responses", d, ItemOpened(d, i, k))
<1> DEFINE w == WithTool(d, i, i)
           ev == BlockStart(i, k)
           fine == ~HoldsItem(d, i) /\ ~HoldsText(d, i) /\ Room(d)
<1>1. ItemOpened(d, i, k) = IF fine THEN Says(w, <<ev>>) ELSE Silent(d)
  BY DEF ItemOpened
<1>2. fine => Sound("responses", w) /\ w.started = d.started
  BY ToolKept DEF Room, ItemsOpen
<1>3. ev \in BlockEvents
  BY EventsTyped
<1> HIDE DEF fine, w, ev
<1>4. CASE fine
  <2>1. ItemOpened(d, i, k).st = w /\ ItemOpened(d, i, k).out = <<ev>>
    BY <1>1, <1>4 DEF Says
  <2>2. QED BY <1>2, <1>3, <1>4, <2>1, ShortSeqs DEF Tame
<1>5. CASE ~fine
  <2>1. ItemOpened(d, i, k) = Silent(d)
    BY <1>1, <1>5
  <2>2. QED BY <2>1, SilentTame
<1>6. QED BY <1>4, <1>5

\* One event more.
LEMMA AppendTame ==
  ASSUME NEW e, NEW d, NEW a, Tame(e, d, a), NEW ev \in BlockEvents
  PROVE  Tame(e, d, Says(a.st, Append(a.out, ev)))
BY DEF Tame, Says

\* The frames of items are tame.
LEMMA ResponsesItemTame ==
  ASSUME NEW d, Sound("responses", d), NEW c, c.index \in Nat, c.kind \in Blocks,
         c.type \in {"item_added", "reasoning_delta", "text_delta", "arguments_delta", "item_done"}
  PROVE  Tame("responses", d, ResponsesRead(d, c))
<1> DEFINE i == Clamped(c.index)
<1>1. i \in Nat
  BY ClampedIs
<1>2. Tame("responses", d, Silent(d))
  BY SilentTame
<1>3. /\ \A k \in Blocks \cup {"citations"} : BlockDelta(i, k) \in BlockEvents
      /\ BlockStop(i) \in BlockEvents
  BY <1>1, EventsTyped
<1>4. CASE c.type = "item_added"
  <2>1. ResponsesRead(d, c) = IF c.kind = "text" THEN Silent(d) ELSE ItemOpened(d, i, c.kind)
    BY <1>4 DEF ResponsesRead
  <2> HIDE DEF i
  <2>2. QED BY <1>1, <1>2, <2>1, ItemOpenedTame
<1>5. CASE c.type = "reasoning_delta"
  <2> DEFINE a == ItemOpened(d, i, "thinking")
             b == Says(a.st, Append(a.out, BlockDelta(i, "thinking")))
  <2>1. ResponsesRead(d, c) = ReasoningDelta(d, i)
    BY <1>5 DEF ResponsesRead
  <2>2. ReasoningDelta(d, i) \in {b, Silent(d)}
    BY Zenon DEF ReasoningDelta
  <2> HIDE DEF i
  <2>3. Tame("responses", d, a)
    BY <1>1, ItemOpenedTame DEF Blocks
  <2> HIDE DEF a
  <2>4. Tame("responses", d, b)
    BY <1>3, <2>3, AppendTame DEF Blocks
  <2> HIDE DEF b
  <2>5. QED BY <1>2, <2>1, <2>2, <2>4
<1>6. CASE c.type = "text_delta"
  <2> DEFINE a == TextOpened(d, i)
             b == Says(a.st, Append(a.out, BlockDelta(i, "text")))
  <2>1. ResponsesRead(d, c) = TextDelta(d, i)
    BY <1>6 DEF ResponsesRead
  <2>2. TextDelta(d, i) \in {b, Silent(d)}
    BY Zenon DEF TextDelta
  <2> HIDE DEF i
  <2>3. Tame("responses", d, a)
    BY <1>1, TextOpenedTame
  <2> HIDE DEF a
  <2>4. Tame("responses", d, b)
    BY <1>3, <2>3, AppendTame DEF Blocks
  <2> HIDE DEF b
  <2>5. QED BY <1>2, <2>1, <2>2, <2>4
<1>7. CASE c.type = "arguments_delta"
  <2> DEFINE ev == BlockDelta(i, "tool")
  <2>1. ResponsesRead(d, c) \in {Says(d, <<ev>>), Silent(d)}
    BY Zenon, <1>7 DEF ResponsesRead, ArgumentsDelta
  <2>2. ev \in BlockEvents
    BY <1>3 DEF Blocks
  <2> HIDE DEF ev
  <2>3. Tame("responses", d, Says(d, <<ev>>))
    BY <2>2, ShortSeqs DEF Tame, Says
  <2>4. QED BY <1>2, <2>1, <2>3
<1>8. CASE c.type = "item_done"
  <2> DEFINE ev == BlockStop(i)
             w == WithoutTool(d, i)
             X == d.texts \ {i}
             o == [d EXCEPT !.texts = X]
             b == Only(HoldsText(d, i), ev)
  <2>1. ResponsesRead(d, c) \in {Says(w, <<ev>>), Says(o, b)}
    BY Zenon, <1>8 DEF ResponsesRead, ItemDone
  <2>2. ev \in BlockEvents
    BY <1>3
  <2>3. b \in {<<>>, <<ev>>}
    BY Zenon DEF Only
  <2> HIDE DEF i, ev, b
  <2>4. Sound("responses", w) /\ w.started = d.started
    BY ToolDropped
  <2> HIDE DEF w
  <2>5. Sound("responses", o) /\ o.started = d.started
    <3>1. d.texts \in SUBSET Nat /\ IsFiniteSet(d.texts) /\ X \in SUBSET d.texts
      BY DEF Sound, Memory
    <3> HIDE DEF X
    <3>2. X \in SUBSET Nat /\ IsFiniteSet(X) /\ Cardinality(X) <= Cardinality(d.texts)
          /\ Cardinality(X) \in Nat
      BY <3>1, FS_Subset, FS_CardinalityType
    <3>3. ToolCount(d) + Cardinality(X) <= MaxOpenTools
      BY <3>2, SoundCounts
    <3>4. QED BY <3>2, <3>3, TextsKept
  <2> HIDE DEF o
  <2>6. Tame("responses", d, Says(w, <<ev>>))
    BY <2>2, <2>4, ShortSeqs DEF Tame, Says
  <2>7. Tame("responses", d, Says(o, b))
    BY <2>2, <2>3, <2>5, ShortSeqs DEF Tame, Says
  <2>8. QED BY <2>1, <2>6, <2>7
<1>9. QED BY <1>4, <1>5, <1>6, <1>7, <1>8

\* A refusal is tame.
LEMMA RefusedTame ==
  ASSUME NEW d, Sound("responses", d), NEW r, r # {} => The(r) \in Nat
  PROVE  Tame("responses", d, Refused(d, r))
<1> DEFINE i == Clamped(The(r))
           a == TextOpened(d, i)
           b == Says(a.st, Append(a.out, BlockDelta(i, "text")))
<1>1. \/ Refused(d, r) = Silent(d)
      \/ r # {} /\ Refused(d, r) = b
  BY Zenon DEF Refused
<1>2. r # {} => i \in Nat
  BY ClampedIs
<1> HIDE DEF i
<1>3. r # {} => Tame("responses", d, a) /\ BlockDelta(i, "text") \in BlockEvents
  BY <1>2, TextOpenedTame, EventsTyped DEF Blocks
<1> HIDE DEF a
<1>4. r # {} => Tame("responses", d, b)
  BY <1>3, AppendTame
<1> HIDE DEF b
<1>5. QED BY <1>1, <1>4, SilentTame

\* Closing what is open gives stops and a sound memory.
LEMMA CloseOpenBlocksIs ==
  ASSUME NEW d, Sound("responses", d)
  PROVE  /\ CloseOpenBlocks(d).out \in Seq(BlockStops)
         /\ Sound("responses", CloseOpenBlocks(d).st)
         /\ CloseOpenBlocks(d).st.started = d.started
<1> DEFINE S == DOMAIN d.tools
           X == S \cup d.texts
           o == [d EXCEPT !.tools = <<>>, !.texts = {}]
<1>0. d \in Memory
  BY DEF Sound
<1>1. CloseOpenBlocks(d).st = o /\ CloseOpenBlocks(d).out = Stops(X)
  BY DEF CloseOpenBlocks, Says
<1>2. X \in SUBSET Nat /\ IsFiniteSet(X)
  <2>1. S \in SUBSET Nat /\ d.texts \in SUBSET Nat
    BY <1>0, SoundCounts DEF Memory
  <2>2. IsFiniteSet(S) /\ IsFiniteSet(d.texts)
    BY DEF Sound
  <2> HIDE DEF S
  <2>3. QED BY <2>1, <2>2, FS_Union
<1> HIDE DEF X
<1>3. /\ o \in Memory /\ o.started = d.started /\ o.tools = <<>> /\ o.texts = {}
      /\ o.text = d.text /\ o.text_index = d.text_index
  BY <1>0, ToolMapsTyped DEF Memory
<1> HIDE DEF o
<1>4. Sound("responses", o)
  <2>1. IsFiniteSet({}) /\ Cardinality({}) = 0
    BY FS_EmptySet
  <2>2. IsFiniteSet(DOMAIN o.tools) /\ Cardinality(DOMAIN o.tools) = 0
        /\ IsFiniteSet(o.texts) /\ Cardinality(o.texts) = 0
    BY <1>3, <2>1, ToolMapsTyped
  <2>3. QED BY <1>3, <2>2, CapIsPositive DEF Sound
<1>5. QED BY <1>1, <1>2, <1>3, <1>4, StopsTyped

\* A response that is completed ends the tale.
LEMMA EndedWell ==
  ASSUME NEW d, Sound("responses", d), NEW c, ~c.failed, c.refusal # {} => The(c.refusal) \in Nat
  PROVE  LET r == Refused(d, c.refusal)
             b == r.out \o CloseOpenBlocks(r.st).out
         IN  /\ b \in Seq(BlockEvents)
             /\ ResponseEnded(d, c).out = b \o <<MessageDelta(c.final, Reported(c.usage)), MessageStop>>
             /\ Sound("responses", ResponseEnded(d, c).st)
             /\ ResponseEnded(d, c).st.started = d.started
<1> DEFINE r == Refused(d, c.refusal)
           z == CloseOpenBlocks(r.st)
           x == MessageDelta(c.final, Reported(c.usage))
           y == MessageStop
<1>1. /\ ResponseEnded(d, c).st = z.st
      /\ ResponseEnded(d, c).out = <<>> \o r.out \o z.out \o <<x>> \o <<y>>
  <2>1. ResponseEnded(d, c) = Says(z.st, <<>> \o r.out \o z.out \o <<x>> \o <<y>>)
    BY Zenon DEF ResponseEnded, Only
  <2> DEFINE o == <<>> \o r.out \o z.out \o <<x>> \o <<y>>
  <2>2. ResponseEnded(d, c) = Says(z.st, o)
    BY <2>1
  <2> HIDE DEF o, z
  <2>3. ResponseEnded(d, c).st = z.st /\ ResponseEnded(d, c).out = o
    BY <2>2 DEF Says
  <2>4. QED BY <2>3 DEF o
<1>2. Tame("responses", d, r)
  BY RefusedTame
<1> HIDE DEF r
<1>3. /\ z.out \in Seq(BlockStops) /\ Sound("responses", z.st) /\ z.st.started = r.st.started
  BY <1>2, CloseOpenBlocksIs DEF Tame
<1> HIDE DEF z, x, y
<1>4. r.out \in Seq(BlockEvents) /\ z.out \in Seq(BlockEvents)
  BY <1>2, <1>3, EventSeqs DEF Tame
<1> DEFINE b == r.out \o z.out
<1>5. b \in Seq(BlockEvents) /\ <<>> \o r.out = r.out
  BY <1>4
<1>6. <<>> \o r.out \o z.out \o <<x>> \o <<y>> = b \o <<x, y>>
  <2>1. <<>> \o r.out \o z.out \o <<x>> \o <<y>> = b \o <<x>> \o <<y>>
    BY Zenon, <1>5
  <2> HIDE DEF b
  <2>2. b \o <<x>> \o <<y>> = b \o (<<x>> \o <<y>>)
    <3> DEFINE S == BlockEvents \cup {x, y}
    <3>1. b \in Seq(S) /\ <<x>> \in Seq(S) /\ <<y>> \in Seq(S)
      BY <1>5
    <3> HIDE DEF S
    <3>2. QED BY <3>1, ConcatAssociative
  <2>3. <<x>> \o <<y>> = <<x, y>>
    BY ShortConcat
  <2>4. QED BY <2>1, <2>2, <2>3
<1>7. b = r.out \o z.out
  OBVIOUS
<1> HIDE DEF b
<1> DEFINE o == ResponseEnded(d, c)
<1>8. /\ b \in Seq(BlockEvents) /\ o.out = b \o <<x, y>>
      /\ Sound("responses", o.st) /\ o.st.started = d.started
  BY <1>1, <1>2, <1>3, <1>5, <1>6 DEF Tame
<1> HIDE DEF o, r
<1>9. QED BY Zenon, <1>7, <1>8 DEF o, r, x, y, z

\* A response that fails tells an error before its stops.
LEMMA EndedBadly ==
  ASSUME NEW d, Sound("responses", d), NEW c, c.failed
  PROVE  /\ CloseOpenBlocks(d).out \in Seq(BlockStops)
         /\ ResponseEnded(d, c).out = <<StreamError>> \o (CloseOpenBlocks(d).out \o <<MessageStop>>)
         /\ Sound("responses", ResponseEnded(d, c).st) /\ ResponseEnded(d, c).st.started = d.started
<1> DEFINE z == CloseOpenBlocks(d)
           x == StreamError
           y == MessageStop
<1>1. /\ ResponseEnded(d, c).st = z.st
      /\ ResponseEnded(d, c).out = <<x>> \o <<>> \o z.out \o <<>> \o <<y>>
  <2>1. Silent(d).st = d /\ Silent(d).out = <<>>
    BY DEF Silent, Says
  <2>2. ResponseEnded(d, c) = Says(z.st, <<x>> \o <<>> \o z.out \o <<>> \o <<y>>)
    BY Zenon, <2>1 DEF ResponseEnded, Only
  <2> DEFINE o == <<x>> \o <<>> \o z.out \o <<>> \o <<y>>
  <2>3. ResponseEnded(d, c) = Says(z.st, o)
    BY <2>2
  <2> HIDE DEF o, z
  <2>4. ResponseEnded(d, c).st = z.st /\ ResponseEnded(d, c).out = o
    BY <2>3 DEF Says
  <2>5. QED BY <2>4 DEF o
<1>2. /\ z.out \in Seq(BlockStops) /\ Sound("responses", z.st) /\ z.st.started = d.started
  BY CloseOpenBlocksIs
<1> HIDE DEF z, x, y
<1> DEFINE S == BlockStops \cup {x, y}
           b == z.out
<1>3. b \in Seq(S) /\ <<x>> \in Seq(S) /\ <<y>> \in Seq(S)
  BY <1>2
<1> HIDE DEF S, b
<1>4. <<x>> \o <<>> \o b \o <<>> \o <<y>> = <<x>> \o (b \o <<y>>)
  <2>1. <<x>> \o <<>> = <<x>>
    BY ShortConcat
  <2> DEFINE xb == <<x>> \o b
  <2>2. xb \in Seq(S)
    BY <1>3
  <2>3. xb \o <<>> = xb
    BY <2>2
  <2>4. <<x>> \o <<>> \o b \o <<>> \o <<y>> = xb \o <<y>>
    BY Zenon, <2>1, <2>3
  <2>5. xb \o <<y>> = <<x>> \o (b \o <<y>>)
    BY <1>3, ConcatAssociative
  <2>6. QED BY <2>4, <2>5
<1>5. QED BY <1>1, <1>2, <1>4 DEF x, y, z, b

\* Whatever a Responses backend sends, its reader answers it.
LEMMA ResponsesAnswers ==
  ASSUME egress = "responses", SentOK("responses", sent), NEW d, Ready("responses", sent, d),
         ResponsesSends
  PROVE  \E c, t : Send(c, t) /\ Answers("responses", sent, d, c, t)
<1> DEFINE e == "responses"
           Types == {"item_added", "reasoning_delta", "text_delta", "arguments_delta", "item_done"}
<1>0. \A c : ReadBy(e, d, c) = ResponsesRead(d, c)
  BY DEF ReadBy
<1>a. Sound(e, d) /\ d \in Memory
  BY DEF Ready, Sound
<1>1. CASE sent.at = "idle" /\ Send([type |-> "created"], At(sent, "open"))
  <2> DEFINE c == [type |-> "created"]
             t == At(sent, "open")
  <2>1. sent.told = ZeroUsage
    BY <1>1, MidwayIs
  <2>2. t = [at |-> "open", text |-> sent.text, open |-> sent.open, used |-> sent.used, told |-> ZeroUsage]
    BY <2>1, Tells
  <2>3. ReadBy(e, d, c) = Begun(d)
    <3>1. ResponsesRead(d, c) = Begun(d)
      BY DEF ResponsesRead
    <3>2. QED BY <1>0, <3>1
  <2> HIDE DEF c, t
  <2>4. SentOK(e, t) /\ PlaceOf(e, t) = Midway
    <3>1. SentOK(e, t)
      BY <2>2 DEF SentOK, Ats
    <3>2. QED BY <2>2, <3>1, MidwayIs
  <2>5. Ready(e, t, Begun(d).st)
    BY <1>1, <2>2, BegunTold DEF Ready
  <2>6. Answers(e, sent, d, c, t)
    BY <1>1, <2>1, <2>3, <2>4, <2>5, BegunTold, NothingLast DEF Answers
  <2>7. QED BY <1>1, <2>6 DEF c, t
<1>2. ASSUME sent.at = "open", NEW i \in Nat, NEW k \in Blocks, NEW type \in Types, NEW t,
             SentOK(e, t), t.at = "open",
             Send([type |-> type, index |-> i, kind |-> k], t)
      PROVE  \E cc, tt : Send(cc, tt) /\ Answers(e, sent, d, cc, tt)
  <2> DEFINE c == [type |-> type, index |-> i, kind |-> k]
  <2>1. Send(c, t) /\ c.index \in Nat /\ c.kind \in Blocks /\ c.type \in Types
    BY <1>2
  <2> HIDE DEF c
  <2>2. Tame(e, d, ReadBy(e, d, c))
    BY <1>0, <1>a, <2>1, ResponsesItemTame
  <2>3. Answers(e, sent, d, c, t)
    BY <1>2, <2>2, WithinAnswers DEF Tame
  <2>4. QED BY <2>1, <2>3
<1>3. ASSUME sent.at = "open", NEW f \in BOOLEAN, NEW u \in Counted, NEW r \in SUBSET Nat,
             r # {} => The(r) \in Nat, NEW failed \in BOOLEAN,
             Send([type |-> "ended", failed |-> failed, final |-> f, usage |-> u, refusal |-> r],
                  IF failed THEN At(sent, "failed")
                  ELSE Telling(At([sent EXCEPT !.used = @ \cup r], "finished"), u))
      PROVE  \E c, t : Send(c, t) /\ Answers(e, sent, d, c, t)
  <2> DEFINE c == [type |-> "ended", failed |-> failed, final |-> f, usage |-> u, refusal |-> r]
             v == [sent EXCEPT !.used = @ \cup r]
             t == IF failed THEN At(sent, "failed") ELSE Telling(At(v, "finished"), u)
             o == ResponseEnded(d, c)
  <2>1. sent.told = ZeroUsage /\ Midway \in Places /\ Midway.at = "within" /\ PlaceOf(e, sent) = Midway
    BY <1>3, MidwayIs
  <2>2. ReadBy(e, d, c) = o
    <3>1. ResponsesRead(d, c) = o
      BY DEF ResponsesRead
    <3>2. QED BY <1>0, <3>1
  <2>3. c.failed = failed /\ c.final = f /\ c.usage = u /\ c.refusal = r /\ Send(c, t)
    BY <1>3
  <2> HIDE DEF c
  <2>4. CASE failed
    <3>1. t = [at |-> "failed", text |-> sent.text, open |-> sent.open, used |-> sent.used, told |-> ZeroUsage]
      BY <2>1, <2>4, Tells
    <3> HIDE DEF t
    <3>2. PICK b \in Seq(BlockStops) : o.out = <<StreamError>> \o (b \o <<MessageStop>>)
      BY <1>a, <2>3, <2>4, EndedBadly
    <3>3. Sound(e, o.st)
      BY <1>a, <2>3, <2>4, EndedBadly
    <3>4. SentOK(e, t) /\ PlaceOf(e, t) \in Places /\ PlaceOf(e, t).at = "failed"
      <4>1. SentOK(e, t)
        BY <3>1 DEF SentOK, Ats
      <4>2. QED BY <3>1, <4>1, PlaceTyped DEF PlaceOf
    <3> DEFINE ev == StreamError
               s == b \o <<MessageStop>>
    <3>5. ev \in Events /\ ev.type = "Error"
      BY EventsTyped DEF StreamError
    <3>6. Run(Tale, PlaceOf(e, t), s, PlaceOf(e, t))
      BY <3>4, ClosingTold
    <3>7. s \in Seq(Events)
      <4>1. b \in Seq(Events) /\ <<MessageStop>> \in Seq(Events)
        BY EventSeqs, EventsTyped
      <4>2. QED BY <4>1
    <3> HIDE DEF ev, s
    <3>8. Fits(Midway.at, ev) /\ PlaceOf(e, t) = Onward(Midway, ev)
      BY <2>1, <3>1, <3>5 DEF Midway, PlaceOf, Fits, Onward, NextStage
    <3>9. Run(Tale, Midway, <<ev>>, PlaceOf(e, t)) /\ <<ev>> \in Seq(Events)
      BY <2>1, <3>5, <3>8, OneTold, ShortSeqs
    <3>10. Run(Tale, Midway, <<ev>> \o s, PlaceOf(e, t)) /\ <<ev>> \o s \in Seq(Events)
      <4>1. Run(Tale, Midway, <<ev>> \o s, PlaceOf(e, t))
        BY <3>6, <3>7, <3>9, RunBoth
      <4>2. QED BY <3>7, <3>9, <4>1
    <3>11. o.out = <<ev>> \o s
      BY <3>2 DEF ev, s
    <3> HIDE DEF o
    <3>12. Ready(e, t, o.st)
      BY <3>1, <3>3 DEF Ready
    <3>13. Answers(e, sent, d, c, t)
      BY <2>1, <2>2, <3>4, <3>10, <3>11, <3>12, NothingLast DEF Answers
    <3>14. QED BY <2>3, <3>13
  <2>5. CASE ~failed
    <3>1. t = Telling(At(v, "finished"), u)
      BY <2>5
    <3>a. SentOK(e, v) /\ v.told = ZeroUsage
      BY <2>1 DEF SentOK
    <3> HIDE DEF t, v
    <3>2. SentOK(e, t) /\ t.at = "finished" /\ t.told = Reported(u)
      BY <3>1, <3>a, CountedIs
    <3>3. PICK b \in Seq(BlockEvents) : o.out = b \o <<MessageDelta(c.final, Reported(c.usage)), MessageStop>>
      BY <1>3, <1>a, <2>3, <2>5, EndedWell
    <3>4. Sound(e, o.st) /\ o.st.started = d.started
      BY <1>3, <1>a, <2>3, <2>5, EndedWell
    <3>5. o.out = b \o <<MessageDelta(f, Reported(u)), MessageStop>>
      BY <2>3, <3>3
    <3> HIDE DEF o
    <3>6. Run(Tale, Midway, o.out, PlaceOf(e, t)) /\ o.out \in Seq(Events)
      BY <3>2, <3>5, FinishTold
    <3>7. Ready(e, t, o.st)
      BY <1>3, <3>2, <3>4 DEF Ready
    <3>8. Answers(e, sent, d, c, t)
      BY <2>1, <2>2, <3>2, <3>6, <3>7, NothingLast DEF Answers
    <3>9. QED BY <2>3, <3>8
  <2>6. QED BY <2>4, <2>5
<1>4. \A i \in NextIndex, k \in Blocks :
        sent.at = "open" /\ Send([type |-> "item_added", index |-> i, kind |-> k], Opening(sent, i, k))
        => \E c, t : Send(c, t) /\ Answers(e, sent, d, c, t)
  <2> SUFFICES ASSUME NEW i \in NextIndex, NEW k \in Blocks, sent.at = "open",
                      Send([type |-> "item_added", index |-> i, kind |-> k], Opening(sent, i, k))
               PROVE  \E c, t : Send(c, t) /\ Answers(e, sent, d, c, t)
    OBVIOUS
  <2>1. i \in Nat
    BY IndicesAreNumbers DEF NextIndex
  <2>2. SentOK(e, Opening(sent, i, k)) /\ Opening(sent, i, k).at = "open"
    BY <2>1, SentMoves
  <2>3. QED BY <1>2, <2>1, <2>2
<1>5. ASSUME sent.at = "open", NEW i \in DOMAIN sent.open
      PROVE  /\ i \in Nat /\ sent.open[i] \in Blocks \cup {"said"}
             /\ SentOK(e, sent) /\ SentOK(e, Closing(sent, i)) /\ Closing(sent, i).at = "open"
             /\ SentOK(e, [sent EXCEPT !.open[i] = "said"])
             /\ [sent EXCEPT !.open[i] = "said"].at = "open"
  <2>1. i \in Nat /\ sent.open[i] \in Blocks \cup {"said"} /\ "text" \in Blocks
    BY DEF SentOK, Blocks
  <2>2. SentOK(e, Closing(sent, i)) /\ Closing(sent, i).at = "open"
    BY <1>5, <2>1, SentMoves
  <2> DEFINE o == [sent.open EXCEPT ![i] = "said"]
             t == [sent EXCEPT !.open[i] = "said"]
  <2>3. t = [at |-> sent.at, text |-> sent.text, open |-> o, used |-> sent.used, told |-> sent.told]
    <3>1. sent = [at |-> sent.at, text |-> sent.text, open |-> sent.open, used |-> sent.used, told |-> sent.told]
      BY DEF SentOK
    <3>2. t = [sent EXCEPT !.open = o]
      OBVIOUS
    <3> HIDE DEF o
    <3>3. QED BY <3>1, <3>2
  <2>4. \A j \in DOMAIN o : j \in Nat /\ (o[j] \in Blocks \/ (e = "responses" /\ o[j] = "said"))
    BY DEF SentOK
  <2> HIDE DEF o, t
  <2>5. SentOK(e, t) /\ t.at = "open"
    BY <1>5, <2>3, <2>4 DEF SentOK
  <2>6. QED BY <2>1, <2>2, <2>5 DEF t
<1> DEFINE Kind(i) == IF sent.open[i] = "said" THEN "text" ELSE sent.open[i]
           Delta(i) == CASE sent.open[i] = "text"     -> "text_delta"
                         [] sent.open[i] = "tool"     -> "arguments_delta"
                         [] sent.open[i] = "thinking" -> "reasoning_delta"
<1>6. \A i \in DOMAIN sent.open :
        sent.at = "open" /\ sent.open[i] # "said"
        /\ Send([type |-> Delta(i), index |-> i, kind |-> sent.open[i]], sent)
        => \E c, t : Send(c, t) /\ Answers(e, sent, d, c, t)
  <2> SUFFICES ASSUME NEW i \in DOMAIN sent.open, sent.at = "open", sent.open[i] # "said",
                      Send([type |-> Delta(i), index |-> i, kind |-> sent.open[i]], sent)
               PROVE  \E c, t : Send(c, t) /\ Answers(e, sent, d, c, t)
    OBVIOUS
  <2>1. i \in Nat /\ sent.open[i] \in Blocks
    BY <1>5
  <2>2. Delta(i) \in Types
    BY <2>1 DEF Blocks
  <2> HIDE DEF Delta, Types
  <2>3. QED BY <1>2, <2>1, <2>2
<1>7. \A i \in DOMAIN sent.open :
        sent.at = "open"
        /\ Send([type |-> "item_done", index |-> i, kind |-> "text"], [sent EXCEPT !.open[i] = "said"])
        => \E c, t : Send(c, t) /\ Answers(e, sent, d, c, t)
  <2> SUFFICES ASSUME NEW i \in DOMAIN sent.open, sent.at = "open",
                      Send([type |-> "item_done", index |-> i, kind |-> "text"],
                           [sent EXCEPT !.open[i] = "said"])
               PROVE  \E c, t : Send(c, t) /\ Answers(e, sent, d, c, t)
    OBVIOUS
  <2> DEFINE t == [sent EXCEPT !.open[i] = "said"]
  <2>1. i \in Nat /\ SentOK(e, t) /\ t.at = "open" /\ "text" \in Blocks
    BY <1>5 DEF Blocks
  <2>2. Send([type |-> "item_done", index |-> i, kind |-> "text"], t)
    OBVIOUS
  <2> HIDE DEF t
  <2>3. QED BY <1>2, <2>1, <2>2
<1>8. \A i \in DOMAIN sent.open :
        sent.at = "open" /\ Send([type |-> "item_done", index |-> i, kind |-> Kind(i)], Closing(sent, i))
        => \E c, t : Send(c, t) /\ Answers(e, sent, d, c, t)
  <2> SUFFICES ASSUME NEW i \in DOMAIN sent.open, sent.at = "open",
                      Send([type |-> "item_done", index |-> i, kind |-> Kind(i)], Closing(sent, i))
               PROVE  \E c, t : Send(c, t) /\ Answers(e, sent, d, c, t)
    OBVIOUS
  <2>1. i \in Nat /\ SentOK(e, Closing(sent, i)) /\ Closing(sent, i).at = "open"
    BY <1>5
  <2>2. Kind(i) \in Blocks
    BY <1>5 DEF Blocks
  <2> HIDE DEF Kind
  <2>3. QED BY <1>2, <2>1, <2>2
<1>9. \A r \in {{}} \cup {{i} : i \in NextIndex} : r \in SUBSET Nat /\ (r # {} => The(r) \in Nat)
  <2>1. \A x : The({x}) = x
    BY DEF The
  <2>2. \A i \in NextIndex : i \in Nat /\ The({i}) \in Nat
    BY <2>1, IndicesAreNumbers DEF NextIndex
  <2>3. QED BY <2>2
<1>10. \A failed \in BOOLEAN, f \in BOOLEAN, u \in Counted,
          r \in {{}} \cup {{i} : i \in NextIndex} :
         sent.at = "open" /\
         Send([type |-> "ended", failed |-> failed, final |-> f, usage |-> u, refusal |-> r],
              IF failed THEN At(sent, "failed")
              ELSE Telling(At([sent EXCEPT !.used = @ \cup r], "finished"), u))
         => \E c, t : Send(c, t) /\ Answers(e, sent, d, c, t)
  BY <1>3, <1>9
<1> HIDE DEF e
<1>11. QED BY <1>1, <1>4, <1>6, <1>7, <1>8, <1>10 DEF ResponsesSends, e

-----------------------------------------------------------------------------
(* OpenAI *)

\* Closing the reasoning is tame.
LEMMA AnsweredTame ==
  ASSUME NEW d, Sound("openai", d)
  PROVE  /\ Tame("openai", d, Answered(d))
         /\ Answered(d).st.tools = d.tools /\ Answered(d).st.text = d.text
         /\ Answered(d).st.text_index = d.text_index
<1> DEFINE o == [d EXCEPT !.thinking = FALSE]
           ev == BlockStop(0)
           b == Only(d.thinking, ev)
<1>1. Answered(d).st = o /\ Answered(d).out = b
  BY DEF Answered, Says
<1>2. d \in Memory /\ ev \in BlockEvents
  BY EventsTyped DEF Sound
<1>3. b \in {<<>>, <<ev>>}
  BY Zenon DEF Only
<1>4. /\ o \in Memory /\ o.started = d.started /\ o.tools = d.tools /\ o.texts = d.texts
      /\ o.text = d.text /\ o.text_index = d.text_index
  BY <1>2 DEF Memory
<1> HIDE DEF o, b, ev
<1>5. Sound("openai", o)
  BY <1>4 DEF Sound
<1>6. b \in Seq(BlockEvents)
  BY <1>2, <1>3, ShortSeqs
<1>7. QED BY <1>1, <1>4, <1>5, <1>6 DEF Tame

\* Reasoning is tame.
LEMMA ReasonedTame ==
  ASSUME NEW d, Sound("openai", d), NEW c
  PROVE  Tame("openai", d, Reasoned(d, c))
<1> DEFINE o == [d EXCEPT !.reasoning_seen = TRUE, !.thinking = TRUE]
           x == BlockStart(0, "thinking")
           y == BlockDelta(0, "thinking")
           a == Only(~d.thinking, x)
           b == a \o <<y>>
<1>1. Reasoned(d, c) \in {Says(o, b), Silent(d)}
  BY Zenon DEF Reasoned
<1>2. d \in Memory /\ x \in BlockEvents /\ y \in BlockEvents
  BY EventsTyped DEF Sound, Blocks
<1>3. a \in {<<>>, <<x>>}
  BY Zenon DEF Only
<1>4. /\ o \in Memory /\ o.started = d.started /\ o.tools = d.tools /\ o.texts = d.texts
      /\ o.text = d.text /\ o.text_index = d.text_index
  BY <1>2 DEF Memory
<1> HIDE DEF o, a, x, y
<1>5. Sound("openai", o)
  BY <1>4 DEF Sound
<1>6. a \in Seq(BlockEvents) /\ <<y>> \in Seq(BlockEvents)
  BY <1>2, <1>3, ShortSeqs
<1>7. b \in Seq(BlockEvents)
  BY <1>6
<1> HIDE DEF b
<1>8. Tame("openai", d, Says(o, b))
  BY <1>4, <1>5, <1>7 DEF Tame, Says
<1>9. QED BY <1>1, <1>8, SilentTame

\* Text is tame.
LEMMA TextedTame ==
  ASSUME NEW d, Sound("openai", d), NEW c
  PROVE  Tame("openai", d, Texted(d, c))
<1> DEFINE i == TextSlot(d)
           a == Answered(d)
           j == IF d.text THEN a.st.text_index ELSE i
           o == WithText(a.st, j)
           x == BlockStart(i, "text")
           y == BlockDelta(i, "text")
           z == Only(~d.text, x)
           b == a.out \o z \o <<y>>
<1>1. Texted(d, c) = IF c.content THEN Says(o, b) ELSE Silent(d)
  BY Zenon DEF Texted, WithText
<1>2. i \in Nat
  <2>1. Offset(d) \in {0, 1}
    BY DEF Offset
  <2>2. QED BY <2>1, SoundCounts DEF TextSlot
<1> HIDE DEF i
<1>3. x \in BlockEvents /\ y \in BlockEvents
  BY <1>2, EventsTyped DEF Blocks
<1>4. Tame("openai", d, a) /\ a.st.text_index = d.text_index
  BY AnsweredTame
<1>5. z \in {<<>>, <<x>>}
  BY Zenon DEF Only
<1> HIDE DEF a, x, y, z
<1>6. a.out \in Seq(BlockEvents) /\ z \in Seq(BlockEvents) /\ <<y>> \in Seq(BlockEvents)
  BY <1>3, <1>4, <1>5, ShortSeqs DEF Tame
<1>7. b \in Seq(BlockEvents)
  BY <1>6
<1> HIDE DEF b
<1>8. j \in Nat
  BY <1>2, <1>4 DEF Sound
<1> HIDE DEF j
<1>9. Sound("openai", o) /\ o.started = a.st.started
  <2>1. Sound("openai", a.st)
    BY <1>4 DEF Tame
  <2>2. QED BY <1>8, <2>1, TextKept
<1> HIDE DEF o
<1>10. Tame("openai", d, Says(o, b))
  BY <1>4, <1>7, <1>9 DEF Tame, Says
<1>11. QED BY <1>1, <1>10, SilentTame

\* A tool call is tame, within the cap or over it.
LEMMA CalledTame ==
  ASSUME NEW d, Sound("openai", d), NEW c, c.tool # {} => The(c.tool).index \in Nat
  PROVE  Tame("openai", d, Called(d, c))
<1> DEFINE tool == The(c.tool)
           a == Answered(d)
           wire == Clamped(tool.index)
           i == ToolSlot(d, wire)
           w == WithTool(a.st, wire, i)
           x == BlockStart(i, "tool")
           b == IF Opens(d, tool) THEN Says(w, <<x>>) ELSE Silent(a.st)
           y == BlockDelta(b.st.tools[wire], "tool")
           z == IF wire \in DOMAIN b.st.tools THEN <<y>> ELSE <<>>
           o == a.out \o b.out \o z
<1>1. Called(d, c) = IF c.tool # {} THEN Says(b.st, o) ELSE Silent(d)
  BY Zenon DEF Called
<1>2. CASE c.tool = {}
  BY <1>1, <1>2, SilentTame
<1>3. CASE c.tool # {}
  <2>1. wire \in Nat
    BY <1>3, ClampedIs
  <2>2. i \in Nat
    <3>1. Offset(d) \in {0, 1}
      BY DEF Offset
    <3> HIDE DEF wire
    <3>2. QED BY <2>1, <3>1 DEF ToolSlot
  <2>3. x \in BlockEvents
    <3> HIDE DEF i
    <3>1. QED BY <2>2, EventsTyped DEF Blocks
  <2>4. Opens(d, tool) => ToolCount(d) < MaxOpenTools
    BY DEF Opens
  <2> HIDE DEF tool, wire, i
  <2>5. Tame("openai", d, a) /\ a.st.tools = d.tools
    BY AnsweredTame
  <2> HIDE DEF a, x
  <2>6. ASSUME Opens(d, tool) PROVE Tame("openai", a.st, Says(w, <<x>>))
    <3>1. Sound("openai", a.st) /\ ToolCount(a.st) = ToolCount(d)
      BY <2>5 DEF Tame, ToolCount
    <3>2. ToolCount(a.st) + Cardinality(a.st.texts) < MaxOpenTools
      BY <2>4, <2>6, <3>1, SoundCounts
    <3>3. Sound("openai", w) /\ w.started = a.st.started
      BY <2>1, <2>2, <3>1, <3>2, ToolKept
    <3> HIDE DEF w
    <3>4. QED BY <2>3, <3>3, ShortSeqs DEF Tame, Says
  <2> HIDE DEF w
  <2>7. Tame("openai", a.st, b)
    <3>1. Tame("openai", a.st, Silent(a.st))
      BY <2>5, SilentTame DEF Tame
    <3>2. QED BY <2>6, <3>1
  <2> HIDE DEF b
  <2>8. z \in Seq(BlockEvents)
    <3>1. wire \in DOMAIN b.st.tools => b.st.tools[wire] \in Nat
      BY <2>7, SoundCounts DEF Tame
    <3>2. wire \in DOMAIN b.st.tools => y \in BlockEvents
      BY <3>1, EventsTyped DEF Blocks
    <3> HIDE DEF y
    <3>3. QED BY <3>2, ShortSeqs
  <2> HIDE DEF z
  <2>9. a.out \in Seq(BlockEvents) /\ b.out \in Seq(BlockEvents)
    BY <2>5, <2>7 DEF Tame
  <2>10. o \in Seq(BlockEvents)
    BY <2>8, <2>9
  <2> HIDE DEF o
  <2>11. Tame("openai", d, Says(b.st, o))
    BY <2>5, <2>7, <2>10 DEF Tame, Says
  <2>12. QED BY <1>1, <1>3, <2>11
<1>4. QED BY <1>2, <1>3

\* The finish of an openai stream ends the tale.
LEMMA FinishedEnds ==
  ASSUME NEW d, Sound("openai", d), NEW c, c.finish
  PROVE  /\ \E b \in Seq(BlockEvents) :
              Finished(d, c).out = b \o <<MessageDelta(TRUE, Reported(c.usage)), MessageStop>>
         /\ Sound("openai", Finished(d, c).st) /\ Finished(d, c).st.started = d.started
<1> DEFINE a == Only(d.thinking, BlockStop(0))
           t == Only(d.text, BlockStop(d.text_index))
           s == Stops(ToolIndices(d))
           z == <<MessageDelta(TRUE, Reported(c.usage)), MessageStop>>
           o == [d EXCEPT !.thinking = FALSE, !.text = FALSE, !.tools = <<>>]
           all == a \o t \o s \o z
<1>1. Finished(d, c).out = all /\ Finished(d, c).st = o
  <2>1. Finished(d, c) = Says(o, all)
    BY Zenon DEF Finished
  <2> HIDE DEF o, all
  <2>2. QED BY <2>1 DEF Says
<1>2. BlockStop(0) \in BlockEvents /\ (d.text => BlockStop(d.text_index) \in BlockEvents)
  BY EventsTyped DEF Sound
<1>3. a \in Seq(BlockEvents) /\ t \in Seq(BlockEvents)
  BY <1>2, ShortSeqs DEF Only
<1>4. s \in Seq(BlockEvents)
  BY IndicesTyped, StopsTyped, EventSeqs
<1>5. d \in Memory
  BY DEF Sound
<1> HIDE DEF a, t, s, z
<1>6. a \o t \o s \in Seq(BlockEvents)
  BY <1>3, <1>4
<1>7. /\ o \in Memory /\ o.started = d.started /\ o.text = FALSE /\ o.tools = <<>> /\ o.texts = d.texts
  BY <1>5, ToolMapsTyped DEF Memory
<1>8. Sound("openai", o)
  <2>1. IsFiniteSet({}) /\ Cardinality({}) = 0
    BY FS_EmptySet
  <2>2. IsFiniteSet(DOMAIN o.tools) /\ Cardinality(DOMAIN o.tools) = 0
    BY <1>7, <2>1, ToolMapsTyped
  <2>3. Cardinality(d.texts) = 0
    BY SoundCounts
  <2> HIDE DEF o
  <2>4. QED BY <1>7, <2>2, <2>3, CapIsPositive DEF Sound
<1> HIDE DEF o
<1>9. QED BY <1>1, <1>6, <1>7, <1>8 DEF z, all

\* A chunk while the backend streams.
LEMMA OpenAiChunkAnswers ==
  ASSUME egress = "openai", SentOK("openai", sent), NEW d, Ready("openai", sent, d), Streaming,
         NEW u \in Counted, NEW c, NEW t, SentOK("openai", t), c.usage = u,
         c.tool # {} => The(c.tool).index \in Nat,
         \/ c.finish /\ t.at \in {"finished", "counted"} /\ t.told = Reported(u)
         \/ ~c.finish /\ u = {} /\ t.at \in {"open", "failed"}
  PROVE  Answers("openai", sent, d, c, t)
<1> DEFINE e == "openai"
           begun    == Begun(d)
           reasoned == Reasoned(begun.st, c)
           texted   == Texted(reasoned.st, c)
           called   == Called(texted.st, c)
           finished == Finished(called.st, c)
           o == begun.out \o reasoned.out \o texted.out \o called.out
<1>1. sent.at \in {"idle", "open"} /\ sent.told = ZeroUsage /\ e # "anthropic" /\ e # "bedrock"
  BY MidwayIs DEF Streaming
<1>2. /\ begun.out \in Seq(Events) /\ Run(Tale, PlaceOf(e, sent), begun.out, Midway)
      /\ Sound(e, begun.st) /\ begun.st.started
  BY <1>1, BegunTold
<1>3. ReadBy(e, d, c).st = finished.st /\ ReadBy(e, d, c).out = o \o finished.out
  <2> DEFINE all == begun.out \o reasoned.out \o texted.out \o called.out \o finished.out
  <2>1. OpenAiRead(d, c) = Says(finished.st, all)
    BY Zenon DEF OpenAiRead
  <2>2. ReadBy(e, d, c) = OpenAiRead(d, c)
    BY DEF ReadBy
  <2> HIDE DEF finished, all
  <2>3. ReadBy(e, d, c).st = finished.st /\ ReadBy(e, d, c).out = all
    BY <2>1, <2>2 DEF Says
  <2>4. QED BY Zenon, <2>3 DEF all
<1> HIDE DEF begun
<1>4. Tame(e, begun.st, reasoned)
  BY <1>2, ReasonedTame
<1> HIDE DEF reasoned
<1>5. Tame(e, reasoned.st, texted)
  BY <1>4, TextedTame DEF Tame
<1> HIDE DEF texted
<1>6. Tame(e, texted.st, called)
  BY <1>5, CalledTame DEF Tame
<1> HIDE DEF called
<1>7. /\ reasoned.out \in Seq(BlockEvents) /\ texted.out \in Seq(BlockEvents)
      /\ called.out \in Seq(BlockEvents) /\ Sound(e, called.st) /\ called.st.started
  BY <1>2, <1>4, <1>5, <1>6 DEF Tame
<1>8. Midway \in Places /\ Midway.at = "within"
  BY <1>1, MidwayIs
<1>9. /\ Run(Tale, Midway, reasoned.out, Midway) /\ reasoned.out \in Seq(Events)
      /\ Run(Tale, Midway, texted.out, Midway) /\ texted.out \in Seq(Events)
      /\ Run(Tale, Midway, called.out, Midway) /\ called.out \in Seq(Events)
  BY <1>7, <1>8, BlocksTold, EventSeqs
<1>10. Run(Tale, PlaceOf(e, sent), o, Midway) /\ o \in Seq(Events)
  BY <1>2, <1>9, RunsInARow
<1> HIDE DEF o
<1>11. /\ finished.out \in Seq(Events) /\ Run(Tale, Midway, finished.out, PlaceOf(e, t))
       /\ Ready(e, t, finished.st)
  <2>1. CASE c.finish
    <3>1. PICK b \in Seq(BlockEvents) :
                 finished.out = b \o <<MessageDelta(TRUE, Reported(c.usage)), MessageStop>>
      BY <1>7, <2>1, FinishedEnds
    <3>2. Sound(e, finished.st) /\ finished.st.started
      BY <1>7, <2>1, FinishedEnds
    <3>3. finished.out = b \o <<MessageDelta(TRUE, Reported(u)), MessageStop>>
      BY <3>1
    <3> HIDE DEF finished
    <3>4. QED BY <1>1, <2>1, <3>2, <3>3, FinishTold DEF Ready
  <2>2. CASE ~c.finish
    <3>1. finished = Says(called.st, <<>>)
      BY Zenon, <2>2 DEF Finished, Only
    <3>2. finished.out = <<>> /\ finished.st = called.st
      BY <3>1 DEF Says
    <3> HIDE DEF finished
    <3>3. t.at \in {"open", "failed"} /\ t.told = ZeroUsage
      BY <1>1, <2>2, MidwayIs
    <3>4. PlaceOf(e, t) = Midway
      BY <3>3 DEF PlaceOf, Midway
    <3>5. Ready(e, t, called.st)
      BY <1>7, <3>3 DEF Ready
    <3>6. QED BY <3>2, <3>4, <3>5, RunNothing, ShortSeqs
  <2>3. QED BY <2>1, <2>2
<1> HIDE DEF finished
<1>12. Run(Tale, PlaceOf(e, sent), o \o finished.out, PlaceOf(e, t)) /\ o \o finished.out \in Seq(Events)
  <2>1. Run(Tale, PlaceOf(e, sent), o \o finished.out, PlaceOf(e, t))
    BY <1>10, <1>11, RunBoth
  <2>2. QED BY <1>10, <1>11, <2>1
<1>13. Fit(PlaceOf(e, sent).last, t.told)
  BY <1>1, NothingLast
<1>14. QED BY <1>3, <1>11, <1>12, <1>13 DEF Answers

\* The counts in a chunk of their own, after the finish.
LEMMA OpenAiCountsAnswer ==
  ASSUME egress = "openai", SentOK("openai", sent), NEW d, Ready("openai", sent, d),
         sent.at = "finished", NEW c, c.usage = {Counts}, ~c.choice, ~c.finish, ~c.reasoning, ~c.content,
         c.tool = {}
  PROVE  Answers("openai", sent, d, c, Telling(At(sent, "counted"), {Counts}))
<1> DEFINE e == "openai"
           ev == MessageDelta(FALSE, Counts)
           t == Telling(At(sent, "counted"), {Counts})
<1>1. d.started /\ d \in Memory
  BY DEF Ready, Sound
<1>2. Begun(d) = Says(d, <<>>)
  <2>1. [d EXCEPT !.started = TRUE] = d
    BY <1>1 DEF Memory
  <2>2. QED BY Zenon, <1>1, <2>1 DEF Begun, Only
<1>3. OpenAiRead(d, c).st = d /\ OpenAiRead(d, c).out = <<ev>>
  <2> DEFINE m == Says(d, <<>>)
  <2>1. m.st = d /\ m.out = <<>> /\ m = Silent(d)
    BY DEF Says, Silent
  <2> HIDE DEF m
  <2>2. Begun(d) = m
    BY <1>2 DEF m
  <2>3. Reasoned(d, c) = m /\ Texted(d, c) = m /\ Called(d, c) = m
    <3>1. Reasoned(d, c) = Silent(d)
      BY Zenon DEF Reasoned
    <3>2. Texted(d, c) = Silent(d)
      BY Zenon DEF Texted
    <3>3. Called(d, c) = Silent(d)
      BY Zenon DEF Called
    <3>4. QED BY <2>1, <3>1, <3>2, <3>3
  <2>4. Finished(d, c) = Says(d, <<ev>>)
    <3>1. Reported(c.usage) = Counts
      BY Zenon, UsagesTyped
    <3>2. c.usage # {}
      OBVIOUS
    <3>3. Finished(d, c) = Says(d, Only(c.usage # {} /\ ~c.choice, MessageDelta(FALSE, Reported(c.usage))))
      BY Zenon DEF Finished
    <3>4. Only(c.usage # {} /\ ~c.choice, MessageDelta(FALSE, Reported(c.usage))) = <<ev>>
      BY Zenon, <3>1, <3>2 DEF Only
    <3>5. QED BY <3>3, <3>4
  <2> HIDE DEF ev
  <2>5. Finished(d, c).st = d /\ Finished(d, c).out = <<ev>>
    BY <2>4 DEF Says
  <2>6. OpenAiRead(d, c) = Says(d, <<>> \o <<>> \o <<>> \o <<>> \o <<ev>>)
    BY Zenon, <2>1, <2>2, <2>3, <2>5 DEF OpenAiRead
  <2>7. <<>> \o <<>> = <<>> /\ <<>> \o <<ev>> = <<ev>>
    BY ShortConcat
  <2>8. OpenAiRead(d, c) = Says(d, <<ev>>)
    BY Zenon, <2>6, <2>7
  <2>9. QED BY <2>8 DEF Says
<1>4. ReadBy(e, d, c).st = d /\ ReadBy(e, d, c).out = <<ev>>
  <2>1. ReadBy(e, d, c) = OpenAiRead(d, c)
    BY DEF ReadBy
  <2>2. QED BY <1>3, <2>1
<1>5. sent.told \in {ZeroUsage, Counts}
  BY DEF SentOK
<1>6. t = [at |-> "counted", text |-> sent.text, open |-> sent.open, used |-> sent.used, told |-> Counts]
  <2>1. Reported({Counts}) = Counts
    BY Zenon, UsagesTyped
  <2>2. /\ sent.told.input \in {0, 2} /\ sent.told.output \in {0, 1}
        /\ Reported({Counts}).input = 2 /\ Reported({Counts}).output = 1
    BY <1>5, <2>1, UsagesTyped
  <2>3. /\ Larger(sent.told.input, Reported({Counts}).input) = 2
        /\ Larger(sent.told.output, Reported({Counts}).output) = 1
    BY <2>2 DEF Larger
  <2>4. [input |-> Larger(sent.told.input, Reported({Counts}).input),
         output |-> Larger(sent.told.output, Reported({Counts}).output)] = Counts
    BY <2>3, UsagesTyped
  <2>5. QED BY <2>4, Tells
<1>7. ev \in Events /\ ev.type = "MessageDelta" /\ ev.usage = Counts /\ ev.final = FALSE
  BY EventsTyped, UsagesTyped DEF MessageDelta
<1> HIDE DEF t, ev
<1>8. SentOK(e, t)
  BY <1>6 DEF SentOK, Ats
<1>9. Ready(e, t, d)
  BY <1>1, <1>6 DEF Ready
<1>10. Merged(PlaceOf(e, sent), Counts) = Counts
  BY <1>5, UsagesTyped DEF PlaceOf, Merged, Or
<1>11. Fits(PlaceOf(e, sent).at, ev) /\ PlaceOf(e, t) = Onward(PlaceOf(e, sent), ev)
  BY <1>6, <1>7, <1>10 DEF PlaceOf, Fits, Onward, NextStage
<1>12. Fit(PlaceOf(e, sent).last, t.told)
  BY <1>5, <1>6, UsagesTyped DEF PlaceOf, Fit
<1>13. Answers(e, sent, d, c, t)
  BY <1>4, <1>7, <1>8, <1>9, <1>11, <1>12, OneAnswers
<1>14. QED BY <1>13 DEF t

\* Whatever an openai backend sends, its reader answers it.
LEMMA OpenAiAnswers ==
  ASSUME egress = "openai", SentOK("openai", sent), NEW d, Ready("openai", sent, d), OpenAiSends
  PROVE  \E c, t : Send(c, t) /\ Answers("openai", sent, d, c, t)
<1> DEFINE e == "openai"
           Tools == {{}} \cup {{tool} : tool \in OpenAiTools}
<1>1. {} \in Counted /\ {Counts} \in Counted /\ Reported({}) = ZeroUsage
  BY UsagesTyped DEF Counted
<1>2. \A tool \in OpenAiTools : tool.index \in Nat
  <2>1. sent.used \subseteq Nat /\ NextIndex \subseteq Nat
    BY IndicesAreNumbers DEF SentOK, NextIndex
  <2>2. ASSUME NEW i \in Nat, NEW b \in BOOLEAN PROVE [index |-> i, named |-> b].index \in Nat
    OBVIOUS
  <2>3. \A i \in sent.used : [index |-> i, named |-> FALSE].index \in Nat
    BY <2>1, <2>2
  <2>4. \A i \in NextIndex : [index |-> i, named |-> TRUE].index \in Nat
    BY <2>1, <2>2
  <2>5. \A tool \in OpenAiTools : \/ \E i \in sent.used : tool = [index |-> i, named |-> FALSE]
                                  \/ \E i \in NextIndex : tool = [index |-> i, named |-> TRUE]
    BY Zenon DEF OpenAiTools
  <2>6. QED BY Zenon, <2>3, <2>4, <2>5
<1>3. ASSUME Streaming, NEW r \in BOOLEAN, NEW x \in BOOLEAN, NEW f \in BOOLEAN, NEW k \in Tools,
             Send([OpenAiChunk EXCEPT !.reasoning = r, !.content = x, !.tool = k, !.finish = f],
                  [sent EXCEPT !.at = IF f THEN "finished" ELSE "open",
                               !.used = @ \cup {tool.index : tool \in k}])
      PROVE  \E c, t : Send(c, t) /\ Answers(e, sent, d, c, t)
  <2> DEFINE c == [OpenAiChunk EXCEPT !.reasoning = r, !.content = x, !.tool = k, !.finish = f]
             w == IF f THEN "finished" ELSE "open"
             v == sent.used \cup {tool.index : tool \in k}
             t == [sent EXCEPT !.at = w, !.used = v]
  <2>1. c.usage = {} /\ c.tool = k /\ c.finish = f
    BY DEF OpenAiChunk
  <2>2. \A tool \in k : tool.index \in Nat
    BY <1>2
  <2>3. k # {} => The(k).index \in Nat
    <3>1. k # {} => The(k) \in k
      BY DEF The
    <3>2. QED BY <2>2, <3>1
  <2>4. v \subseteq Nat
    BY <2>2 DEF SentOK
  <2>5. Send(c, t)
    BY <1>3
  <2>6. sent.told = ZeroUsage
    BY <1>3, MidwayIs DEF Streaming
  <2>7. w \in {"finished", "open"} /\ (w = "finished" <=> f)
    BY <1>3
  <2> HIDE DEF c, v, w
  <2>8. t = [at |-> w, text |-> sent.text, open |-> sent.open, used |-> v, told |-> ZeroUsage]
    <3> DEFINE q == [sent EXCEPT !.at = w]
    <3>1. q = [at |-> w, text |-> sent.text, open |-> sent.open, used |-> sent.used, told |-> ZeroUsage]
      BY <2>6, Tells DEF At
    <3>2. t = [q EXCEPT !.used = v]
      BY Zenon
    <3> HIDE DEF q, t
    <3>3. QED BY <3>1, <3>2
  <2> HIDE DEF t
  <2>9. SentOK(e, t)
    BY <2>4, <2>7, <2>8 DEF SentOK, Ats
  <2>10. \/ f /\ t.at = "finished" /\ t.told = Reported({})
         \/ ~f /\ t.at = "open"
    BY <1>1, <2>7, <2>8
  <2>11. Answers(e, sent, d, c, t)
    BY <1>1, <1>3, <2>1, <2>3, <2>9, <2>10, OpenAiChunkAnswers
  <2>12. QED BY <2>5, <2>11
<1>4. CASE Streaming /\ Send([OpenAiChunk EXCEPT !.finish = TRUE, !.usage = {Counts}],
                             Telling(At(sent, "counted"), {Counts}))
  <2> DEFINE c == [OpenAiChunk EXCEPT !.finish = TRUE, !.usage = {Counts}]
             t == Telling(At(sent, "counted"), {Counts})
  <2>1. c.usage = {Counts} /\ c.finish /\ c.tool = {}
    BY DEF OpenAiChunk
  <2>2. sent.told = ZeroUsage
    BY <1>4, MidwayIs DEF Streaming
  <2>3. SentOK(e, t) /\ t.at = "counted" /\ t.told = Reported({Counts})
    BY <1>1, <2>2, CountedIs
  <2>4. Send(c, t)
    BY <1>4
  <2> HIDE DEF c, t
  <2>5. Answers(e, sent, d, c, t)
    BY <1>1, <1>4, <2>1, <2>3, OpenAiChunkAnswers
  <2>6. QED BY <2>4, <2>5
<1>5. CASE sent.at = "finished" /\ Send([OpenAiChunk EXCEPT !.choice = FALSE, !.usage = {Counts}],
                                        Telling(At(sent, "counted"), {Counts}))
  <2> DEFINE c == [OpenAiChunk EXCEPT !.choice = FALSE, !.usage = {Counts}]
             t == Telling(At(sent, "counted"), {Counts})
  <2>1. c.usage = {Counts} /\ ~c.finish /\ c.tool = {} /\ ~c.choice /\ ~c.reasoning /\ ~c.content
    BY DEF OpenAiChunk
  <2>2. Send(c, t)
    BY <1>5
  <2> HIDE DEF c
  <2>3. Answers(e, sent, d, c, t)
    BY <1>5, <2>1, OpenAiCountsAnswer
  <2> HIDE DEF t
  <2>4. QED BY <2>2, <2>3
<1>6. CASE Streaming /\ Send([OpenAiChunk EXCEPT !.choice = FALSE], At(sent, "failed"))
  <2> DEFINE c == [OpenAiChunk EXCEPT !.choice = FALSE]
             t == At(sent, "failed")
  <2>1. c.usage = {} /\ ~c.finish /\ c.tool = {}
    BY DEF OpenAiChunk
  <2>2. sent.told = ZeroUsage
    BY <1>6, MidwayIs DEF Streaming
  <2>3. t = [at |-> "failed", text |-> sent.text, open |-> sent.open, used |-> sent.used, told |-> ZeroUsage]
    BY <2>2, Tells
  <2>4. Send(c, t)
    BY <1>6
  <2> HIDE DEF c, t
  <2>5. SentOK(e, t) /\ t.at = "failed"
    BY <2>3 DEF SentOK, Ats
  <2>6. Answers(e, sent, d, c, t)
    BY <1>1, <1>6, <2>1, <2>5, OpenAiChunkAnswers
  <2>7. QED BY <2>4, <2>6
<1> HIDE DEF e
<1>7. QED BY <1>3, <1>4, <1>5, <1>6 DEF OpenAiSends, e

\* Whatever the backend, its reader tells the tale of its stream.
LEMMA BackendAnswers ==
  ASSUME frame = {}, SentOK(egress, sent), NEW d, Ready(egress, sent, d), BackendSends
  PROVE  /\ egress' = egress
         /\ \E c, t : Send(c, t) /\ Answers(egress, sent, d, c, t)
<1>1. egress' = egress
  BY DEF BackendSends
<1>2. CASE OpenAiSends
  <2>1. egress = "openai"
    BY <1>2 DEF OpenAiSends
  <2>2. QED BY <1>1, <1>2, <2>1, OpenAiAnswers
<1>3. CASE GeminiSends
  <2>1. egress = "gemini"
    BY <1>3 DEF GeminiSends
  <2>2. QED BY <1>1, <1>3, <2>1, GeminiAnswers
<1>4. CASE CohereSends
  <2>1. egress = "cohere"
    BY <1>4 DEF CohereSends
  <2>2. QED BY <1>1, <1>4, <2>1, CohereAnswers
<1>5. CASE BedrockSends
  <2>1. egress = "bedrock"
    BY <1>5 DEF BedrockSends
  <2>2. QED BY <1>1, <1>5, <2>1, BedrockAnswers
<1>6. CASE ResponsesSends
  <2>1. egress = "responses"
    BY <1>6 DEF ResponsesSends
  <2>2. QED BY <1>1, <1>6, <2>1, ResponsesAnswers
<1>7. CASE AnthropicSends
  <2>1. egress = "anthropic"
    BY <1>7 DEF AnthropicSends
  <2>2. QED BY <1>1, <1>7, <2>1, AnthropicAnswers
<1>8. QED BY <1>1, <1>2, <1>3, <1>4, <1>5, <1>6, <1>7 DEF BackendSends

-----------------------------------------------------------------------------
(* The invariant of the stream.                                            *)

\* Where the translator has come: to g, which is where the backend is, or
\* will be when the frame on its way has been read.
Reached(g) ==
  /\ g \in Places /\ CountsOf(xlate, g)
  /\ ~Verbatim => Flags(xlate, g.at)
  /\ ~xlate.aborted =>
       /\ Fit(g.last, sent.told)
       /\ frame = {} => g = PlaceOf(egress, sent) /\ Ready(egress, sent, decode)
       /\ \A c \in frame :
            LET read == ReadBy(egress, decode, c)
            IN  /\ read.out \in Seq(Events)
                /\ Run(Tale, g, read.out, PlaceOf(egress, sent))
                /\ Ready(egress, sent, read.st)

\* Where the client is when it has read what has been written.
Hears(q) == q \in Phases /\ Run(Hearing(ingress), phase, out, q)
Builds(b) == Run(Framing(TRUE), array, out, b)

\* Every part of the state is what it may be.
StreamTyped ==
  /\ egress \in Protocols /\ ingress \in Protocols
  /\ SentOK(egress, sent) /\ Sound(egress, decode)
  /\ frame = {} \/ \E c : frame = {c}
  /\ xlate \in Translator /\ xlate.out = <<>>
  /\ body \in {"flowing", "ended", "broken", "left"} /\ first \in BOOLEAN
  /\ framer \in {"none", "empty", "started"} /\ (framer # "none" => ingress = "gemini")
  /\ ledger \in [sink : BOOLEAN, billed : Usage, faults : Nat, refunds : Nat]
  /\ out \in Seq(AnyFrame) /\ phase \in Phases /\ array \in Arrays
  /\ \A i \in DOMAIN shown : i \in Nat /\ shown[i] \in Blocks \cup {"done"}

\* While the stream flows: the translator has come to some place g of the
\* tale, and what has been written takes the client to its phase there.
WhileFlowing ==
  body = "flowing" =>
    /\ ledger = Unsettled
    /\ \E g, q : /\ Reached(g) /\ Hears(q)
                 /\ ~Verbatim /\ ~xlate.aborted => q = PhaseAt(ingress, g.at, xlate.emitted)
    /\ framer = "empty" => out = <<>> /\ array = "unread"
    /\ framer = "started" => Builds("open")

\* Once the backend has hung up: what has been written takes the client to
\* the end the backend told, and the books say the same.
OnceEnded ==
  body = "ended" =>
    /\ \E q : /\ Hears(q)
              /\ xlate.aborted => q = "failed"
              /\ ~Verbatim /\ ~xlate.aborted => /\ q = "failed" <=> xlate.failed
                                                /\ Complete => q = "stopped"
    /\ ~xlate.aborted /\ sent.at = "failed" /\ egress # "openai" => xlate.failed
    /\ framer # "none" => Builds("shut")
    /\ ledger.refunds = 0 /\ ledger.faults = IF Failed(xlate) THEN 1 ELSE 0
    /\ Failed(xlate) => ledger.billed = ZeroUsage
    /\ ~Failed(xlate) /\ Complete => ledger.billed = sent.told

\* Once the connection has broken the client hears of a failure, or its own
\* connection has broken.
OnceBroken ==
  body = "broken" =>
    /\ Hears("failed")
    /\ framer # "none" => Builds("shut") \/ (ledger.refunds = 1 /\ out = <<>>)
    /\ ledger.faults + ledger.refunds = 1

\* Once the client has gone nothing is held against the lane.
OnceLeft ==
  body = "left" =>
    /\ \E q : Hears(q)
    /\ framer # "none" /\ out # <<>> => \E b : Builds(b)
    /\ ledger.faults = 0 /\ ledger.refunds = 0

\* No count that has been told or billed is one the backend did not tell.
Honest ==
  /\ Fit(ledger.billed, sent.told)
  /\ ~Failed(xlate) => Fit(xlate.last, sent.told)

StreamInv == StreamTyped /\ WhileFlowing /\ OnceEnded /\ OnceBroken /\ OnceLeft /\ Honest

\* Zero and what was told both fit.
LEMMA FitTyped ==
  /\ \A u, told : u = ZeroUsage => Fit(u, told)
  /\ \A u : Fit(u, u)
BY UsagesTyped DEF Fit

\* What a place says of the backend.
LEMMA PlaceSays ==
  ASSUME NEW e, NEW s, SentOK(e, s)
  PROVE  /\ PlaceOf(e, s) \in Places /\ Fit(PlaceOf(e, s).last, s.told)
         /\ s.at \in {"finished", "counted"} =>
              PlaceOf(e, s).at = "over" /\ PlaceOf(e, s).last = s.told
         /\ s.at = "failed" /\ e # "openai" => PlaceOf(e, s).at = "failed"
<1>1. PlaceOf(e, s) \in Places
  BY PlaceTyped
<1>2. PlaceOf(e, s).last \in {ZeroUsage, s.told}
  BY DEF PlaceOf
<1>3. QED BY <1>1, <1>2, FitTyped DEF PlaceOf

\* Some reader is ready for any backend.
LEMMA SomeReady ==
  ASSUME NEW e, NEW s, SentOK(e, s)
  PROVE  \E d : Ready(e, s, d)
<1> DEFINE d == [started |-> s.at # "idle", text |-> FALSE, text_index |-> NoIndex,
                 thinking |-> FALSE, reasoning_seen |-> FALSE, stop_pending |-> FALSE,
                 tools |-> <<>>, texts |-> {}]
<1>1. d \in Memory /\ d.started = (s.at # "idle") /\ d.text = FALSE /\ d.tools = <<>> /\ d.texts = {}
  BY ToolMapsTyped DEF Memory
<1> HIDE DEF d
<1>2. IsFiniteSet({}) /\ Cardinality({}) = 0
  BY FS_EmptySet
<1>3. IsFiniteSet(DOMAIN d.tools) /\ Cardinality(DOMAIN d.tools) = 0
  BY <1>1, <1>2, ToolMapsTyped
<1>4. Sound(e, d)
  BY <1>1, <1>2, <1>3, CapIsPositive DEF Sound
<1>5. Ready(e, s, d)
  BY <1>1, <1>4 DEF Ready
<1>6. QED BY <1>5

\* The invariant holds before anything has come.
LEMMA StreamStarts == Init => StreamInv
<1> SUFFICES ASSUME Init PROVE StreamInv
  OBVIOUS
<1>1. sent = [at |-> "idle", text |-> FALSE, open |-> <<>>, used |-> {}, told |-> ZeroUsage]
  BY DEF Init, Unsent
<1>2. SentOK(egress, sent)
  BY <1>1, UsagesTyped DEF SentOK, Ats
<1>3. decode \in Memory /\ ~decode.started /\ ~decode.text /\ decode.tools = <<>> /\ decode.texts = {}
  BY ToolMapsTyped DEF Init, Fresh, Memory
<1>4. Sound(egress, decode) /\ Ready(egress, sent, decode)
  <2>1. IsFiniteSet({}) /\ Cardinality({}) = 0
    BY FS_EmptySet
  <2>2. IsFiniteSet(DOMAIN decode.tools) /\ Cardinality(DOMAIN decode.tools) = 0
    BY <1>3, <2>1, ToolMapsTyped
  <2>3. Sound(egress, decode)
    BY <1>3, <2>1, <2>2, CapIsPositive DEF Sound
  <2>4. QED BY <1>1, <1>3, <2>3 DEF Ready
<1>5. /\ xlate \in Translator /\ xlate.out = <<>> /\ xlate.start = ZeroUsage /\ xlate.last = ZeroUsage
      /\ ~xlate.failed /\ ~xlate.stopped /\ ~xlate.emitted /\ ~xlate.pending /\ ~xlate.aborted
  BY UsagesTyped, ShortSeqs DEF Init, Idle, Unwritten, Translator, Writer
<1>6. ledger \in [sink : BOOLEAN, billed : Usage, faults : Nat, refunds : Nat]
      /\ ledger.billed = ZeroUsage
  BY UsagesTyped DEF Init, Unsettled
<1>7. StreamTyped
  <2>1. framer \in {"none", "empty", "started"} /\ (framer # "none" => ingress = "gemini")
    BY DEF Init
  <2>2. \A i \in DOMAIN shown : i \in Nat /\ shown[i] \in Blocks \cup {"done"}
    <3>1. shown = <<>>
      BY DEF Init
    <3>2. DOMAIN shown = {}
      BY <3>1, ToolMapsTyped
    <3>3. QED BY <3>2
  <2>3. out \in Seq(AnyFrame) /\ phase \in Phases /\ array \in Arrays
    BY ShortSeqs DEF Init, Phases, Arrays
  <2>4. egress \in Protocols /\ ingress \in Protocols /\ frame = {} /\ body = "flowing" /\ first \in BOOLEAN
    BY DEF Init
  <2>5. QED BY <1>2, <1>4, <1>5, <1>6, <2>1, <2>2, <2>3, <2>4 DEF StreamTyped
<1>8. Reached(PlaceOf(egress, sent)) /\ PlaceOf(egress, sent).at = "before"
  <2>1. /\ PlaceOf(egress, sent).at = "before" /\ PlaceOf(egress, sent).start = ZeroUsage
        /\ PlaceOf(egress, sent).last = ZeroUsage
    BY <1>1 DEF PlaceOf
  <2>2. frame = {}
    BY DEF Init
  <2>3. PlaceOf(egress, sent) \in Places /\ Fit(PlaceOf(egress, sent).last, sent.told)
    BY <1>2, PlaceSays
  <2>4. CountsOf(xlate, PlaceOf(egress, sent)) /\ Flags(xlate, PlaceOf(egress, sent).at)
    BY <1>5, <2>1 DEF CountsOf, Flags
  <2>5. QED BY <1>4, <2>1, <2>2, <2>3, <2>4 DEF Reached
<1>9. Hears("waiting") /\ PhaseAt(ingress, "before", xlate.emitted) = "waiting"
  BY RunNothing DEF Hears, Init, Phases, PhaseAt
<1>10. WhileFlowing
  BY <1>8, <1>9 DEF WhileFlowing, Init
<1>11. Honest
  BY <1>5, <1>6, FitTyped DEF Honest
<1>12. OnceEnded /\ OnceBroken /\ OnceLeft
  BY DEF OnceEnded, OnceBroken, OnceLeft, Init
<1>13. QED BY <1>7, <1>10, <1>11, <1>12 DEF StreamInv

\* A backend sends a frame.
LEMMA BackendKeeps ==
  ASSUME StreamInv, Backend
  PROVE  StreamInv'
<1>1. /\ body = "flowing" /\ out = <<>> /\ BackendSends
      /\ ingress' = ingress /\ decode' = decode /\ framer' = framer /\ xlate' = xlate /\ body' = body
      /\ first' = first /\ ledger' = ledger /\ out' = out /\ phase' = phase /\ shown' = shown
      /\ array' = array
  BY DEF Backend, client
<1>2. SentOK(egress, sent) /\ Sound(egress, decode) /\ frame = {}
  BY <1>1 DEF StreamInv, StreamTyped, BackendSends
<1>3. PICK g, q : /\ Reached(g) /\ Hears(q)
                  /\ ~Verbatim /\ ~xlate.aborted => q = PhaseAt(ingress, g.at, xlate.emitted)
  BY <1>1 DEF StreamInv, WhileFlowing
<1>4. CASE xlate.aborted
  <2>1. PICK d : Ready(egress, sent, d)
    BY <1>2, SomeReady
  <2>2. egress' = egress
    BY <1>1, <1>2, <2>1, BackendAnswers
  <2>3. PICK c, t : Send(c, t) /\ Answers(egress, sent, d, c, t)
    BY <1>1, <1>2, <2>1, BackendAnswers
  <2>4. frame' = {c} /\ sent' = t /\ SentOK(egress, t)
    BY <2>3 DEF Send, Answers
  <2>5. StreamTyped'
    BY <1>1, <2>2, <2>4 DEF StreamInv, StreamTyped
  <2>6. Reached(g)'
    BY <1>1, <1>3, <1>4, <2>2 DEF Reached, Verbatim, Flags, Binary
  <2>7. Hears(q)'
    BY <1>1, <1>3 DEF Hears
  <2>8. WhileFlowing'
    BY <1>1, <1>4, <2>6, <2>7 DEF StreamInv, WhileFlowing, Builds
  <2>9. Honest'
    BY <1>1, <1>4, FitTyped DEF StreamInv, WhileFlowing, Honest, Failed, Unsettled
  <2>10. QED BY <1>1, <2>5, <2>8, <2>9 DEF StreamInv, OnceEnded, OnceBroken, OnceLeft
<1>5. CASE ~xlate.aborted
  <2>1. g = PlaceOf(egress, sent) /\ Ready(egress, sent, decode)
    BY <1>2, <1>3, <1>5 DEF Reached
  <2>2. egress' = egress
    BY <1>1, <1>2, <2>1, BackendAnswers
  <2>3. PICK c, t : Send(c, t) /\ Answers(egress, sent, decode, c, t)
    BY <1>1, <1>2, <2>1, BackendAnswers
  <2>4. frame' = {c} /\ sent' = t /\ SentOK(egress, t)
    BY <2>3 DEF Send, Answers
  <2>5. StreamTyped'
    BY <1>1, <2>2, <2>4 DEF StreamInv, StreamTyped
  <2>6. Reached(g)'
    <3>1. g \in Places /\ CountsOf(xlate, g) /\ (~Verbatim => Flags(xlate, g.at))
      BY <1>3 DEF Reached
    <3>2. (~Verbatim => Flags(xlate, g.at))'
      BY <1>1, <2>2, <3>1 DEF Verbatim, Flags, Binary
    <3>3. /\ ReadBy(egress, decode, c).out \in Seq(Events)
          /\ Run(Tale, g, ReadBy(egress, decode, c).out, PlaceOf(egress, t))
          /\ Ready(egress, t, ReadBy(egress, decode, c).st)
          /\ Fit(g.last, t.told)
      BY <2>1, <2>3 DEF Answers
    <3>4. QED BY <1>1, <2>2, <2>4, <3>1, <3>2, <3>3 DEF Reached
  <2>7. Hears(q)'
    BY <1>1, <1>3 DEF Hears
  <2>8. (~Verbatim /\ ~xlate.aborted => q = PhaseAt(ingress, g.at, xlate.emitted))'
    BY <1>1, <1>3, <2>2 DEF Verbatim
  <2>9. WhileFlowing'
    BY <1>1, <2>6, <2>7, <2>8 DEF StreamInv, WhileFlowing, Builds
  <2>10. Honest'
    <3>1. Fit(g.last, t.told) /\ xlate.last = g.last
      BY <1>3, <2>1, <2>3 DEF Answers, Reached, CountsOf
    <3>2. Fit(ledger.billed, t.told)
      BY <1>1, FitTyped DEF StreamInv, WhileFlowing, Unsettled
    <3>3. QED BY <1>1, <2>4, <3>1, <3>2 DEF Honest
  <2>11. QED BY <1>1, <2>5, <2>9, <2>10 DEF StreamInv, OnceEnded, OnceBroken, OnceLeft
<1>6. QED BY <1>4, <1>5

\* The bytes that arrive cannot be a frame.
LEMMA AbortKeeps ==
  ASSUME StreamInv, Abort
  PROVE  StreamInv'
<1>1. /\ body = "flowing" /\ frame = {} /\ first' = TRUE
      /\ xlate' = [xlate EXCEPT !.aborted = TRUE]
      /\ egress' = egress /\ sent' = sent /\ ingress' = ingress /\ decode' = decode /\ framer' = framer
      /\ frame' = frame /\ body' = body /\ ledger' = ledger /\ out' = out /\ phase' = phase
      /\ shown' = shown /\ array' = array
  BY DEF Abort, stream, client
<1>2. PICK g, q : /\ Reached(g) /\ Hears(q)
                  /\ ~Verbatim /\ ~xlate.aborted => q = PhaseAt(ingress, g.at, xlate.emitted)
  BY <1>1 DEF StreamInv, WhileFlowing
<1>3. xlate \in Translator /\ xlate.out = <<>>
  BY DEF StreamInv, StreamTyped
<1>4. /\ xlate' \in Translator /\ xlate'.out = <<>> /\ xlate'.aborted
      /\ xlate'.start = xlate.start /\ xlate'.last = xlate.last /\ xlate'.failed = xlate.failed
      /\ xlate'.stopped = xlate.stopped /\ xlate'.emitted = xlate.emitted
      /\ xlate'.pending = xlate.pending
  BY <1>1, <1>3 DEF Translator
<1>5. StreamTyped'
  BY <1>1, <1>4 DEF StreamInv, StreamTyped
<1>6. Reached(g)'
  BY <1>1, <1>2, <1>4 DEF Reached, CountsOf, Flags, Verbatim, Binary
<1>7. Hears(q)'
  BY <1>1, <1>2 DEF Hears
<1>8. WhileFlowing'
  BY <1>1, <1>4, <1>6, <1>7 DEF StreamInv, WhileFlowing, Builds
<1>9. Honest'
  BY <1>1, <1>4 DEF StreamInv, Honest, Failed
<1>10. QED BY <1>1, <1>5, <1>8, <1>9 DEF StreamInv, OnceEnded, OnceBroken, OnceLeft

\* The body is dropped.
LEMMA DropKeeps ==
  ASSUME StreamInv, Drop
  PROVE  StreamInv'
<1>1. /\ body \in {"flowing", "broken"} /\ ledger.sink
      /\ body' = IF body = "flowing" THEN "left" ELSE body
      /\ ledger' = Billed(ledger, xlate)
      /\ egress' = egress /\ sent' = sent /\ ingress' = ingress /\ decode' = decode /\ framer' = framer
      /\ frame' = frame /\ xlate' = xlate /\ first' = first /\ out' = out /\ phase' = phase
      /\ shown' = shown /\ array' = array
  BY DEF Drop, stream, client
<1>2. /\ ledger \in [sink : BOOLEAN, billed : Usage, faults : Nat, refunds : Nat]
      /\ xlate \in Translator
  BY DEF StreamInv, StreamTyped
<1>3. /\ ledger' \in [sink : BOOLEAN, billed : Usage, faults : Nat, refunds : Nat]
      /\ ledger'.faults = ledger.faults /\ ledger'.refunds = ledger.refunds
      /\ ledger'.billed = IF Failed(xlate) THEN ledger.billed ELSE xlate.last
  <2>1. xlate.last \in Usage
    BY <1>2 DEF Translator
  <2> DEFINE b == IF Failed(xlate) THEN ledger.billed ELSE xlate.last
  <2>2. ledger' = [ledger EXCEPT !.sink = FALSE, !.billed = b]
    BY <1>1 DEF Billed
  <2>3. b \in Usage
    BY <1>2, <2>1
  <2> HIDE DEF b
  <2>4. QED BY <1>2, <2>2, <2>3 DEF b
<1>4. StreamTyped'
  BY <1>1, <1>3 DEF StreamInv, StreamTyped
<1>5. Honest'
  BY <1>1, <1>3 DEF StreamInv, Honest
<1>6. CASE body = "flowing"
  <2>1. \E q : Hears(q)
    BY <1>6 DEF StreamInv, WhileFlowing
  <2>2. framer # "none" /\ out # <<>> => \E b : Builds(b)
    BY <1>6 DEF StreamInv, StreamTyped, WhileFlowing
  <2>3. ledger.faults = 0 /\ ledger.refunds = 0
    BY <1>6 DEF StreamInv, WhileFlowing, Unsettled
  <2>4. OnceLeft'
    BY <1>1, <1>3, <2>1, <2>2, <2>3 DEF OnceLeft, Hears, Builds
  <2>5. QED BY <1>1, <1>4, <1>5, <1>6, <2>4 DEF StreamInv, WhileFlowing, OnceEnded, OnceBroken
<1>7. CASE body = "broken"
  <2>1. OnceBroken'
    BY <1>1, <1>3, <1>7 DEF StreamInv, OnceBroken, Hears, Builds
  <2>2. QED BY <1>1, <1>4, <1>5, <1>7, <2>1 DEF StreamInv, WhileFlowing, OnceEnded, OnceLeft
<1>8. QED BY <1>1, <1>6, <1>7

\* The opening bracket, and the frames after it.
LEMMA BracketTyped ==
  /\ Frame("[") \in AnyFrame /\ Frame("]") \in AnyFrame
  /\ Frame("[").type = "[" /\ Frame("]").type = "]"
  /\ Frames \subseteq AnyFrame
BY DEF Frame, AnyFrame, Brackets

\* The brackets of the array say nothing of the message.
LEMMA BracketHeard ==
  ASSUME NEW i, NEW p \in Phases, NEW f \in {Frame("["), Frame("]")}
  PROVE  Run(Hearing(i), p, <<f>>, p)
<1>1. f \in AnyFrame /\ f.type \in {"[", "]"}
  BY BracketTyped
<1>2. InOrder(p, f) /\ HeardIn(i, p, f) = p
  BY <1>1 DEF InOrder, HeardIn
<1>3. <<p, f, p>> \in Hearing(i)
  BY <1>1, <1>2, HearingIs
<1>4. QED BY <1>3, RunOne

\* Frames of a writer are frames a client may read.
LEMMA AnySeqs ==
  \A s : s \in Seq(Frames) => s \in Seq(AnyFrame)
<1>1. Frames \subseteq AnyFrame
  BY BracketTyped
<1>2. QED BY <1>1

\* The opening of the array says nothing of the message.
LEMMA OpenedHeard ==
  ASSUME NEW i, NEW p \in Phases
  PROVE  Opened \in Seq(AnyFrame) /\ Run(Hearing(i), p, Opened, p)
<1>1. \/ Opened = <<>>
      \/ Opened = <<Frame("[")>>
  BY Zenon DEF Opened, Only
<1> DEFINE f == Frame("[")
<1>2. f \in AnyFrame /\ f \in {Frame("["), Frame("]")} /\ (Opened = <<>> \/ Opened = <<f>>)
  BY <1>1, BracketTyped
<1> HIDE DEF f
<1>3. Run(Hearing(i), p, <<f>>, p) /\ Run(Hearing(i), p, <<>>, p)
  BY <1>2, BracketHeard, RunNothing
<1>4. <<f>> \in Seq(AnyFrame) /\ <<>> \in Seq(AnyFrame)
  BY <1>2, ShortSeqs
<1>5. QED BY <1>2, <1>3, <1>4

\* It opens the array if it is not open.
LEMMA OpenedBuilds ==
  ASSUME framer \in {"empty", "started"},
         framer = "empty" => array = "unread", framer = "started" => array = "open"
  PROVE  Run(Framing(TRUE), array, Opened, "open")
<1>1. CASE framer = "empty"
  <2>1. Opened = <<Frame("[")>>
    BY Zenon, <1>1 DEF Opened, Only
  <2>2. ArrayAfter("unread", Frame("[")) = "open"
    BY BracketTyped DEF ArrayAfter
  <2>3. <<"unread", Frame("["), ArrayAfter("unread", Frame("["))>> \in Framing(TRUE)
    BY BracketTyped, FramingIs DEF Arrays
  <2>4. QED BY <1>1, <2>1, <2>2, <2>3, RunOne
<1>2. CASE framer = "started"
  <2>1. framer # "empty"
    BY <1>2
  <2>2. Opened = <<>>
    BY Zenon, <2>1 DEF Opened, Only
  <2>3. QED BY <1>2, <2>2, RunNothing
<1>3. QED BY <1>1, <1>2

\* Frames for a client who has read all before.
LEMMA FramedLeads ==
  ASSUME NEW p \in Phases, NEW q, NEW frames \in Seq(Frames), Run(Hearing(ingress), p, frames, q),
         framer \in {"none", "empty", "started"}, Framed(frames),
         framer = "empty" => array = "unread", framer = "started" => array = "open"
  PROVE  /\ framer' \in {"none", "empty", "started"} /\ (framer' # "none" <=> framer # "none")
         /\ out' \in Seq(AnyFrame) /\ Run(Hearing(ingress), p, out', q)
         /\ framer' = "empty" => out' = <<>> /\ array = "unread"
         /\ framer' = "started" => Run(Framing(TRUE), array, out', "open")
<1>1. /\ framer' = IF framer = "empty" /\ frames # <<>> THEN "started" ELSE framer
      /\ out' = IF frames = <<>> THEN <<>> ELSE Opened \o frames
  BY DEF Framed
<1>2. CASE frames = <<>>
  <2>1. framer' = framer /\ out' = <<>>
    BY <1>1, <1>2
  <2>2. QED BY <1>2, <2>1, RunNothing, ShortSeqs
<1>3. CASE frames # <<>>
  <2>1. framer' = (IF framer = "empty" THEN "started" ELSE framer) /\ out' = Opened \o frames
    BY <1>1, <1>3
  <2>2. frames \in Seq(AnyFrame) /\ Opened \in Seq(AnyFrame) /\ Run(Hearing(ingress), p, Opened, p)
    BY AnySeqs, OpenedHeard
  <2>3. Run(Hearing(ingress), p, Opened \o frames, q)
    BY <2>2, RunBoth
  <2>4. ASSUME framer # "none"
        PROVE  Run(Framing(TRUE), array, Opened \o frames, "open")
    <3>1. Run(Framing(TRUE), array, Opened, "open")
      BY <2>4, OpenedBuilds
    <3>2. Run(Framing(TRUE), "open", frames, "open")
      BY FramesInside DEF Arrays
    <3>3. QED BY <2>2, <3>1, <3>2, RunBoth
  <2>5. Opened \o frames \in Seq(AnyFrame)
    BY <2>2
  <2>6. QED BY <2>1, <2>3, <2>4, <2>5
<1>4. QED BY <1>2, <1>3

\* The end of the array.
LEMMA ArrayEndLeads ==
  ASSUME ingress = "gemini", NEW p \in Phases, NEW failed \in BOOLEAN, framer \in {"empty", "started"},
         framer = "empty" => array = "unread", framer = "started" => array = "open"
  PROVE  /\ ArrayEnd(failed) \in Seq(AnyFrame)
         /\ Run(Hearing(ingress), p, ArrayEnd(failed), IF failed THEN "failed" ELSE p)
         /\ Run(Framing(TRUE), array, ArrayEnd(failed), "shut")
<1> DEFINE m == Only(failed, StreamError)
           z == <<Frame("]")>>
           q == IF failed THEN "failed" ELSE p
<1>1. m \in {<<>>, <<StreamError>>} /\ (failed => m = <<StreamError>>) /\ (~failed => m = <<>>)
  BY Zenon DEF Only
<1>2. m \in Seq(Frames) /\ m \in Seq(AnyFrame) /\ z \in Seq(AnyFrame) /\ q \in Phases
  BY <1>1, FramesTyped, ShortSeqs, AnySeqs, BracketTyped DEF Phases
<1>3. Run(Hearing(ingress), p, m, q)
  <2>1. CASE failed
    <3>1. Unwritten \in Writer /\ ingress \in Protocols
      BY DEF Unwritten, Writer, Protocols
    <3>2. Run(Hearing(ingress), p, <<StreamError>>, "failed")
      BY <3>1, ErrorHeard
    <3>3. QED BY <1>1, <2>1, <3>2
  <2>2. CASE ~failed
    BY <1>1, <2>2, RunNothing
  <2>3. QED BY <2>1, <2>2
<1>4. Run(Hearing(ingress), q, z, q)
  BY <1>2, BracketHeard
<1>5. Run(Framing(TRUE), "open", m, "open")
  BY <1>2, FramesInside DEF Arrays
<1>6. Run(Framing(TRUE), "open", z, "shut")
  <2>1. ArrayAfter("open", Frame("]")) = "shut"
    BY BracketTyped DEF ArrayAfter
  <2>2. <<"open", Frame("]"), ArrayAfter("open", Frame("]"))>> \in Framing(TRUE)
    BY BracketTyped, FramingIs DEF Arrays
  <2>3. QED BY <2>1, <2>2, RunOne
<1>7. /\ Opened \in Seq(AnyFrame) /\ Run(Hearing(ingress), p, Opened, p)
      /\ Run(Framing(TRUE), array, Opened, "open")
  BY OpenedHeard, OpenedBuilds
<1>8. ArrayEnd(failed) = Opened \o m \o z
  BY DEF ArrayEnd
<1> HIDE DEF m, z, q
<1> DEFINE o == Opened \o m
<1>9. o \in Seq(AnyFrame)
  BY <1>2, <1>7
<1>10. Run(Hearing(ingress), p, o, q)
  BY <1>2, <1>3, <1>7, RunBoth
<1>11. Run(Framing(TRUE), array, o, "open")
  BY <1>2, <1>5, <1>7, RunBoth
<1>12. ArrayEnd(failed) = o \o z
  BY <1>8
<1> HIDE DEF o
<1>13. o \o z \in Seq(AnyFrame)
  BY <1>2, <1>9
<1>14. Run(Hearing(ingress), p, o \o z, q)
  BY <1>2, <1>4, <1>9, <1>10, RunBoth
<1>15. Run(Framing(TRUE), array, o \o z, "shut")
  BY <1>2, <1>6, <1>9, <1>11, RunBoth
<1>16. QED BY <1>12, <1>13, <1>14, <1>15 DEF q

\* A client who has read all that has been written.
LEMMA AllHeard ==
  ASSUME StreamInv, body = "flowing", out = <<>>
  PROVE  /\ \E g : /\ Reached(g)
                   /\ ~Verbatim /\ ~xlate.aborted => phase = PhaseAt(ingress, g.at, xlate.emitted)
         /\ framer = "empty" => array = "unread"
         /\ framer = "started" => array = "open"
<1>1. PICK g, q : /\ Reached(g) /\ Hears(q)
                  /\ ~Verbatim /\ ~xlate.aborted => q = PhaseAt(ingress, g.at, xlate.emitted)
  BY DEF StreamInv, WhileFlowing
<1>2. q = phase
  BY <1>1, RunNothing DEF Hears
<1>3. framer = "started" => array = "open"
  BY RunNothing DEF StreamInv, WhileFlowing, Builds
<1>4. framer = "empty" => array = "unread"
  BY DEF StreamInv, WhileFlowing
<1>5. QED BY <1>1, <1>2, <1>3, <1>4

\* A frame arrives: the client gets what takes it where the translator is.
LEMMA FeedKeeps ==
  ASSUME StreamInv, Feed
  PROVE  StreamInv'
<1> DEFINE fed == Fed(The(frame))
           frames == IF Verbatim /\ ~xlate.aborted THEN <<Frame("Raw")>> ELSE fed.x.out
<1>1. /\ body = "flowing" /\ frame # {} /\ out = <<>> /\ frame' = {} /\ first' = TRUE
      /\ decode' = fed.st /\ xlate' = [fed.x EXCEPT !.out = <<>>] /\ Framed(frames)
      /\ egress' = egress /\ sent' = sent /\ ingress' = ingress /\ body' = body /\ ledger' = ledger
      /\ phase' = phase /\ shown' = shown /\ array' = array
  BY DEF Feed, client
<1>2. PICK c : frame = {c}
  BY <1>1 DEF StreamInv, StreamTyped
<1>3. The(frame) = c
  BY <1>2 DEF The
<1>4. PICK g : /\ Reached(g)
               /\ ~Verbatim /\ ~xlate.aborted => phase = PhaseAt(ingress, g.at, xlate.emitted)
  BY <1>1, AllHeard
<1>5. /\ xlate \in Translator /\ xlate.out = <<>> /\ ingress \in Protocols /\ phase \in Phases
      /\ SentOK(egress, sent)
      /\ framer \in {"none", "empty", "started"}
      /\ framer = "empty" => array = "unread"
      /\ framer = "started" => array = "open"
  BY <1>1, AllHeard DEF StreamInv, StreamTyped
<1> HIDE DEF fed, frames
<1>6. ASSUME NEW h, NEW q, fed.x \in Translator, Sound(egress, fed.st),
             h \in Places, CountsOf(fed.x, h), ~Verbatim => Flags(fed.x, h.at),
             fed.x.aborted = xlate.aborted,
             ~xlate.aborted => h = PlaceOf(egress, sent) /\ Ready(egress, sent, fed.st),
             frames \in Seq(Frames), Run(Hearing(ingress), phase, frames, q), q \in Phases,
             ~Verbatim /\ ~xlate.aborted => q = PhaseAt(ingress, h.at, fed.x.emitted)
      PROVE  StreamInv'
  <2>1. /\ xlate' \in Translator /\ xlate'.out = <<>> /\ xlate'.aborted = xlate.aborted
        /\ xlate'.start = fed.x.start /\ xlate'.last = fed.x.last /\ xlate'.failed = fed.x.failed
        /\ xlate'.stopped = fed.x.stopped /\ xlate'.emitted = fed.x.emitted
        /\ xlate'.pending = fed.x.pending
    BY <1>1, <1>6, ShortSeqs DEF Translator
  <2>2. /\ framer' \in {"none", "empty", "started"} /\ (framer' # "none" <=> framer # "none")
        /\ out' \in Seq(AnyFrame) /\ Run(Hearing(ingress), phase, out', q)
        /\ framer' = "empty" => out' = <<>> /\ array = "unread"
        /\ framer' = "started" => Run(Framing(TRUE), array, out', "open")
    BY <1>1, <1>5, <1>6, FramedLeads
  <2>3. StreamTyped'
    BY <1>1, <1>6, <2>1, <2>2 DEF StreamInv, StreamTyped
  <2>4. CountsOf(xlate', h)
    BY <1>6, <2>1 DEF CountsOf
  <2>5. (~Verbatim => Flags(xlate, h.at))'
    BY <1>1, <1>6, <2>1 DEF Verbatim, Flags, Binary
  <2>6. ~xlate.aborted => Fit(h.last, sent.told)
    BY <1>5, <1>6, PlaceSays
  <2>7. Reached(h)'
    BY <1>1, <1>6, <2>1, <2>4, <2>5, <2>6 DEF Reached
  <2>8. Hears(q)'
    BY <1>1, <1>6, <2>2 DEF Hears
  <2>9. (~Verbatim /\ ~xlate.aborted => q = PhaseAt(ingress, h.at, xlate.emitted))'
    BY <1>1, <1>6, <2>1 DEF Verbatim
  <2>10. WhileFlowing'
    BY <1>1, <2>2, <2>7, <2>8, <2>9 DEF StreamInv, WhileFlowing, Builds
  <2>11. Honest'
    BY <1>1, <1>6, <2>1, <2>4, <2>6 DEF StreamInv, Honest, Failed, CountsOf
  <2>12. QED BY <1>1, <2>3, <2>10, <2>11 DEF StreamInv, OnceEnded, OnceBroken, OnceLeft
<1>7. CASE xlate.aborted
  <2>1. fed = [st |-> decode, x |-> xlate]
    BY <1>7 DEF fed, Fed
  <2>2. fed.st = decode /\ fed.x = xlate /\ frames = <<>>
    BY <1>5, <1>7, <2>1 DEF frames
  <2>3. Run(Hearing(ingress), phase, <<>>, phase) /\ <<>> \in Seq(Frames)
    BY RunNothing, ShortSeqs
  <2>4. Sound(egress, decode)
    BY DEF StreamInv, StreamTyped
  <2>5. QED BY <1>4, <1>5, <1>6, <1>7, <2>2, <2>3, <2>4 DEF Reached
<1>8. CASE ~xlate.aborted
  <2> DEFINE read == ReadBy(egress, decode, c)
             h == PlaceOf(egress, sent)
             x == FoldLeft(Translate, xlate, read.out)
  <2>1. /\ read.out \in Seq(Events) /\ Run(Tale, g, read.out, h) /\ Ready(egress, sent, read.st)
        /\ g \in Places /\ CountsOf(xlate, g) /\ (~Verbatim => Flags(xlate, g.at))
    BY <1>2, <1>4, <1>8 DEF Reached
  <2>2. fed = [st |-> read.st, x |-> x]
    <3>1. Read(c) = read
      BY DEF Read, ReadBy
    <3>2. Fed(c) = [st |-> Read(c).st, x |-> FoldLeft(Translate, xlate, Read(c).out)]
      BY Zenon, <1>8 DEF Fed
    <3>3. QED BY Zenon, <1>3, <3>1, <3>2 DEF fed
  <2>3. Told(phase, g, xlate)
    BY <1>4, <1>5, <1>8, <2>1, RunNothing DEF Told
  <2> HIDE DEF read, h
  <2>4. x \in Translator /\ Told(phase, h, x) /\ ~x.aborted
    BY <1>5, <1>8, <2>1, <2>3, FoldLeads
  <2> HIDE DEF x
  <2>5. fed.st = read.st /\ fed.x = x
    BY <2>2
  <2>6. h \in Places
    BY <1>5, PlaceSays DEF h
  <2>7. Sound(egress, fed.st) /\ Ready(egress, sent, fed.st)
    BY <2>1, <2>5 DEF Ready
  <2>8. CASE Verbatim
    <3>1. frames = <<Frame("Raw")>> /\ Frame("Raw") \in Frames /\ Frame("Raw").type = "Raw"
      BY <1>8, <2>8, FramesTyped DEF frames, Frame
    <3>2. InOrder(phase, Frame("Raw")) /\ HeardIn(ingress, phase, Frame("Raw")) = "reading"
      BY <3>1 DEF InOrder, HeardIn
    <3>3. Run(Hearing(ingress), phase, frames, "reading") /\ "reading" \in Phases /\ frames \in Seq(Frames)
      BY <1>5, <3>1, <3>2, OneHeard, ShortSeqs DEF Phases
    <3>4. CountsOf(fed.x, h) /\ fed.x \in Translator /\ fed.x.aborted = xlate.aborted
      BY <1>8, <2>4, <2>5, <1>5 DEF Told, Translator
    <3>5. QED BY <1>6, <1>8, <2>6, <2>7, <2>8, <3>3, <3>4 DEF h
  <2>9. CASE ~Verbatim
    <3> DEFINE q == PhaseAt(ingress, h.at, x.emitted)
    <3>1. frames = x.out
      BY <2>5, <2>9 DEF frames
    <3>2. CountsOf(x, h) /\ Flags(x, h.at) /\ Run(Hearing(ingress), phase, x.out, q)
      BY <2>4, <2>9 DEF Told
    <3>3. q \in Phases /\ frames \in Seq(Frames)
      BY <2>4, <3>1, PhaseTyped DEF Translator
    <3>4. fed.x \in Translator /\ fed.x.aborted = xlate.aborted
      BY <1>5, <1>8, <2>4, <2>5 DEF Translator
    <3>5. q = PhaseAt(ingress, h.at, fed.x.emitted) /\ CountsOf(fed.x, h) /\ Flags(fed.x, h.at)
          /\ Run(Hearing(ingress), phase, frames, q)
      BY <2>5, <3>1, <3>2
    <3> HIDE DEF q
    <3>6. QED BY <1>6, <1>8, <2>6, <2>7, <2>9, <3>3, <3>4, <3>5 DEF h
  <2>10. QED BY <2>8, <2>9
<1>9. QED BY <1>7, <1>8

Ledgers == [sink : BOOLEAN, billed : Usage, faults : Nat, refunds : Nat]

\* The backend hangs up: the end that is written is the end it told.
LEMMA CloseKeeps ==
  ASSUME StreamInv, Close
  PROVE  StreamInv'
<1> DEFINE x == Finish(xlate)
<1>1. /\ body = "flowing" /\ frame = {} /\ out = <<>> /\ body' = "ended"
      /\ xlate' = [x EXCEPT !.out = <<>>]
      /\ out' = IF framer = "none" THEN x.out ELSE ArrayEnd(xlate.aborted)
      /\ ledger' = Billed([ledger EXCEPT !.faults = @ + (IF Failed(xlate) THEN 1 ELSE 0)], x)
      /\ egress' = egress /\ sent' = sent /\ ingress' = ingress /\ decode' = decode /\ framer' = framer
      /\ frame' = frame /\ first' = first /\ phase' = phase /\ shown' = shown /\ array' = array
  BY DEF Close, stream, client
<1>2. PICK g : /\ Reached(g)
               /\ ~Verbatim /\ ~xlate.aborted => phase = PhaseAt(ingress, g.at, xlate.emitted)
  BY <1>1, AllHeard
<1>3. /\ xlate \in Translator /\ xlate.out = <<>> /\ ingress \in Protocols /\ phase \in Phases
      /\ SentOK(egress, sent) /\ ledger = Unsettled
      /\ framer \in {"none", "empty", "started"} /\ (framer # "none" => ingress = "gemini")
      /\ framer = "empty" => array = "unread"
      /\ framer = "started" => array = "open"
  BY <1>1, AllHeard DEF StreamInv, StreamTyped, WhileFlowing
<1>4. /\ g \in Places /\ CountsOf(xlate, g) /\ (~Verbatim => Flags(xlate, g.at))
      /\ ~xlate.aborted => g = PlaceOf(egress, sent)
  BY <1>1, <1>2 DEF Reached
<1>5. /\ x \in Translator /\ x.last = xlate.last /\ x.failed = xlate.failed
      /\ x.aborted = xlate.aborted
  BY <1>2, <1>3, <1>4, FinishLeads
<1>6. PICK q \in Phases :
             /\ Run(Hearing(ingress), phase, x.out, q)
             /\ xlate.aborted => q = "failed"
             /\ ~xlate.aborted /\ ~Verbatim => /\ q = "failed" <=> g.at = "failed"
                                               /\ g.at = "over" => q = "stopped"
  BY <1>2, <1>3, <1>4, FinishLeads
<1> HIDE DEF x
<1>7. /\ xlate' \in Translator /\ xlate'.out = <<>> /\ xlate'.last = xlate.last
      /\ xlate'.failed = xlate.failed /\ xlate'.aborted = xlate.aborted
      /\ x.out \in Seq(Frames) /\ xlate.last \in Usage /\ xlate.aborted \in BOOLEAN
  BY <1>1, <1>3, <1>5, ShortSeqs DEF Translator
<1>8. /\ ledger' \in [sink : BOOLEAN, billed : Usage, faults : Nat, refunds : Nat]
      /\ ledger'.faults = (IF Failed(xlate) THEN 1 ELSE 0) /\ ledger'.refunds = 0
      /\ ledger'.billed = IF Failed(xlate) THEN ZeroUsage ELSE xlate.last
  <2> DEFINE n == IF Failed(xlate) THEN 1 ELSE 0
             b == IF Failed(xlate) THEN ZeroUsage ELSE xlate.last
             l == [ledger EXCEPT !.faults = @ + n]
  <2>1. ledger \in Ledgers /\ ledger.sink /\ ledger.billed = ZeroUsage /\ ledger.faults = 0 /\ ledger.refunds = 0
    BY <1>3, UsagesTyped DEF Unsettled, Ledgers
  <2>2. n \in {0, 1} /\ b \in Usage
    BY <1>7, UsagesTyped
  <2>3. Failed(x) <=> Failed(xlate)
    BY <1>5 DEF Failed
  <2>4. ledger' = Billed(l, x)
    BY <1>1
  <2>5. n = (IF Failed(xlate) THEN 1 ELSE 0) /\ b = (IF Failed(xlate) THEN ZeroUsage ELSE xlate.last)
    OBVIOUS
  <2> HIDE DEF n, b
  <2>6. /\ l \in Ledgers /\ l.sink /\ l.billed = ZeroUsage /\ l.faults = n /\ l.refunds = 0
    BY <2>1, <2>2 DEF Ledgers
  <2> HIDE DEF l
  <2>7. ledger' = [l EXCEPT !.sink = FALSE, !.billed = b]
    BY <1>5, <2>3, <2>4, <2>5, <2>6 DEF Billed
  <2>8. ledger' \in Ledgers /\ ledger'.faults = n /\ ledger'.refunds = 0 /\ ledger'.billed = b
    BY <2>2, <2>6, <2>7 DEF Ledgers
  <2>9. QED BY <2>5, <2>8 DEF Ledgers
<1>9. PICK r \in Phases :
             /\ Run(Hearing(ingress), phase, out', r) /\ out' \in Seq(AnyFrame)
             /\ xlate.aborted => r = "failed"
             /\ ~xlate.aborted /\ ~Verbatim => /\ r = "failed" <=> g.at = "failed"
                                               /\ g.at = "over" => r = "stopped"
             /\ framer # "none" => Run(Framing(TRUE), array, out', "shut")
  <2>1. CASE framer = "none"
    BY <1>1, <1>6, <1>7, <2>1, AnySeqs
  <2>2. CASE framer # "none"
    <3> DEFINE r == IF xlate.aborted THEN "failed" ELSE phase
    <3>1. ingress = "gemini" /\ framer \in {"empty", "started"} /\ out' = ArrayEnd(xlate.aborted)
      BY <1>1, <1>3, <2>2
    <3>2. /\ ArrayEnd(xlate.aborted) \in Seq(AnyFrame)
          /\ Run(Hearing(ingress), phase, ArrayEnd(xlate.aborted), r)
          /\ Run(Framing(TRUE), array, ArrayEnd(xlate.aborted), "shut")
      BY <1>3, <1>7, <3>1, ArrayEndLeads
    <3>3. ~xlate.aborted /\ ~Verbatim => /\ r = "failed" <=> g.at = "failed"
                                         /\ g.at = "over" => r = "stopped"
      BY <1>2, <1>4, <3>1 DEF PhaseAt, Places, Stages
    <3>4. r \in Phases /\ (xlate.aborted => r = "failed")
      BY <1>3 DEF Phases
    <3> HIDE DEF r
    <3>5. QED BY <3>1, <3>2, <3>3, <3>4
  <2>3. QED BY <2>1, <2>2
<1>10. StreamTyped'
  BY <1>1, <1>7, <1>8, <1>9 DEF StreamInv, StreamTyped
<1>11. ~xlate.aborted => /\ Fit(xlate.last, sent.told)
                         /\ xlate.failed <=> g.at = "failed"
                         /\ Complete => g.at = "over" /\ xlate.last = sent.told
                         /\ sent.at = "failed" /\ egress # "openai" => g.at = "failed"
  BY <1>3, <1>4, PlaceSays DEF CountsOf, Complete
<1>12. Hears(r)'
  BY <1>1, <1>9 DEF Hears
<1>13. OnceEnded'
  <2>1. Failed(xlate)' <=> Failed(xlate)
    BY <1>7 DEF Failed
  <2>2. (Complete <=> Complete') /\ (Verbatim <=> Verbatim')
    BY <1>1 DEF Complete, Verbatim
  <2>3. ~Failed(xlate) => ~xlate.aborted
    BY DEF Failed
  <2>4. ledger'.billed = IF Failed(xlate) THEN ZeroUsage ELSE xlate.last
    BY <1>8
  <2>5. (framer # "none" => Builds("shut"))'
    BY <1>1, <1>9 DEF Builds
  <2>6. /\ Failed(xlate) => ledger'.billed = ZeroUsage
        /\ ~Failed(xlate) /\ Complete => ledger'.billed = sent.told
    BY <1>11, <2>3, <2>4
  <2>7. ~xlate.aborted /\ sent.at = "failed" /\ egress # "openai" => xlate.failed
    BY <1>11
  <2>8. /\ xlate.aborted => r = "failed"
        /\ ~Verbatim /\ ~xlate.aborted => /\ r = "failed" <=> xlate.failed
                                          /\ Complete => r = "stopped"
    BY <1>9, <1>11
  <2>9. QED BY <1>1, <1>7, <1>8, <1>12, <2>1, <2>2, <2>5, <2>6, <2>7, <2>8 DEF OnceEnded
<1>14. Honest'
  <2>1. ~Failed(xlate) => Fit(xlate.last, sent.told)
    BY <1>11 DEF Failed
  <2>2. Fit(ledger'.billed, sent.told)
    BY <1>8, <2>1, FitTyped
  <2>3. QED BY <1>1, <1>7, <2>1, <2>2 DEF Honest, Failed
<1>15. QED BY <1>1, <1>10, <1>13, <1>14 DEF StreamInv, WhileFlowing, OnceBroken, OnceLeft

\* What a broken connection puts in the books.
LEMMA Settlings ==
  LET faulted  == [Unsettled EXCEPT !.faults = @ + 1]
      refunded == [Unsettled EXCEPT !.refunds = @ + 1]
  IN  /\ \A l \in {faulted, refunded} :
           l \in Ledgers
      /\ faulted.faults = 1 /\ faulted.refunds = 0
      /\ refunded.faults = 0 /\ refunded.refunds = 1
<1>1. Unsettled \in Ledgers /\ Unsettled.faults = 0 /\ Unsettled.refunds = 0
  BY UsagesTyped DEF Unsettled, Ledgers
<1>2. QED BY <1>1 DEF Ledgers

\* The connection breaks.
LEMMA BreakKeeps ==
  ASSUME StreamInv, Break
  PROVE  StreamInv'
<1>1. /\ body = "flowing" /\ out = <<>> /\ body' = "broken" /\ frame' = {}
      /\ egress' = egress /\ sent' = sent /\ ingress' = ingress /\ decode' = decode /\ framer' = framer
      /\ xlate' = xlate /\ first' = first
  BY DEF Break, stream
<1>2. /\ ingress \in Protocols /\ phase \in Phases /\ ledger = Unsettled
      /\ framer \in {"none", "empty", "started"} /\ (framer # "none" => ingress = "gemini")
      /\ framer = "empty" => array = "unread"
      /\ framer = "started" => array = "open"
  BY <1>1, AllHeard DEF StreamInv, StreamTyped, WhileFlowing
<1>3. Honest'
  <2>1. Honest
    BY DEF StreamInv
  <2>2. ledger'.billed = ledger.billed
    BY <1>2 DEF Break, Unsettled
  <2>3. QED BY <1>1, <2>1, <2>2 DEF Honest
<1>4. CASE /\ ledger' = [ledger EXCEPT !.faults = @ + 1]
           /\ out' = IF framer = "none" THEN <<StreamError>> ELSE ArrayEnd(TRUE)
           /\ UNCHANGED client
  <2>1. phase' = phase /\ shown' = shown /\ array' = array
    BY <1>4 DEF client
  <2>2. /\ ledger' \in [sink : BOOLEAN, billed : Usage, faults : Nat, refunds : Nat]
        /\ ledger'.faults + ledger'.refunds = 1
    BY <1>2, <1>4, Settlings DEF Ledgers
  <2>3. /\ out' \in Seq(AnyFrame) /\ Run(Hearing(ingress), phase, out', "failed")
        /\ framer # "none" => Run(Framing(TRUE), array, out', "shut")
    <3>1. CASE framer = "none"
      <4>1. Unwritten \in Writer
        BY DEF Unwritten, Writer
      <4>2. Run(Hearing(ingress), phase, <<StreamError>>, "failed")
        BY <1>2, <4>1, ErrorHeard
      <4>3. <<StreamError>> \in Seq(AnyFrame)
        BY FramesTyped, ShortSeqs, AnySeqs
      <4>4. QED BY <1>4, <3>1, <4>2, <4>3
    <3>2. CASE framer # "none"
      <4>1. out' = ArrayEnd(TRUE)
        BY <1>4, <3>2
      <4>2. ingress = "gemini" /\ framer \in {"empty", "started"}
        BY <1>2, <3>2
      <4>3. /\ ArrayEnd(TRUE) \in Seq(AnyFrame)
            /\ Run(Hearing(ingress), phase, ArrayEnd(TRUE), "failed")
            /\ Run(Framing(TRUE), array, ArrayEnd(TRUE), "shut")
        BY <1>2, <4>2, ArrayEndLeads
      <4>4. QED BY <4>1, <4>3
    <3>3. QED BY <3>1, <3>2
  <2>4. StreamTyped'
    BY <1>1, <2>1, <2>2, <2>3 DEF StreamInv, StreamTyped
  <2>5. OnceBroken'
    BY <1>1, <2>1, <2>2, <2>3 DEF OnceBroken, Hears, Builds, Phases
  <2>6. QED BY <1>1, <1>3, <2>4, <2>5 DEF StreamInv, WhileFlowing, OnceEnded, OnceLeft
<1>5. CASE /\ ledger' = [ledger EXCEPT !.refunds = @ + 1]
           /\ phase' = "failed"
           /\ UNCHANGED <<out, shown, array>>
  <2>1. /\ ledger' \in [sink : BOOLEAN, billed : Usage, faults : Nat, refunds : Nat]
        /\ ledger'.faults + ledger'.refunds = 1 /\ ledger'.refunds = 1
    BY <1>2, <1>5, Settlings DEF Ledgers
  <2>2. StreamTyped'
    BY <1>1, <1>5, <2>1 DEF StreamInv, StreamTyped, Phases
  <2>3. Run(Hearing(ingress), "failed", <<>>, "failed")
    BY RunNothing
  <2>4. OnceBroken'
    BY <1>1, <1>5, <2>1, <2>3 DEF OnceBroken, Hears, Phases
  <2>5. QED BY <1>1, <1>3, <2>2, <2>4 DEF StreamInv, WhileFlowing, OnceEnded, OnceLeft
<1>6. QED BY <1>4, <1>5 DEF Break

\* A client reads a frame.
LEMMA ReadsKeeps ==
  ASSUME StreamInv, ClientReads
  PROVE  StreamInv'
<1> DEFINE f == Head(out)
<1>1. /\ body # "left" /\ out # <<>> /\ phase' = Heard(f) /\ shown' = Showing(f)
      /\ array' = (CASE f.type = "[" -> "open" [] f.type = "]" -> "shut" [] OTHER -> array)
      /\ out' = Tail(out)
      /\ egress' = egress /\ sent' = sent /\ ingress' = ingress /\ decode' = decode /\ framer' = framer
      /\ frame' = frame /\ xlate' = xlate /\ body' = body /\ first' = first /\ ledger' = ledger
  BY DEF ClientReads, stream
<1>2. out \in Seq(AnyFrame) /\ phase \in Phases /\ array \in Arrays /\ ingress \in Protocols
  BY DEF StreamInv, StreamTyped
<1>3. f \in AnyFrame /\ Tail(out) \in Seq(AnyFrame)
  BY <1>1, <1>2
<1> HIDE DEF f
<1>4. phase' = HeardIn(ingress, phase, f)
  <2>1. Heard(f) = HeardIn(ingress, phase, f)
    BY Zenon DEF Heard, HeardIn, LastIsDelta
  <2>2. QED BY <1>1, <2>1
<1>5. array' = ArrayAfter(array, f)
  BY <1>1 DEF ArrayAfter
<1>6. phase' \in Phases /\ array' \in Arrays
  BY <1>2, <1>4, <1>5, HeardTyped DEF ArrayAfter, Arrays
<1>7. \A i \in DOMAIN shown' : i \in Nat /\ shown'[i] \in Blocks \cup {"done"}
  <2>0. \A i \in DOMAIN shown : i \in Nat /\ shown[i] \in Blocks \cup {"done"}
    BY DEF StreamInv, StreamTyped
  <2>1. CASE f.type = "BlockStart"
    <3>1. f.index \in Nat /\ f.kind \in Blocks
      BY <1>3, <2>1 DEF AnyFrame, Brackets, Frames, Events, Starts, BlockStarts, BlockDeltas, BlockStops,
                        MessageDeltas, MessageStops, Errors
    <3>2. shown' = [i \in DOMAIN shown \cup {f.index} |-> IF i = f.index THEN f.kind ELSE shown[i]]
      BY <1>1, <2>1 DEF Showing
    <3>3. QED BY <2>0, <3>1, <3>2
  <2>2. CASE f.type = "BlockStop"
    <3>1. shown' = [shown EXCEPT ![f.index] = "done"]
      BY <1>1, <2>2 DEF Showing
    <3>2. QED BY <2>0, <3>1
  <2>3. CASE f.type \notin {"BlockStart", "BlockStop"}
    <3>1. shown' = <<>> \/ shown' = shown
      BY <1>1, <2>3 DEF Showing
    <3>2. QED BY <2>0, <3>1, ToolMapsTyped
  <2>4. QED BY <2>1, <2>2, <2>3
<1>8. StreamTyped'
  BY <1>1, <1>3, <1>6, <1>7 DEF StreamInv, StreamTyped
<1>9. ASSUME NEW q, Hears(q) PROVE Hears(q)'
  <2>1. PICK r : <<phase, f, r>> \in Hearing(ingress) /\ Run(Hearing(ingress), r, Tail(out), q)
    BY <1>1, <1>2, <1>9, RunHead DEF Hears, f
  <2>2. r = phase'
    BY <1>4, <2>1, HearingGives
  <2>3. QED BY <1>1, <1>9, <2>1, <2>2 DEF Hears
<1>10. ASSUME NEW b, Builds(b) PROVE Builds(b)'
  <2>1. PICK r : <<array, f, r>> \in Framing(TRUE) /\ Run(Framing(TRUE), r, Tail(out), b)
    BY <1>1, <1>2, <1>10, RunHead DEF Builds, f
  <2>2. r = array'
    BY <1>5, <2>1, FramingGives
  <2>3. QED BY <1>1, <2>1, <2>2 DEF Builds
<1>11. \A g : Reached(g) => Reached(g)'
  BY <1>1 DEF Reached, Flags, Verbatim, Binary
<1>12. Honest'
  BY <1>1 DEF StreamInv, Honest
<1>13. WhileFlowing'
  <2> SUFFICES ASSUME body = "flowing" PROVE WhileFlowing'
    BY <1>1 DEF WhileFlowing
  <2>1. PICK g, q : /\ Reached(g) /\ Hears(q)
                    /\ ~Verbatim /\ ~xlate.aborted => q = PhaseAt(ingress, g.at, xlate.emitted)
    BY DEF StreamInv, WhileFlowing
  <2>2. Reached(g)' /\ Hears(q)'
    BY <1>9, <1>11, <2>1
  <2>3. (~Verbatim /\ ~xlate.aborted => q = PhaseAt(ingress, g.at, xlate.emitted))'
    BY <1>1, <2>1 DEF Verbatim
  <2>4. framer # "empty"
    BY <1>1 DEF StreamInv, WhileFlowing
  <2>5. framer = "started" => Builds("open")'
    BY <1>10 DEF StreamInv, WhileFlowing
  <2>6. QED BY <1>1, <2>2, <2>3, <2>4, <2>5 DEF StreamInv, WhileFlowing
<1>14. OnceEnded'
  <2> SUFFICES ASSUME body = "ended" PROVE OnceEnded'
    BY <1>1 DEF OnceEnded
  <2>1. PICK q : /\ Hears(q)
                 /\ xlate.aborted => q = "failed"
                 /\ ~Verbatim /\ ~xlate.aborted => /\ q = "failed" <=> xlate.failed
                                                   /\ Complete => q = "stopped"
    BY DEF StreamInv, OnceEnded
  <2>2. Hears(q)'
    BY <1>9, <2>1
  <2>3. (Complete <=> Complete') /\ (Verbatim <=> Verbatim')
    BY <1>1 DEF Complete, Verbatim
  <2>4. (framer # "none" => Builds("shut"))'
    BY <1>1, <1>10 DEF StreamInv, OnceEnded
  <2>5. OnceEnded
    BY DEF StreamInv
  <2>6. QED BY <1>1, <2>1, <2>2, <2>3, <2>4, <2>5 DEF OnceEnded
<1>15. OnceBroken'
  <2> SUFFICES ASSUME body = "broken" PROVE OnceBroken'
    BY <1>1 DEF OnceBroken
  <2>1. Hears("failed")'
    BY <1>9 DEF StreamInv, OnceBroken
  <2>2. framer # "none" => Builds("shut")'
    BY <1>1, <1>10 DEF StreamInv, OnceBroken
  <2>3. QED BY <1>1, <2>1, <2>2 DEF StreamInv, OnceBroken
<1>16. OnceLeft'
  BY <1>1 DEF OnceLeft
<1>17. QED BY <1>8, <1>12, <1>13, <1>14, <1>15, <1>16 DEF StreamInv

-----------------------------------------------------------------------------
(* The theorems.                                                           *)

\* Nothing happens.
LEMMA StutterKeeps ==
  ASSUME StreamInv, UNCHANGED vars
  PROVE  StreamInv'
<1>1. /\ egress' = egress /\ sent' = sent /\ ingress' = ingress /\ decode' = decode /\ framer' = framer
      /\ frame' = frame /\ xlate' = xlate /\ body' = body /\ first' = first /\ ledger' = ledger
      /\ out' = out /\ phase' = phase /\ shown' = shown /\ array' = array
  BY DEF vars, stream, client
<1>2. StreamTyped' /\ Honest' /\ OnceBroken'
  BY <1>1 DEF StreamInv, StreamTyped, Honest, OnceBroken, Hears, Builds
<1>3. \A g : Reached(g) => Reached(g)'
  BY <1>1 DEF Reached, Flags, Verbatim, Binary
<1>4. \A q : Hears(q) => Hears(q)'
  BY <1>1 DEF Hears
<1>5. \A b : Builds(b) => Builds(b)'
  BY <1>1 DEF Builds
<1>6. WhileFlowing'
  BY <1>1, <1>3, <1>4, <1>5 DEF StreamInv, WhileFlowing, Verbatim
<1>7. OnceEnded' /\ OnceLeft'
  BY <1>1, <1>4, <1>5 DEF StreamInv, OnceEnded, OnceLeft, Verbatim, Complete
<1>8. QED BY <1>2, <1>6, <1>7 DEF StreamInv

\* Every step keeps the invariant.
LEMMA StreamKeeps ==
  ASSUME StreamInv, [Next]_vars
  PROVE  StreamInv'
<1>1. CASE Backend
  BY <1>1, BackendKeeps
<1>2. CASE Feed
  BY <1>2, FeedKeeps
<1>3. CASE Abort
  BY <1>3, AbortKeeps
<1>4. CASE Close
  BY <1>4, CloseKeeps
<1>5. CASE Break
  BY <1>5, BreakKeeps
<1>6. CASE Drop
  BY <1>6, DropKeeps
<1>7. CASE ClientReads
  BY <1>7, ReadsKeeps
<1>8. CASE UNCHANGED vars
  BY <1>8, StutterKeeps
<1>9. QED BY <1>1, <1>2, <1>3, <1>4, <1>5, <1>6, <1>7, <1>8 DEF Next

\* Whatever the backend sends, in whatever order, and wherever the stream is
\* cut, what has been written to the client is a reading its protocol
\* allows, from where the client is to where the translator has come.
THEOREM StreamInvariant == Spec => []StreamInv
<1>1. Init => StreamInv
  BY StreamStarts
<1>2. StreamInv /\ [Next]_vars => StreamInv'
  BY StreamKeeps
<1>3. QED BY <1>1, <1>2, PTL DEF Spec

\* What the invariant says of types.
LEMMA TypedOfInv == StreamInv => TypeOK
<1> SUFFICES ASSUME StreamInv PROVE TypeOK
  OBVIOUS
<1>1. StreamTyped
  BY DEF StreamInv
<1>2. decode \in Memory /\ Cardinality(DOMAIN decode.tools) + Cardinality(decode.texts) <= MaxOpenTools
  BY <1>1 DEF StreamTyped, Sound
<1>3. /\ decode.text_index \in Nat \cup {NoIndex}
      /\ \A t \in DOMAIN decode.tools : t \in Nat /\ decode.tools[t] \in Nat
  BY <1>2, ToolMapsTyped DEF Memory
<1>4. xlate.start \in Usage /\ xlate.last \in Usage
  BY <1>1 DEF StreamTyped, Translator
<1>5. QED BY <1>1, <1>2, <1>3, <1>4 DEF StreamTyped, TypeOK, Arrays, Phases

\* A frame that begins a run of the client's is in its order.
LEMMA OrderOfInv == StreamInv => FramesInOrder
<1> SUFFICES ASSUME StreamInv, out # <<>> PROVE FramesInOrder
  BY DEF FramesInOrder
<1> DEFINE f == Head(out)
<1>1. StreamTyped /\ WhileFlowing /\ OnceEnded /\ OnceBroken /\ OnceLeft
  BY DEF StreamInv
<1>2. out \in Seq(AnyFrame) /\ body \in {"flowing", "ended", "broken", "left"}
      /\ framer \in {"none", "empty", "started"}
  BY <1>1 DEF StreamTyped
<1>3. PICK q : Hears(q)
  BY <1>1, <1>2 DEF WhileFlowing, OnceEnded, OnceBroken, OnceLeft
<1>4. PICK r : <<phase, f, r>> \in Hearing(ingress)
  BY <1>2, <1>3, RunHead DEF Hears
<1>5. InOrder(phase, f)
  BY <1>4, HearingGives
<1>6. framer # "none" => array = IF f.type = "[" THEN "unread" ELSE "open"
  <2> SUFFICES ASSUME framer # "none" PROVE array = IF f.type = "[" THEN "unread" ELSE "open"
    OBVIOUS
  <2>1. PICK b : Builds(b)
    BY <1>1, <1>2 DEF WhileFlowing, OnceEnded, OnceBroken, OnceLeft
  <2>2. PICK c : <<array, f, c>> \in Framing(TRUE)
    BY <1>2, <2>1, RunHead DEF Builds
  <2>3. QED BY <2>2, FramingGives
<1> HIDE DEF f
<1> QED BY <1>5, <1>6 DEF FramesInOrder, InOrder, f

\* A client that has read everything is where the invariant says.
LEMMA EndOfInv == StreamInv => EndIsTold
<1> SUFFICES ASSUME StreamInv, body \in {"ended", "broken"}, out = <<>> PROVE EndIsTold
  BY DEF EndIsTold
<1>1. OnceEnded /\ OnceBroken
  BY DEF StreamInv
<1>2. \A q : Hears(q) => phase = q
  BY RunNothing DEF Hears
<1>3. \A b : Builds(b) => array = b
  BY RunNothing DEF Builds
<1>4. CASE body = "ended"
  BY <1>1, <1>2, <1>3, <1>4 DEF OnceEnded, EndIsTold
<1>5. CASE body = "broken"
  BY <1>1, <1>2, <1>3, <1>5 DEF OnceBroken, EndIsTold
<1>6. QED BY <1>4, <1>5

\* What the invariant says of the books.
LEMMA SettledOfInv == StreamInv => Settled
<1> SUFFICES ASSUME StreamInv PROVE Settled
  OBVIOUS
<1>1. StreamTyped /\ WhileFlowing /\ OnceEnded /\ OnceBroken /\ OnceLeft /\ Honest
  BY DEF StreamInv
<1>2. ledger \in Ledgers /\ body \in {"flowing", "ended", "broken", "left"}
  BY <1>1 DEF StreamTyped, Ledgers
<1>3. ledger.faults + ledger.refunds <= 1
  <2>1. CASE body = "flowing"
    BY <1>1, <2>1 DEF WhileFlowing, Unsettled
  <2>2. CASE body = "ended"
    BY <1>1, <2>2 DEF OnceEnded
  <2>3. CASE body = "broken"
    BY <1>1, <2>3 DEF OnceBroken
  <2>4. CASE body = "left"
    BY <1>1, <2>4 DEF OnceLeft
  <2>5. QED BY <1>2, <2>1, <2>2, <2>3, <2>4
<1>4. \A q : Hears(q) /\ out = <<>> => phase = q
  BY RunNothing DEF Hears
<1>5. ASSUME body \in {"ended", "broken"}, out = <<>>, ~Verbatim
      PROVE  phase = "failed" <=> ledger.faults + ledger.refunds = 1
  <2>1. CASE body = "ended"
    <3>1. phase = "failed" <=> Failed(xlate)
      BY <1>1, <1>4, <1>5, <2>1 DEF OnceEnded, Failed
    <3>2. ledger.refunds = 0 /\ ledger.faults = IF Failed(xlate) THEN 1 ELSE 0
      BY <1>1, <2>1 DEF OnceEnded
    <3>3. QED BY <3>1, <3>2
  <2>2. CASE body = "broken"
    BY <1>1, <1>4, <1>5, <2>2 DEF OnceBroken
  <2>3. QED BY <1>5, <2>1, <2>2
<1>6. ledger.billed.input \in {0, sent.told.input} /\ ledger.billed.output \in {0, sent.told.output}
  BY <1>1 DEF Honest, Fit
<1>7. ASSUME body = "ended"
      PROVE  ledger.billed = IF ledger.faults = 1 THEN ZeroUsage
                             ELSE IF Complete THEN sent.told ELSE ledger.billed
  <2>1. /\ ledger.faults = IF Failed(xlate) THEN 1 ELSE 0
        /\ Failed(xlate) => ledger.billed = ZeroUsage
        /\ ~Failed(xlate) /\ Complete => ledger.billed = sent.told
    BY <1>1, <1>7 DEF OnceEnded
  <2>2. QED BY <2>1
<1>8. QED BY <1>3, <1>5, <1>6, <1>7 DEF Settled

\* Every variable keeps its type, and however many tools a backend opens the
\* reader's memory of them stays within the cap.
THEOREM StreamTypeCorrect == Spec => []TypeOK
<1>1. QED BY StreamInvariant, TypedOfInv, PTL

\* The frames of every message come in the order its client's protocol
\* knows, and the JSON array of a gemini client is opened first and shut
\* last, whatever the backend sends and wherever it stops.
THEOREM FramesStayInOrder == Spec => []FramesInOrder
<1>1. QED BY StreamInvariant, OrderOfInv, PTL

\* When a stream is over its client has been told how it ended.
THEOREM EndReachesClient == Spec => []EndIsTold
<1>1. QED BY StreamInvariant, EndOfInv, PTL

\* A stream is settled with the breaker and the budgets as its client saw it
\* end, and no count is billed that the backend did not tell.
THEOREM StreamsSettle == Spec => []Settled
<1>1. QED BY StreamInvariant, SettledOfInv, PTL

=============================================================================
