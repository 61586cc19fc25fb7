--------------------------- MODULE FiniteInduction ---------------------------
(* Facts about finite sets and sums on which the other proofs rest: the      *)
(* least member of a set of naturals, induction stated for sets, the oldest  *)
(* member of an ordered set, and what a fold with + does.                    *)
EXTENDS Integers, FiniteSets, Functions, FiniteSetTheorems, NaturalsInduction, TLAPS

(* A set of naturals that is not empty has a least member.                   *)
LEMMA LeastNatural ==
  ASSUME NEW T \in SUBSET Nat, T # {}
  PROVE  \E n \in T : \A m \in T : n <= m
<1>1. PICK n \in T : \A m \in T : ~(<<m, n>> \in OpToRel(<, Nat))
  BY NatLessThanWellFounded, WFMin
<1>2. \A m \in T : ~(m < n)  BY <1>1 DEF OpToRel
<1>3. QED  BY <1>2

(* Induction over the naturals.                                              *)
LEMMA NaturalsReached ==
  ASSUME NEW T \in SUBSET Nat, 0 \in T, \A n \in T : n + 1 \in T
  PROVE  T = Nat
<1>1. SUFFICES ASSUME Nat \ T # {} PROVE FALSE
  OBVIOUS
<1>2. PICK n \in Nat \ T : \A m \in Nat \ T : n <= m
  BY <1>1, LeastNatural
<1>3. n # 0 /\ n - 1 \in Nat /\ ~(n <= n - 1) /\ n - 1 + 1 = n
  BY <1>2
<1>4. n - 1 \in T
  BY <1>2, <1>3
<1>5. QED
  BY <1>2, <1>3, <1>4

One(s) == CHOOSE x \in s : TRUE

(* Induction over the subsets of a finite set, one member at a time.         *)
LEMMA SubsetsReached ==
  ASSUME NEW S, IsFiniteSet(S), NEW G \in SUBSET SUBSET S, {} \in G,
         \A s \in SUBSET S : s # {} /\ s \ {One(s)} \in G => s \in G
  PROVE  G = SUBSET S
<1> DEFINE Sized(n) == \A s \in SUBSET S : Cardinality(s) = n => s \in G
           T == {n \in Nat : Sized(n)}
<1>1. \A s \in SUBSET S : IsFiniteSet(s) /\ Cardinality(s) \in Nat
  BY FS_Subset, FS_CardinalityType
<1>2. 0 \in T
  BY <1>1, FS_EmptySet
<1>3. ASSUME NEW n \in T PROVE n + 1 \in T
  <2>1. SUFFICES ASSUME NEW s \in SUBSET S, Cardinality(s) = n + 1 PROVE s \in G
    OBVIOUS
  <2>2. s # {}
    BY <2>1, FS_EmptySet
  <2>3. One(s) \in s
    BY <2>2 DEF One
  <2>4. Cardinality(s \ {One(s)}) = Cardinality(s) - 1
    BY <1>1, <2>3, FS_RemoveElement
  <2>5. s \ {One(s)} \in G
    BY <2>1, <2>4
  <2>6. QED
    BY <2>2, <2>5
<1> HIDE DEF T
<1>4. T = Nat
  BY <1>2, <1>3, NaturalsReached DEF T
<1>5. QED
  BY <1>1, <1>4 DEF T

(* A finite set in which nothing is older than itself has an oldest member. *)
LEMMA OldestExists ==
  ASSUME NEW S, IsFiniteSet(S), S # {}, NEW B,
         \A c \in S : <<c, c>> \notin B,
         \A c, d, e \in S : <<c, d>> \in B /\ <<d, e>> \in B => <<c, e>> \in B
  PROVE  \E c \in S : \A d \in S : <<d, c>> \notin B
<1> DEFINE Cyclic == {U \in SUBSET S : U # {} /\ \A c \in U : \E d \in U : <<d, c>> \in B}
           Sizes == {Cardinality(U) : U \in Cyclic}
<1>1. SUFFICES ASSUME S \in Cyclic PROVE FALSE
  OBVIOUS
<1>2. \A U \in Cyclic : IsFiniteSet(U) /\ Cardinality(U) \in Nat
  BY FS_Subset, FS_CardinalityType
<1>3. PICK n \in Sizes : \A m \in Sizes : n <= m
  <2>1. \A n \in Sizes : n \in Nat  BY <1>2
  <2>2. Cardinality(S) \in Sizes  BY <1>1
  <2> HIDE DEF Sizes
  <2>3. Sizes \in SUBSET Nat /\ Sizes # {}  BY <2>1, <2>2
  <2>4. QED  BY <2>3, LeastNatural
<1>4. PICK U \in Cyclic : n = Cardinality(U)  BY <1>3
<1>5. PICK x \in U : TRUE  BY <1>4
<1> DEFINE V == U \ {x}
<1>6. Cardinality(V) = Cardinality(U) - 1 /\ Cardinality(U) \in Nat
  BY <1>2, <1>4, <1>5, FS_RemoveElement
<1>7. V \notin Cyclic
  <2>1. SUFFICES ASSUME V \in Cyclic PROVE FALSE  OBVIOUS
  <2>2. n <= Cardinality(V)  BY <1>3, <2>1, SMTT(60)
  <2>3. QED  BY <1>4, <1>6, <2>2
<1>8. V # {}
  <2>1. PICK d \in U : <<d, x>> \in B  BY <1>4, <1>5
  <2>2. d # x  BY <1>4, <2>1
  <2>3. QED  BY <2>1, <2>2
<1>9. PICK y \in V : \A d \in V : <<d, y>> \notin B  BY <1>4, <1>7, <1>8
<1>10. <<x, y>> \in B  BY <1>4, <1>9
<1>11. PICK d \in U : <<d, x>> \in B  BY <1>4, <1>5
<1>12. <<d, y>> \in B /\ d # x  BY <1>4, <1>5, <1>9, <1>10, <1>11
<1>13. QED  BY <1>9, <1>11, <1>12

-----------------------------------------------------------------------------
(* Sums. *)

Sum(f) == FoldFunction(+, 0, f)

(* What defines the partial sums of f over the members of W, subsets of S.   *)
Adds(f, W, part) ==
  part = [s \in W |-> IF s = {} THEN 0 ELSE f[One(s)] + part[s \ {One(s)}]]

LEMMA PartialSums ==
  ASSUME NEW S, IsFiniteSet(S), NEW f \in [S -> Nat]
  PROVE  \E part : Adds(f, SUBSET S, part) /\ part \in [SUBSET S -> Nat]
<1> DEFINE Small(n) == {s \in SUBSET S : Cardinality(s) <= n}
           Summed(n) == \E part \in [Small(n) -> Nat] : Adds(f, Small(n), part)
           T == {n \in Nat : Summed(n)}
<1>1. \A s \in SUBSET S : IsFiniteSet(s) /\ Cardinality(s) \in Nat
  BY FS_Subset, FS_CardinalityType
<1>2. Cardinality({}) = 0
  BY FS_EmptySet
<1>3. ASSUME NEW s \in SUBSET S, s # {}
      PROVE  One(s) \in S /\ Cardinality(s \ {One(s)}) = Cardinality(s) - 1
  BY <1>1, <1>3, FS_RemoveElement DEF One
<1>4. 0 \in T
  <2>1. \A s \in Small(0) : s = {}
    BY <1>1, FS_EmptySet
  <2>2. [s \in Small(0) |-> 0] \in [Small(0) -> Nat]
    OBVIOUS
  <2>3. Adds(f, Small(0), [s \in Small(0) |-> 0])
    BY <2>1 DEF Adds
  <2>4. QED
    BY <2>2, <2>3
<1>5. ASSUME NEW n \in T PROVE n + 1 \in T
  <2>1. PICK part \in [Small(n) -> Nat] : Adds(f, Small(n), part)
    OBVIOUS
  <2> DEFINE more == [s \in Small(n + 1) |-> IF s = {} THEN 0
                                             ELSE f[One(s)] + part[s \ {One(s)}]]
  <2>2. \A s \in Small(n + 1) : s # {} => s \ {One(s)} \in Small(n)
    BY <1>1, <1>3
  <2>3. more \in [Small(n + 1) -> Nat]
    BY <1>3, <2>2
  <2>4. ASSUME NEW s \in Small(n) PROVE s \in Small(n + 1) /\ more[s] = part[s]
    <3>1. s \in Small(n + 1)
      BY <1>1
    <3>2. part[s] = IF s = {} THEN 0 ELSE f[One(s)] + part[s \ {One(s)}]
      BY <2>1 DEF Adds
    <3>3. QED
      BY <3>1, <3>2
  <2>5. \A s \in Small(n + 1) : s # {} => more[s \ {One(s)}] = part[s \ {One(s)}]
    BY <2>2, <2>4
  <2>6. Adds(f, Small(n + 1), more)
    BY <2>2, <2>5 DEF Adds
  <2>7. Summed(n + 1)
    BY <2>3, <2>6
  <2> HIDE DEF Summed
  <2>8. QED
    BY <2>7
<1>6. T = Nat
  <2> HIDE DEF T
  <2>1. T \in SUBSET Nat  BY DEF T
  <2>2. QED  BY <1>4, <1>5, <2>1, NaturalsReached
<1>7. PICK part \in [Small(Cardinality(S)) -> Nat] : Adds(f, Small(Cardinality(S)), part)
  BY <1>1, <1>6
<1>8. Small(Cardinality(S)) = SUBSET S
  BY <1>1, FS_Subset
<1>9. QED
  BY <1>7, <1>8

LEMMA PartialSumsNat ==
  ASSUME NEW S, IsFiniteSet(S), NEW f \in [S -> Nat], NEW part, Adds(f, SUBSET S, part)
  PROVE  part \in [SUBSET S -> Nat]
<1> DEFINE G == {s \in SUBSET S : part[s] \in Nat}
<1>1. \A s \in SUBSET S : part[s] = IF s = {} THEN 0 ELSE f[One(s)] + part[s \ {One(s)}]
  BY DEF Adds
<1>2. {} \in G
  <2>1. part[{}] = 0  BY <1>1
  <2>2. QED  BY <2>1
<1>3. ASSUME NEW s \in SUBSET S, s # {}, s \ {One(s)} \in G PROVE s \in G
  <2>1. One(s) \in S
    BY <1>3 DEF One
  <2>2. part[s] = f[One(s)] + part[s \ {One(s)}]
    BY <1>1, <1>3
  <2>3. f[One(s)] \in Nat /\ part[s \ {One(s)}] \in Nat
    BY <1>3, <2>1
  <2>4. QED
    BY <2>2, <2>3
<1>4. G = SUBSET S
  <2> HIDE DEF G
  <2>1. G \in SUBSET SUBSET S  BY DEF G
  <2>2. QED  BY <1>2, <1>3, <2>1, SubsetsReached
<1>5. \A s \in SUBSET S : part[s] \in Nat
  BY <1>4
<1>6. QED
  BY <1>5 DEF Adds

LEMMA SumAdds ==
  ASSUME NEW S, IsFiniteSet(S), NEW f \in [S -> Nat]
  PROVE  \E part \in [SUBSET S -> Nat] : Adds(f, SUBSET S, part) /\ Sum(f) = part[S]
<1>1. DOMAIN f = S
  OBVIOUS
<1> DEFINE sums == CHOOSE p : Adds(f, SUBSET S, p)
<1>2. Adds(f, SUBSET S, sums)
  BY PartialSums
<1>3. Sum(f) = sums[S]
  BY <1>1 DEF Sum, FoldFunction, FoldFunctionOnSet, MapThenFoldSet, Adds, One
<1>4. sums \in [SUBSET S -> Nat]
  BY <1>2, PartialSumsNat
<1>5. QED
  BY <1>2, <1>3, <1>4

(* The sum of natural numbers is one.                                        *)
LEMMA SumNat ==
  ASSUME NEW S, IsFiniteSet(S), NEW f \in [S -> Nat]
  PROVE  Sum(f) \in Nat
<1>1. PICK p \in [SUBSET S -> Nat] : Adds(f, SUBSET S, p) /\ Sum(f) = p[S]
  BY SumAdds
<1>2. QED
  BY <1>1

(* Functions that differ in one place differ in their sums by as much.       *)
LEMMA SumDiffers ==
  ASSUME NEW S, IsFiniteSet(S), NEW f \in [S -> Nat], NEW g \in [S -> Nat],
         NEW k \in S, \A x \in S \ {k} : f[x] = g[x]
  PROVE  Sum(f) + g[k] = Sum(g) + f[k]
<1>1. PICK p \in [SUBSET S -> Nat] : Adds(f, SUBSET S, p) /\ Sum(f) = p[S]
  BY SumAdds
<1>2. PICK q \in [SUBSET S -> Nat] : Adds(g, SUBSET S, q) /\ Sum(g) = q[S]
  BY SumAdds
<1> DEFINE G == {s \in SUBSET S : IF k \in s THEN p[s] + g[k] = q[s] + f[k] ELSE p[s] = q[s]}
<1>3. \A s \in SUBSET S : /\ p[s] = IF s = {} THEN 0 ELSE f[One(s)] + p[s \ {One(s)}]
                          /\ q[s] = IF s = {} THEN 0 ELSE g[One(s)] + q[s \ {One(s)}]
  BY <1>1, <1>2 DEF Adds
<1>4. {} \in G
  BY <1>3
<1>5. ASSUME NEW s \in SUBSET S, s # {}, s \ {One(s)} \in G PROVE s \in G
  <2>1. One(s) \in s
    BY <1>5 DEF One
  <2>2. PICK x \in S : x = One(s) /\ x \in s
    BY <2>1
  <2>3. PICK r \in SUBSET S : r = s \ {x}
    OBVIOUS
  <2>4. p[s] = f[x] + p[r] /\ q[s] = g[x] + q[r]
    BY <1>3, <1>5, <2>2, <2>3
  <2>5. /\ p[s] \in Nat /\ q[s] \in Nat /\ p[r] \in Nat /\ q[r] \in Nat
        /\ f[x] \in Nat /\ g[x] \in Nat /\ f[k] \in Nat /\ g[k] \in Nat
    OBVIOUS
  <2>6. r \in G
    BY <1>5, <2>2, <2>3
  <2>7. CASE x = k
    <3>1. p[r] = q[r] /\ k \in s
      BY <2>2, <2>3, <2>6, <2>7
    <3>2. QED
      BY <2>4, <2>5, <2>7, <3>1
  <2>8. CASE x # k
    <3>1. f[x] = g[x] /\ (k \in r <=> k \in s)
      BY <2>3, <2>8
    <3>2. QED
      BY <2>4, <2>5, <2>6, <3>1
  <2>9. QED
    BY <2>7, <2>8
<1>6. G = SUBSET S
  <2> HIDE DEF G
  <2>1. G \in SUBSET SUBSET S  BY DEF G
  <2>2. QED  BY <1>4, <1>5, <2>1, SubsetsReached
<1>7. S \in G
  BY <1>6
<1>8. QED
  BY <1>1, <1>2, <1>7

(* A sum is nothing when its terms are.                                      *)
LEMMA SumOfNothing ==
  ASSUME NEW S, IsFiniteSet(S), NEW f \in [S -> Nat], \A x \in S : f[x] = 0
  PROVE  Sum(f) = 0
<1>1. PICK p \in [SUBSET S -> Nat] : Adds(f, SUBSET S, p) /\ Sum(f) = p[S]
  BY SumAdds
<1> DEFINE G == {s \in SUBSET S : p[s] = 0}
<1>2. \A s \in SUBSET S : p[s] = IF s = {} THEN 0 ELSE f[One(s)] + p[s \ {One(s)}]
  BY <1>1 DEF Adds
<1>3. {} \in G
  BY <1>2
<1>4. ASSUME NEW s \in SUBSET S, s # {}, s \ {One(s)} \in G PROVE s \in G
  <2>1. One(s) \in S
    BY <1>4 DEF One
  <2>2. QED
    BY <1>2, <1>4, <2>1
<1>5. G = SUBSET S
  <2> HIDE DEF G
  <2>1. G \in SUBSET SUBSET S  BY DEF G
  <2>2. QED  BY <1>3, <1>4, <2>1, SubsetsReached
<1>6. S \in G
  BY <1>5
<1>7. QED
  BY <1>1, <1>6

(* No term is more than the sum.                                             *)
LEMMA SumBounds ==
  ASSUME NEW S, IsFiniteSet(S), NEW f \in [S -> Nat], NEW k \in S
  PROVE  f[k] <= Sum(f)
<1>1. PICK g \in [S -> Nat] : g = [f EXCEPT ![k] = 0]
  OBVIOUS
<1>2. \A x \in S \ {k} : f[x] = g[x]
  BY <1>1
<1>3. Sum(f) + g[k] = Sum(g) + f[k] /\ g[k] = 0
  <2>1. Sum(f) + g[k] = Sum(g) + f[k]  BY <1>2, SumDiffers
  <2>2. QED  BY <1>1, <2>1
<1>4. Sum(f) \in Nat /\ Sum(g) \in Nat /\ f[k] \in Nat
  BY SumNat
<1>5. QED
  BY <1>3, <1>4

(* One number greater by one is a sum greater by one.                        *)
OneMore(f, k) == [f EXCEPT ![k] = f[k] + 1]

LEMMA SumCounts ==
  ASSUME NEW S, IsFiniteSet(S), NEW f \in [S -> Nat], NEW k \in S
  PROVE  OneMore(f, k) \in [S -> Nat] /\ Sum(OneMore(f, k)) = Sum(f) + 1
<1>1. PICK g \in [S -> Nat] : g = OneMore(f, k)
  <2>1. \A x \in S : f[x] \in Nat /\ f[k] + 1 \in Nat  OBVIOUS
  <2>2. OneMore(f, k) \in [S -> Nat]  BY <2>1 DEF OneMore
  <2>3. QED  BY <2>2
<1>2. \A x \in S \ {k} : f[x] = g[x]
  BY <1>1 DEF OneMore
<1>3. Sum(f) + g[k] = Sum(g) + f[k] /\ g[k] = f[k] + 1
  <2>1. Sum(f) + g[k] = Sum(g) + f[k]  BY <1>2, SumDiffers
  <2>2. QED  BY <1>1, <2>1 DEF OneMore
<1>4. Sum(f) \in Nat /\ Sum(g) \in Nat /\ f[k] \in Nat
  BY SumNat
<1>5. Sum(g) = Sum(f) + 1
  BY <1>3, <1>4
<1>6. QED
  BY <1>1, <1>5

-----------------------------------------------------------------------------
(* Any member may be taken out of a sum first.                               *)
LEMMA AddsAny ==
  ASSUME NEW S, IsFiniteSet(S), NEW f \in [S -> Nat],
         NEW p \in [SUBSET S -> Nat], Adds(f, SUBSET S, p),
         NEW s \in SUBSET S, NEW x \in s
  PROVE  p[s] = f[x] + p[s \ {x}]
<1> DEFINE Any(t) == \A y \in t : p[t] = f[y] + p[t \ {y}]
           T == {n \in Nat : \A t \in SUBSET S : Cardinality(t) = n => Any(t)}
<1>1. \A t \in SUBSET S : IsFiniteSet(t) /\ Cardinality(t) \in Nat
  BY FS_Subset, FS_CardinalityType
<1>2. \A t \in SUBSET S : t # {} => p[t] = f[One(t)] + p[t \ {One(t)}]
  BY DEF Adds
<1>3. 0 \in T
  <2>1. \A t \in SUBSET S : Cardinality(t) = 0 => t = {}
    BY <1>1, FS_EmptySet
  <2>2. \A t \in SUBSET S : Cardinality(t) = 0 => Any(t)
    BY <2>1
  <2>3. QED
    BY <2>2
<1>4. ASSUME NEW n \in T PROVE n + 1 \in T
  <2>1. SUFFICES ASSUME NEW t \in SUBSET S, Cardinality(t) = n + 1, NEW y \in t
                 PROVE  p[t] = f[y] + p[t \ {y}]
    OBVIOUS
  <2>2. PICK c \in t : c = One(t)
    BY DEF One
  <2>3. p[t] = f[c] + p[t \ {c}]
    BY <1>2, <2>2
  <2>4. CASE c = y
    BY <2>3, <2>4
  <2>5. CASE c # y
    <3>1. \A z \in t : Cardinality(t \ {z}) = n
      BY <1>1, <2>1, FS_RemoveElement
    <3>2. \A z \in t : Any(t \ {z})
      BY <3>1
    <3> HIDE DEF T
    <3>3. p[t \ {c}] = f[y] + p[(t \ {c}) \ {y}]
      BY <2>2, <2>5, <3>2
    <3>4. p[t \ {y}] = f[c] + p[(t \ {y}) \ {c}]
      BY <2>2, <2>5, <3>2
    <3>5. PICK r \in SUBSET S : r = (t \ {c}) \ {y} /\ r = (t \ {y}) \ {c}
      OBVIOUS
    <3>6. /\ f[c] \in Nat /\ f[y] \in Nat /\ p[r] \in Nat
          /\ p[t \ {c}] = f[y] + p[r] /\ p[t \ {y}] = f[c] + p[r]
      BY <2>2, <3>3, <3>4, <3>5
    <3>7. p[t] = f[c] + (f[y] + p[r]) /\ p[t \ {y}] = f[c] + p[r]
      BY <2>3, <3>6
    <3>8. QED
      BY <3>6, <3>7
  <2>6. QED
    BY <2>4, <2>5
<1>5. T = Nat
  <2> HIDE DEF T
  <2>1. T \in SUBSET Nat  BY DEF T
  <2>2. QED  BY <1>3, <1>4, <2>1, NaturalsReached
<1>6. QED
  BY <1>1, <1>5

(* The part of a sum over some of the indices.                               *)
Part(f, W) == Sum([x \in W |-> f[x]])

(* The partial sums of f are its parts.                                      *)
LEMMA PartsAdd ==
  ASSUME NEW S, IsFiniteSet(S), NEW f \in [S -> Nat],
         NEW p \in [SUBSET S -> Nat], Adds(f, SUBSET S, p), NEW W \in SUBSET S
  PROVE  Part(f, W) = p[W]
<1>1. IsFiniteSet(W)
  BY FS_Subset
<1>2. PICK g \in [W -> Nat] : g = [x \in W |-> f[x]]
  OBVIOUS
<1>3. PICK q \in [SUBSET W -> Nat] : Adds(g, SUBSET W, q) /\ Sum(g) = q[W]
  BY <1>1, SumAdds
<1> DEFINE G == {s \in SUBSET W : q[s] = p[s]}
<1>4. {} \in G
  BY <1>3 DEF Adds
<1>5. ASSUME NEW s \in SUBSET W, s # {}, s \ {One(s)} \in G PROVE s \in G
  <2>1. One(s) \in s
    BY <1>5 DEF One
  <2>2. q[s] = g[One(s)] + q[s \ {One(s)}]
    BY <1>3, <1>5 DEF Adds
  <2>3. p[s] = f[One(s)] + p[s \ {One(s)}]
    BY <1>5 DEF Adds
  <2>4. QED
    BY <1>2, <1>5, <2>1, <2>2, <2>3
<1>6. G = SUBSET W
  <2> HIDE DEF G
  <2>1. G \in SUBSET SUBSET W  BY DEF G
  <2>2. QED  BY <1>1, <1>4, <1>5, <2>1, SubsetsReached
<1>7. W \in G
  BY <1>6
<1>8. QED
  BY <1>2, <1>3, <1>7 DEF Part

(* A part is a number, grows with each index by its term, and two parts that *)
(* share no index make the sum of both.                                      *)
LEMMA PartNat ==
  ASSUME NEW S, IsFiniteSet(S), NEW f \in [S -> Nat], NEW W \in SUBSET S
  PROVE  Part(f, W) \in Nat
<1>1. PICK p \in [SUBSET S -> Nat] : Adds(f, SUBSET S, p)
  BY SumAdds
<1>2. Part(f, W) = p[W]
  BY <1>1, PartsAdd
<1>3. QED
  BY <1>1, <1>2

LEMMA PartGrows ==
  ASSUME NEW S, IsFiniteSet(S), NEW f \in [S -> Nat], NEW W \in SUBSET S, NEW x \in W
  PROVE  Part(f, W) = f[x] + Part(f, W \ {x})
<1>1. PICK p \in [SUBSET S -> Nat] : Adds(f, SUBSET S, p)
  BY SumAdds
<1>2. ASSUME NEW t \in SUBSET S PROVE Part(f, t) = p[t]
  BY <1>1, PartsAdd, SMTT(60)
<1>3. ASSUME NEW t \in SUBSET S, NEW y \in t PROVE p[t] = f[y] + p[t \ {y}]
  BY <1>1, AddsAny, SMTT(60)
<1>4. Part(f, W) = p[W] /\ Part(f, W \ {x}) = p[W \ {x}]
  BY <1>2
<1>5. p[W] = f[x] + p[W \ {x}]
  BY <1>3
<1>6. QED
  BY ONLY <1>4, <1>5

LEMMA PartEmpty ==
  ASSUME NEW f
  PROVE  Part(f, {}) = 0
<1>1. [x \in {} |-> f[x]] \in [{} -> Nat] /\ IsFiniteSet({})
  BY FS_EmptySet
<1>2. QED
  BY <1>1, SumOfNothing DEF Part

LEMMA PartSplits ==
  ASSUME NEW S, IsFiniteSet(S), NEW f \in [S -> Nat], NEW W \in SUBSET S, NEW V \in SUBSET W
  PROVE  Part(f, W) = Part(f, V) + Part(f, W \ V)
<1> DEFINE G == {s \in SUBSET V : Part(f, W) = Part(f, s) + Part(f, W \ s)}
<1>1. IsFiniteSet(V)
  BY FS_Subset
<1>2. \A U \in SUBSET S : Part(f, U) \in Nat
  BY PartNat
<1>3. {} \in G
  <2>1. W \ {} = W /\ Part(f, {}) = 0 /\ Part(f, W) \in Nat
    BY <1>2, PartEmpty
  <2>2. Part(f, W) = Part(f, {}) + Part(f, W \ {})
    BY <2>1
  <2>3. QED
    BY <2>2
<1>4. ASSUME NEW s \in SUBSET V, s # {}, s \ {One(s)} \in G PROVE s \in G
  <2>1. PICK x \in s : x = One(s)
    BY <1>4 DEF One
  <2>2. PICK t \in SUBSET S : t = s \ {x}
    OBVIOUS
  <2>3. Part(f, W) = Part(f, t) + Part(f, W \ t)
    BY <1>4, <2>1, <2>2
  <2>4. Part(f, s) = f[x] + Part(f, t)
    BY <2>1, <2>2, PartGrows
  <2>5. Part(f, W \ t) = f[x] + Part(f, W \ s)
    <3>1. x \in W \ t /\ (W \ t) \ {x} = W \ s /\ W \ t \in SUBSET S
      BY <2>1, <2>2
    <3>2. Part(f, W \ t) = f[x] + Part(f, (W \ t) \ {x})
      BY <3>1, PartGrows
    <3>3. QED
      BY <3>1, <3>2
  <2>6. /\ f[x] \in Nat /\ Part(f, t) \in Nat /\ Part(f, W \ s) \in Nat
    BY <1>2, <2>1
  <2>7. Part(f, W) = Part(f, s) + Part(f, W \ s)
    BY <2>3, <2>4, <2>5, <2>6
  <2>8. QED
    BY <2>7
<1>5. G = SUBSET V
  <2> HIDE DEF G
  <2>1. G \in SUBSET SUBSET V  BY DEF G
  <2>2. QED  BY <1>1, <1>3, <1>4, <2>1, SubsetsReached
<1>6. V \in G
  BY <1>5
<1>7. QED
  BY <1>6
==============================================================================
