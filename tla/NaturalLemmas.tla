--------------------------- MODULE NaturalLemmas ---------------------------
(***************************************************************************)
(* What several proofs need of the natural numbers: least members, and     *)
(* sums over finite sets.                                                  *)
(***************************************************************************)
EXTENDS Naturals, FiniteSetsExt, Functions, FiniteSetTheorems, WellFoundedInduction, TLAPS

(* A nonempty set of natural numbers has a least member.                   *)
LEMMA LeastNatural ==
  ASSUME NEW S \in SUBSET Nat, S # {}
  PROVE  \E i \in S : \A j \in S : i <= j
<1> DEFINE R == {ss \in Nat \X Nat : ss[1] < ss[2]}
<1>1. R = OpToRel(<, Nat)
  BY Zenon DEF OpToRel
<1>2. IsWellFoundedOn(R, Nat)
  BY <1>1, NatLessThanWellFounded
<1> HIDE DEF R
<1>3. PICK i \in S : \A j \in S : <<j, i>> \notin R
  <2>1. S \subseteq Nat
    OBVIOUS
  <2> QED BY <1>2, <2>1, WFMin
<1>4. ASSUME NEW j \in S PROVE i <= j
  <2>1. i \in Nat /\ j \in Nat
    OBVIOUS
  <2>2. <<j, i>> \in R <=> j < i
    BY <2>1 DEF R
  <2> QED BY <1>3, <2>1, <2>2
<1> QED BY <1>4

(* A nonempty set of natural numbers has its first element as Min.         *)
LEMMA MinIsLeast ==
  ASSUME NEW S \in SUBSET Nat, S # {}
  PROVE  Min(S) \in S /\ \A i \in S : Min(S) <= i
<1>1. \E x \in S : \A y \in S : x <= y
  BY LeastNatural
<1> QED BY <1>1 DEF Min

(***************************************************************************)
(* Sums.                                                                   *)
(***************************************************************************)

(* A nonempty family of subsets of a finite set has a smallest one.        *)
LEMMA SmallestSubset ==
  ASSUME NEW S, IsFiniteSet(S), NEW Off \in SUBSET SUBSET S, Off # {}
  PROVE  \E u \in Off : \A v \in Off : Cardinality(u) <= Cardinality(v)
<1> DEFINE Sizes == {Cardinality(u) : u \in Off}
<1>1. \A u \in Off : Cardinality(u) \in Nat
  BY FS_Subset, FS_CardinalityType
<1>2. Sizes \in SUBSET Nat /\ Sizes # {}
  BY <1>1
<1>3. PICK n \in Sizes : \A m \in Sizes : n <= m
  <2> HIDE DEF Sizes
  <2> QED BY <1>2, LeastNatural
<1> QED BY <1>3

(* Taking an element away makes a set smaller.                             *)
LEMMA SmallerSubset ==
  ASSUME NEW S, IsFiniteSet(S), NEW u \in SUBSET S, NEW x \in u
  PROVE  /\ IsFiniteSet(u) /\ u \ {x} \in SUBSET S
         /\ ~(Cardinality(u) <= Cardinality(u \ {x}))
<1>1. IsFiniteSet(u)
  BY FS_Subset
<1>2. Cardinality(u \ {x}) = Cardinality(u) - 1
  BY <1>1, FS_RemoveElement
<1>3. Cardinality(u) \in Nat
  BY <1>1, FS_CardinalityType
<1> QED BY <1>1, <1>2, <1>3

Pick(s) == CHOOSE x \in s : TRUE
Adds(f, g, S) == g = [s \in SUBSET S |-> IF s = {} THEN 0 ELSE f[Pick(s)] + g[s \ {Pick(s)}]]

LEMMA PickIn == ASSUME NEW s, s # {} PROVE Pick(s) \in s
BY DEF Pick

(* The sum is what adds one element after the other.                       *)
LEMMA SumUnfolds ==
  ASSUME NEW S, IsFiniteSet(S), NEW f
  PROVE  \E g : Adds(f, g, S) /\ SumFunctionOnSet(f, S) = g[S]
<1> DEFINE Val(g, s) == IF s = {} THEN 0 ELSE f[Pick(s)] + g[s \ {Pick(s)}]
           Solves(g, k) == /\ g = [s \in SUBSET S |-> g[s]]
                           /\ \A s \in SUBSET S : Cardinality(s) < k => g[s] = Val(g, s)
           Unsolved == {k \in Nat : ~ \E g : Solves(g, k)}
<1>1. \A s \in SUBSET S : Cardinality(s) \in Nat /\ Cardinality(s) <= Cardinality(S)
  BY FS_Subset, FS_CardinalityType
<1>2. Cardinality(S) \in Nat
  BY FS_CardinalityType
<1>3. \A s \in SUBSET S : s # {} => s \ {Pick(s)} \in SUBSET S
                                    /\ Cardinality(s \ {Pick(s)}) = Cardinality(s) - 1
  BY PickIn, FS_Subset, FS_RemoveElement
<1>4. ASSUME NEW k \in Nat, NEW f_, Solves(f_, k) PROVE \E g : Solves(g, k + 1)
  <2> DEFINE g == [s \in SUBSET S |-> IF Cardinality(s) = k THEN Val(f_, s) ELSE f_[s]]
  <2>1. g = [s \in SUBSET S |-> g[s]]
    OBVIOUS
  <2>2. ASSUME NEW s \in SUBSET S, Cardinality(s) < k + 1 PROVE g[s] = Val(g, s)
    <3>1. g[s] = Val(f_, s)
      <4>1. CASE Cardinality(s) = k
        <5> HIDE DEF Val
        <5> QED BY <4>1
      <4>2. CASE Cardinality(s) # k
        <5>1. Cardinality(s) < k
          BY <1>1, <2>2, <4>2
        <5>2. f_[s] = Val(f_, s)
          <6> HIDE DEF Val
          <6> QED BY <1>4, <5>1
        <5> HIDE DEF Val
        <5> QED BY <4>2, <5>2
      <4> QED BY <4>1, <4>2
    <3>2. CASE s = {}
      BY <3>1, <3>2
    <3>3. CASE s # {}
      <4>1. s \ {Pick(s)} \in SUBSET S /\ Cardinality(s \ {Pick(s)}) # k
        BY <1>1, <1>3, <2>2, <3>3
      <4>2. g[s \ {Pick(s)}] = f_[s \ {Pick(s)}]
        BY <4>1
      <4> HIDE DEF g
      <4> QED BY <3>1, <3>3, <4>2
    <3> QED BY <3>2, <3>3
  <2> QED BY <2>1, <2>2
<1>5. Unsolved = {}
  <2> SUFFICES ASSUME Unsolved # {} PROVE FALSE
    OBVIOUS
  <2>1. PICK k \in Unsolved : \A j \in Unsolved : k <= j
    <3>1. Unsolved \in SUBSET Nat
      OBVIOUS
    <3> HIDE DEF Unsolved
    <3> QED BY <3>1, LeastNatural
  <2>2. k # 0
    <3> DEFINE g == [s \in SUBSET S |-> s]
    <3>1. g = [s \in SUBSET S |-> g[s]]
      OBVIOUS
    <3>2. \A s \in SUBSET S : ~(Cardinality(s) < 0)
      BY <1>1
    <3> HIDE DEF g
    <3>3. Solves(g, 0)
      BY <3>1, <3>2
    <3> HIDE DEF Solves
    <3>4. 0 \notin Unsolved
      BY <3>3
    <3> QED BY <2>1, <3>4
  <2>3. k - 1 \in Nat /\ k - 1 \notin Unsolved /\ (k - 1) + 1 = k
    <3>1. k \in Nat
      BY <2>1
    <3> HIDE DEF Unsolved
    <3> QED BY <2>1, <2>2, <3>1
  <2>4. PICK g : Solves(g, k - 1)
    BY <2>3
  <2> HIDE DEF Solves
  <2>5. \E g_ : Solves(g_, k)
    BY <1>4, <2>3, <2>4
  <2> QED BY <2>5
<1>6. PICK g : Solves(g, Cardinality(S) + 1)
  <2>1. Cardinality(S) + 1 \in Nat
    BY <1>2
  <2> HIDE DEF Solves
  <2> QED BY <1>5, <2>1
<1>7. \A s \in SUBSET S : g[s] = Val(g, s)
  <2>1. \A s \in SUBSET S : Cardinality(s) < Cardinality(S) + 1
    BY <1>1, <1>2
  <2> HIDE DEF Val
  <2> QED BY <1>6, <2>1
<1>8. Adds(f, g, S)
  BY <1>6, <1>7 DEF Adds
<1> DEFINE sum == CHOOSE h : Adds(f, h, S)
<1>9. Adds(f, sum, S)
  BY <1>8
<1>10. SumFunctionOnSet(f, S) = sum[S]
  BY DEF SumFunctionOnSet, FoldFunctionOnSet, MapThenFoldSet, Adds, Pick
<1> HIDE DEF sum
<1> QED BY <1>9, <1>10

LEMMA AddsAgree ==
  ASSUME NEW S, IsFiniteSet(S), NEW f, NEW g, Adds(f, g, S),
         NEW T \in SUBSET S, NEW e, NEW h, Adds(e, h, T), \A x \in T : e[x] = f[x]
  PROVE  \A u \in SUBSET T : g[u] = h[u]
<1> DEFINE Off == {u \in SUBSET T : g[u] # h[u]}
<1> SUFFICES ASSUME Off # {} PROVE FALSE
  OBVIOUS
<1>1. IsFiniteSet(T)
  BY FS_Subset
<1>2. PICK u \in Off : \A v \in Off : Cardinality(u) <= Cardinality(v)
  <2>1. Off \in SUBSET SUBSET T
    OBVIOUS
  <2> HIDE DEF Off
  <2> QED BY <1>1, <2>1, SmallestSubset
<1>3. /\ g[u] = IF u = {} THEN 0 ELSE f[Pick(u)] + g[u \ {Pick(u)}]
      /\ h[u] = IF u = {} THEN 0 ELSE e[Pick(u)] + h[u \ {Pick(u)}]
  BY DEF Adds
<1>4. u # {}
  BY <1>2, <1>3
<1>5. Pick(u) \in u /\ Pick(u) \in T
  BY <1>4, PickIn
<1>6. u \ {Pick(u)} \in SUBSET T /\ ~(Cardinality(u) <= Cardinality(u \ {Pick(u)}))
  BY <1>1, <1>5, SmallerSubset
<1>7. u \ {Pick(u)} \notin Off
  <2> HIDE DEF Off
  <2> QED BY <1>2, <1>6
<1>8. g[u \ {Pick(u)}] = h[u \ {Pick(u)}]
  BY <1>6, <1>7
<1> QED BY <1>2, <1>3, <1>4, <1>5, <1>8

LEMMA SumOf ==
  ASSUME NEW S, IsFiniteSet(S), NEW f, NEW g, Adds(f, g, S), NEW T \in SUBSET S
  PROVE  g[T] = SumFunctionOnSet(f, T)
<1>1. IsFiniteSet(T)
  BY FS_Subset
<1>2. PICK h : Adds(f, h, T) /\ SumFunctionOnSet(f, T) = h[T]
  BY <1>1, SumUnfolds
<1>3. \A u \in SUBSET T : g[u] = h[u]
  BY <1>2, AddsAgree
<1> QED BY <1>2, <1>3

(* What has the same summands has the same sum.                            *)
LEMMA SumSame ==
  ASSUME NEW S, IsFiniteSet(S), NEW f, NEW g, \A x \in S : f[x] = g[x]
  PROVE  SumFunctionOnSet(f, S) = SumFunctionOnSet(g, S)
<1>1. PICK h : Adds(f, h, S) /\ SumFunctionOnSet(f, S) = h[S]
  BY SumUnfolds
<1>2. PICK k : Adds(g, k, S) /\ SumFunctionOnSet(g, S) = k[S]
  BY SumUnfolds
<1>3. S \in SUBSET S
  OBVIOUS
<1>4. \A u \in SUBSET S : h[u] = k[u]
  BY <1>1, <1>2, <1>3, AddsAgree
<1> QED BY <1>1, <1>2, <1>3, <1>4

LEMMA SumPicks ==
  ASSUME NEW S, IsFiniteSet(S), NEW f
  PROVE  SumFunctionOnSet(f, S) =
           IF S = {} THEN 0 ELSE f[Pick(S)] + SumFunctionOnSet(f, S \ {Pick(S)})
<1>1. PICK g : Adds(f, g, S) /\ SumFunctionOnSet(f, S) = g[S]
  BY SumUnfolds
<1>2. g[S] = IF S = {} THEN 0 ELSE f[Pick(S)] + g[S \ {Pick(S)}]
  BY <1>1 DEF Adds
<1>3. S \ {Pick(S)} \in SUBSET S
  OBVIOUS
<1>4. g[S \ {Pick(S)}] = SumFunctionOnSet(f, S \ {Pick(S)})
  BY <1>1, <1>3, SumOf
<1> QED BY <1>1, <1>2, <1>4

(* Any summand may be split off first.                                     *)
LEMMA SumSplits ==
  ASSUME NEW S, IsFiniteSet(S), NEW f, \A x \in S : f[x] \in Nat
  PROVE  /\ SumFunctionOnSet(f, S) \in Nat
         /\ \A x \in S : SumFunctionOnSet(f, S) = f[x] + SumFunctionOnSet(f, S \ {x})
<1> DEFINE Sum(u) == SumFunctionOnSet(f, u)
           Good(u) == Sum(u) \in Nat /\ \A x \in u : Sum(u) = f[x] + Sum(u \ {x})
           Off == {u \in SUBSET S : ~Good(u)}
<1>1. Off = {}
  <2> SUFFICES ASSUME Off # {} PROVE FALSE
    OBVIOUS
  <2>1. PICK u \in Off : \A v \in Off : Cardinality(u) <= Cardinality(v)
    <3>1. Off \in SUBSET SUBSET S
      OBVIOUS
    <3> HIDE DEF Off
    <3> QED BY <3>1, SmallestSubset
  <2>2. u \in SUBSET S /\ ~Good(u) /\ IsFiniteSet(u)
    BY <2>1, FS_Subset
  <2>3. Sum(u) = IF u = {} THEN 0 ELSE f[Pick(u)] + Sum(u \ {Pick(u)})
    BY <2>2, SumPicks
  <2>4. \A x \in u : u \ {x} \in SUBSET S /\ u \ {x} \notin Off
    <3> HIDE DEF Off
    <3> QED BY <2>1, <2>2, SmallerSubset
  <2>5. \A x \in u : Good(u \ {x})
    BY <2>4
  <2> HIDE DEF Off, Sum
  <2>6. u # {}
    BY <2>2, <2>3
  <2> DEFINE y == Pick(u)
  <2>7. y \in u /\ f[y] \in Nat
    BY <2>2, <2>6, PickIn
  <2>8. Sum(u) = f[y] + Sum(u \ {y})
    BY <2>3, <2>6
  <2> HIDE DEF y
  <2>9. Sum(u) \in Nat
    BY <2>5, <2>7, <2>8
  <2>10. ASSUME NEW x \in u PROVE Sum(u) = f[x] + Sum(u \ {x})
    <3>1. CASE x = y
      BY <2>8, <3>1
    <3>2. CASE x # y
      <4> DEFINE r == (u \ {x}) \ {y}
      <4>1. x \in u \ {y} /\ y \in u \ {x} /\ (u \ {y}) \ {x} = r
        BY <2>7, <3>2
      <4>2. Sum(u \ {y}) = f[x] + Sum(r)
        BY <2>5, <2>7, <4>1
      <4>3. Sum(u \ {x}) = f[y] + Sum(r)
        BY <2>5, <4>1
      <4>4. f[x] \in Nat /\ Sum(u \ {y}) \in Nat /\ Sum(u \ {x}) \in Nat
        BY <2>2, <2>5, <2>7
      <4>5. Sum(r) \in Nat
        <5>1. u \ {x} \in SUBSET S /\ r \in SUBSET S
          BY <2>2
        <5>2. r \notin Off
          <6>1. /\ Cardinality(u) \in Nat /\ Cardinality(u \ {x}) \in Nat
                /\ Cardinality(r) \in Nat
            BY <2>2, <5>1, FS_Subset, FS_CardinalityType
          <6>2. ~(Cardinality(u) <= Cardinality(u \ {x}))
            BY <2>2, SmallerSubset
          <6>3. ~(Cardinality(u \ {x}) <= Cardinality(r))
            BY <4>1, <5>1, SmallerSubset
          <6> HIDE DEF r
          <6> QED BY <2>1, <6>1, <6>2, <6>3
        <5>3. Good(r)
          BY <5>1, <5>2 DEF Off
        <5> QED BY <5>3
      <4> QED BY <2>7, <2>8, <4>2, <4>3, <4>4, <4>5
    <3> QED BY <3>1, <3>2
  <2> QED BY <2>2, <2>9, <2>10
<1>2. S \in SUBSET S
  OBVIOUS
<1>3. Good(S)
  BY <1>1, <1>2
<1> QED BY <1>3

(* Sums of what agrees but for one summand.                                *)
LEMMA SumMoves ==
  ASSUME NEW S, IsFiniteSet(S), NEW f, NEW g, NEW x \in S,
         \A y \in S : f[y] \in Nat /\ g[y] \in Nat,
         \A y \in S : y # x => g[y] = f[y]
  PROVE  SumFunctionOnSet(g, S) + f[x] = SumFunctionOnSet(f, S) + g[x]
<1> DEFINE F == SumFunctionOnSet(f, S)
           G == SumFunctionOnSet(g, S)
           R == SumFunctionOnSet(f, S \ {x})
<1>1. F = f[x] + R
  BY SumSplits
<1>2. G = g[x] + SumFunctionOnSet(g, S \ {x})
  BY SumSplits
<1>3. IsFiniteSet(S \ {x})
  BY FS_Subset
<1>4. SumFunctionOnSet(g, S \ {x}) = R
  BY <1>3, SumSame
<1>5. R \in Nat
  BY <1>3, SumSplits
<1>6. f[x] \in Nat /\ g[x] \in Nat
  OBVIOUS
<1>7. G + f[x] = F + g[x]
  <2> HIDE DEF F, G, R
  <2> QED BY <1>1, <1>2, <1>4, <1>5, <1>6
<1> QED BY <1>7

(* The empty sum.                                                          *)
LEMMA SumOfNone == ASSUME NEW f, NEW S, S = {} PROVE SumFunctionOnSet(f, S) = 0
BY SumPicks, FS_EmptySet

(* The sum of sums.                                                        *)
LEMMA SumAdds ==
  ASSUME NEW S, IsFiniteSet(S), NEW f, NEW g, NEW h,
         \A x \in S : f[x] \in Nat /\ g[x] \in Nat /\ h[x] = f[x] + g[x]
  PROVE  SumFunctionOnSet(h, S) = SumFunctionOnSet(f, S) + SumFunctionOnSet(g, S)
<1> DEFINE F(u) == SumFunctionOnSet(f, u)
           G(u) == SumFunctionOnSet(g, u)
           H(u) == SumFunctionOnSet(h, u)
           Off == {u \in SUBSET S : H(u) # F(u) + G(u)}
<1>1. ASSUME NEW u \in SUBSET S
      PROVE  /\ F(u) \in Nat /\ G(u) \in Nat /\ H(u) \in Nat
             /\ \A x \in u : /\ F(u) = f[x] + F(u \ {x}) /\ G(u) = g[x] + G(u \ {x})
                             /\ H(u) = h[x] + H(u \ {x})
  <2>1. IsFiniteSet(u) /\ \A x \in u : f[x] \in Nat /\ g[x] \in Nat /\ h[x] \in Nat
    BY FS_Subset
  <2> QED BY <2>1, SumSplits
<1>3. Off = {}
  <2> SUFFICES ASSUME Off # {} PROVE FALSE
    OBVIOUS
  <2>1. PICK u \in Off : \A v \in Off : Cardinality(u) <= Cardinality(v)
    <3>1. Off \in SUBSET SUBSET S
      OBVIOUS
    <3> HIDE DEF Off
    <3> QED BY <3>1, SmallestSubset
  <2>2. u \in SUBSET S /\ H(u) # F(u) + G(u)
    BY <2>1
  <2>3. u # {}
    <3> SUFFICES ASSUME u = {} PROVE FALSE
      OBVIOUS
    <3>1. F(u) = 0 /\ G(u) = 0 /\ H(u) = 0
      BY SumOfNone
    <3> HIDE DEF F, G, H
    <3> QED BY <2>2, <3>1
  <2>4. PICK x \in u : TRUE
    BY <2>3
  <2>5. u \ {x} \in SUBSET S /\ ~(Cardinality(u) <= Cardinality(u \ {x}))
    BY <2>2, SmallerSubset
  <2>6. u \ {x} \notin Off
    <3> HIDE DEF Off
    <3> QED BY <2>1, <2>5
  <2>7. H(u \ {x}) = F(u \ {x}) + G(u \ {x})
    BY <2>5, <2>6
  <2>8. F(u \ {x}) \in Nat /\ G(u \ {x}) \in Nat /\ H(u \ {x}) \in Nat
    BY <1>1, <2>5
  <2>9. f[x] \in Nat /\ g[x] \in Nat /\ h[x] = f[x] + g[x]
    BY <2>2, <2>4
  <2>10. F(u) = f[x] + F(u \ {x}) /\ G(u) = g[x] + G(u \ {x}) /\ H(u) = h[x] + H(u \ {x})
    BY <1>1, <2>2, <2>4
  <2> HIDE DEF F, G, H
  <2> QED BY <2>2, <2>7, <2>8, <2>9, <2>10
<1>4. S \in SUBSET S
  OBVIOUS
<1> QED BY <1>3, <1>4

(* Two finite sets have together no more than each has.                    *)
LEMMA UnionSize ==
  ASSUME NEW A, NEW C, IsFiniteSet(A), IsFiniteSet(C)
  PROVE  IsFiniteSet(A \cup C) /\ Cardinality(A \cup C) <= Cardinality(A) + Cardinality(C)
<1>1. /\ IsFiniteSet(A \cup C)
      /\ Cardinality(A \cup C) = Cardinality(A) + Cardinality(C) - Cardinality(A \cap C)
  BY FS_Union
<1>2. IsFiniteSet(A \cap C)
  BY FS_Intersection
<1>3. Cardinality(A) \in Nat /\ Cardinality(C) \in Nat /\ Cardinality(A \cap C) \in Nat
  BY <1>2, FS_CardinalityType
<1> QED BY <1>1, <1>3

(* Nor do many.                                                            *)
LEMMA UnionBound ==
  ASSUME NEW S, IsFiniteSet(S), NEW F, NEW c,
         \A x \in S : IsFiniteSet(F[x]) /\ c[x] \in Nat /\ Cardinality(F[x]) <= c[x]
  PROVE  /\ IsFiniteSet(UNION {F[x] : x \in S})
         /\ Cardinality(UNION {F[x] : x \in S}) <= SumFunctionOnSet(c, S)
<1> DEFINE U(s) == UNION {F[x] : x \in s}
           C(s) == SumFunctionOnSet(c, s)
           Fits(s) == IsFiniteSet(U(s)) /\ Cardinality(U(s)) <= C(s)
           Off == {s \in SUBSET S : ~Fits(s)}
<1>1. ASSUME NEW s \in SUBSET S PROVE C(s) \in Nat /\ \A x \in s : C(s) = c[x] + C(s \ {x})
  <2>1. IsFiniteSet(s) /\ \A x \in s : c[x] \in Nat
    BY FS_Subset
  <2> QED BY <2>1, SumSplits
<1>2. Off = {}
  <2> SUFFICES ASSUME Off # {} PROVE FALSE
    OBVIOUS
  <2>1. PICK s \in Off : \A v \in Off : Cardinality(s) <= Cardinality(v)
    <3>1. Off \in SUBSET SUBSET S
      OBVIOUS
    <3> HIDE DEF Off
    <3> QED BY <3>1, SmallestSubset
  <2>2. s \in SUBSET S /\ ~Fits(s)
    BY <2>1
  <2>3. s # {}
    <3> SUFFICES ASSUME s = {} PROVE FALSE
      OBVIOUS
    <3>1. U(s) = {}
      OBVIOUS
    <3>2. C(s) = 0
      BY SumOfNone
    <3>3. IsFiniteSet(U(s)) /\ Cardinality(U(s)) = 0
      <4> HIDE DEF U
      <4> QED BY <3>1, FS_EmptySet
    <3> HIDE DEF U, C
    <3> QED BY <2>2, <3>2, <3>3
  <2>4. PICK x \in s : TRUE
    BY <2>3
  <2> DEFINE r == s \ {x}
  <2>5. r \in SUBSET S /\ ~(Cardinality(s) <= Cardinality(r))
    BY <2>2, SmallerSubset
  <2>6. r \notin Off
    <3> HIDE DEF Off, r
    <3> QED BY <2>1, <2>5
  <2>7. Fits(r)
    BY <2>5, <2>6
  <2>8. U(s) = U(r) \cup F[x]
    BY <2>4
  <2>9. IsFiniteSet(F[x]) /\ c[x] \in Nat /\ Cardinality(F[x]) <= c[x]
    BY <2>2, <2>4
  <2>10. C(r) \in Nat /\ C(s) = c[x] + C(r)
    BY <1>1, <2>2, <2>4, <2>5
  <2>11. IsFiniteSet(U(s)) /\ Cardinality(U(s)) <= Cardinality(U(r)) + Cardinality(F[x])
    <3> HIDE DEF U, r
    <3> QED BY <2>7, <2>8, <2>9, UnionSize
  <2>12. Cardinality(U(r)) \in Nat /\ Cardinality(F[x]) \in Nat /\ Cardinality(U(s)) \in Nat
    <3> HIDE DEF U, r
    <3> QED BY <2>7, <2>9, <2>11, FS_CardinalityType
  <2> HIDE DEF U, C, r
  <2> QED BY <2>2, <2>7, <2>9, <2>10, <2>11, <2>12
<1>3. S \in SUBSET S
  OBVIOUS
<1>4. Fits(S)
  BY <1>2, <1>3
<1> QED BY <1>4

(* A function has no more values than arguments.                           *)
LEMMA ImageSize ==
  ASSUME NEW S, IsFiniteSet(S), NEW f
  PROVE  IsFiniteSet({f[x] : x \in S}) /\ Cardinality({f[x] : x \in S}) <= Cardinality(S)
<1> DEFINE T == {f[x] : x \in S}
           g == [x \in S |-> f[x]]
<1>1. g \in Surjection(S, T)
  BY DEF Surjection
<1> HIDE DEF g, T
<1>2. IsFiniteSet(T) /\ Cardinality(T) <= Cardinality(S)
  BY <1>1, FS_Surjection
<1> QED BY <1>2 DEF T
=============================================================================
