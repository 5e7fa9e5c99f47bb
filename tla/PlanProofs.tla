----------------------------- MODULE PlanProofs -----------------------------
(***************************************************************************)
(* What the graph of a plan guarantees, whatever the plan.                 *)
(***************************************************************************)
EXTENDS Plan, FiniteSetTheorems, NaturalLemmas, TLAPS

(* The minimum of community module FiniteSetsExt is one, on numbers.      *)
LEMMA MinOfNaturals ==
  ASSUME NEW S \in SUBSET Nat, S # {}
  PROVE  Min(S) \in S /\ \A j \in S : Min(S) <= j
BY LeastNatural DEF Min

(* A function with values in Nat has a highest one on a finite set.        *)
LEMMA HasHighest ==
  ASSUME NEW D, IsFiniteSet(D), D # {}, NEW W, \A m \in D : W[m] \in Nat
  PROVE  \E m \in D : \A k \in D : W[k] <= W[m]
<1> DEFINE over(m) == {k \in D : W[k] > W[m]}
           sizes == {Cardinality(over(m)) : m \in D}
<1>1. ASSUME NEW m \in D PROVE IsFiniteSet(over(m)) /\ Cardinality(over(m)) \in Nat
  <2>1. over(m) \in SUBSET D
    OBVIOUS
  <2> QED BY <2>1, FS_Subset, FS_CardinalityType
<1>2. sizes \in SUBSET Nat /\ sizes # {}
  BY <1>1
<1>3. PICK c \in sizes : \A o \in sizes : c <= o
  BY <1>2, LeastNatural
<1>4. PICK m \in D : c = Cardinality(over(m))
  OBVIOUS
<1>5. ASSUME NEW k \in D, ~(W[k] <= W[m]) PROVE FALSE
  <2>1. W[k] \in Nat /\ W[m] \in Nat /\ W[k] > W[m]
    BY <1>5
  <2>2. over(k) \in SUBSET over(m) /\ k \in over(m) /\ k \notin over(k)
    BY <2>1
  <2>3. Cardinality(over(k)) \in sizes
    OBVIOUS
  <2>4. Cardinality(over(m)) <= Cardinality(over(k))
    BY <1>3, <1>4, <2>3
  <2> HIDE DEF over
  <2>5. IsFiniteSet(over(m)) /\ Cardinality(over(m)) \in Nat /\ Cardinality(over(k)) \in Nat
    BY <1>1
  <2>6. /\ Cardinality(over(k)) <= Cardinality(over(m))
        /\ Cardinality(over(m)) = Cardinality(over(k)) => over(m) = over(k)
    BY <2>2, <2>5, FS_Subset
  <2> QED BY <2>2, <2>4, <2>5, <2>6
<1> QED BY <1>5

(* The height of a node above the leaves of the stop order.                *)
Level(W, n) ==
  IF Dependents(n) = {} THEN 0 ELSE 1 + Max({W[m] : m \in Dependents(n)})

(* The waves are defined: on a graph without cycles the recursion ends.    *)
LEMMA WaveUnfolds == \A n \in Nodes : Wave[n] = Level(Wave, n)
<1>1. PICK rank \in [Nodes -> 0..Cardinality(Nodes)] :
        \A n \in Nodes : \A i \in DOMAIN DependsOn[n] : rank[DependsOn[n][i]] < rank[n]
  BY PlanIsDag
<1> DEFINE top == Cardinality(Nodes)
           height(n) == top - rank[n]
           Upto(k) == {n \in Nodes : height(n) < k}
           Solves(W, k) == \A n \in Upto(k) : W[n] = Level(W, n)
<1>2. top \in Nat /\ \A n \in Nodes : rank[n] \in Nat /\ height(n) \in Nat /\ height(n) <= top
  BY <1>1, PlanIsDag, FS_CardinalityType
<1>3. ASSUME NEW n \in Nodes, NEW m \in Dependents(n) PROVE m \in Nodes /\ height(m) < height(n)
  BY <1>1, <1>2 DEF Dependents, Deps
<1>4. ASSUME NEW k \in Nat, NEW W, Solves(W, k)
      PROVE  \E V : V = [n \in Nodes |-> V[n]] /\ Solves(V, k + 1)
  <2> DEFINE V == [n \in Nodes |-> IF n \in Upto(k + 1) THEN Level(W, n) ELSE W[n]]
  <2>1. \A n \in Upto(k) : V[n] = W[n]
    BY <1>2, <1>4
  <2>2. ASSUME NEW n \in Upto(k + 1) PROVE V[n] = Level(V, n)
    <3>1. \A m \in Dependents(n) : m \in Upto(k) /\ V[m] = W[m]
      BY <1>2, <1>3, <2>1
    <3>2. {V[m] : m \in Dependents(n)} = {W[m] : m \in Dependents(n)}
      BY <3>1
    <3> QED BY <3>2 DEF Level
  <2> QED BY <2>2
<1> DEFINE Unsolved == {k \in Nat : ~ \E W : W = [n \in Nodes |-> W[n]] /\ Solves(W, k)}
<1>5. Unsolved = {}
  <2> SUFFICES ASSUME Unsolved # {} PROVE FALSE
    OBVIOUS
  <2>1. PICK k \in Unsolved : \A j \in Unsolved : k <= j
    BY LeastNatural
  <2>2. k # 0
    <3>1. Upto(0) = {}
      BY <1>2
    <3>2. \E W : W = [n \in Nodes |-> W[n]]
      <4>1. [o \in Nodes |-> 0] = [n \in Nodes |-> [o \in Nodes |-> 0][n]]
        OBVIOUS
      <4> QED BY <4>1
    <3> QED BY <3>1, <3>2
  <2>3. k - 1 \in Nat /\ k - 1 \notin Unsolved /\ (k - 1) + 1 = k
    BY <2>1, <2>2
  <2> QED BY <1>4, <2>3
<1>6. PICK W : W = [n \in Nodes |-> W[n]] /\ Solves(W, top + 1)
  <2>1. top + 1 \in Nat
    BY <1>2
  <2> QED BY <1>5, <2>1
<1>7. W = [n \in Nodes |-> Level(W, n)]
  <2>1. \A n \in Nodes : W[n] = Level(W, n)
    BY <1>2, <1>6
  <2> QED BY <1>6, <2>1
<1>8. Wave = [n \in Nodes |-> Level(Wave, n)]
  BY <1>7 DEF Wave, Level
<1> QED BY <1>8

(* The maximum in Wave's definition exists and bounds the dependents.     *)
LEMMA HighestDependent ==
  ASSUME NEW n \in Nodes, Dependents(n) # {}, \A m \in Dependents(n) : Wave[m] \in Nat
  PROVE  /\ Max({Wave[m] : m \in Dependents(n)}) \in Nat
         /\ \A m \in Dependents(n) : Wave[m] <= Max({Wave[o] : o \in Dependents(n)})
<1>1. IsFiniteSet(Dependents(n))
  <2>1. Dependents(n) \in SUBSET Nodes
    BY DEF Dependents
  <2> QED BY <2>1, PlanIsDag, FS_Subset
<1>2. \E m \in Dependents(n) : \A k \in Dependents(n) : Wave[k] <= Wave[m]
  BY <1>1, HasHighest
<1> DEFINE S == {Wave[m] : m \in Dependents(n)}
<1>3. S \subseteq Nat /\ \E x \in S : \A y \in S : x >= y
  BY <1>2
<1>4. Max(S) \in S /\ \A y \in S : Max(S) >= y
  BY <1>3 DEF Max
<1> QED BY <1>3, <1>4

(* Waves are counted from zero.                                            *)
LEMMA WaveType == \A n \in Nodes : Wave[n] \in Nat
<1>1. PICK rank \in [Nodes -> 0..Cardinality(Nodes)] :
        \A n \in Nodes : \A i \in DOMAIN DependsOn[n] : rank[DependsOn[n][i]] < rank[n]
  BY PlanIsDag
<1> DEFINE top == Cardinality(Nodes)
           height(n) == top - rank[n]
           Untyped == {height(n) : n \in {o \in Nodes : Wave[o] \notin Nat}}
<1>2. top \in Nat /\ \A n \in Nodes : rank[n] \in Nat /\ height(n) \in Nat
  BY <1>1, PlanIsDag, FS_CardinalityType
<1>3. ASSUME NEW n \in Nodes, NEW m \in Dependents(n) PROVE m \in Nodes /\ height(m) < height(n)
  BY <1>1, <1>2 DEF Dependents, Deps
<1> SUFFICES ASSUME Untyped # {} PROVE FALSE
  OBVIOUS
<1>4. Untyped \in SUBSET Nat
  BY <1>2
<1>5. PICK h \in Untyped : \A o \in Untyped : h <= o
  BY <1>4, LeastNatural
<1>6. PICK n \in Nodes : Wave[n] \notin Nat /\ h = height(n)
  OBVIOUS
<1>7. \A m \in Dependents(n) : Wave[m] \in Nat
  <2> SUFFICES ASSUME NEW m \in Dependents(n), Wave[m] \notin Nat PROVE FALSE
    OBVIOUS
  <2>1. m \in Nodes /\ height(m) < height(n) /\ height(m) \in Nat /\ height(n) \in Nat
    BY <1>2, <1>3
  <2>2. height(m) \in Untyped
    BY <2>1
  <2>3. height(n) <= height(m)
    BY <1>5, <1>6, <2>2
  <2> QED BY <2>1, <2>3
<1>8. CASE Dependents(n) = {}
  <2>1. Wave[n] = 0
    BY <1>8, WaveUnfolds DEF Level
  <2> QED BY <1>6, <2>1
<1>9. CASE Dependents(n) # {}
  <2>1. Max({Wave[m] : m \in Dependents(n)}) \in Nat
    BY <1>7, <1>9, HighestDependent
  <2> QED BY <1>6, <1>9, <2>1, WaveUnfolds DEF Level
<1> QED BY <1>8, <1>9

(* Stop order: every dependent of a node is in an earlier wave.            *)
THEOREM DependentsStopFirst ==
  \A n \in Nodes : \A m \in Dependents(n) : StopsBefore(m, n)
<1> SUFFICES ASSUME NEW n \in Nodes, NEW m \in Dependents(n) PROVE Wave[m] < Wave[n]
  BY DEF StopsBefore
<1>1. m \in Nodes /\ \A o \in Dependents(n) : Wave[o] \in Nat
  BY WaveType DEF Dependents
<1>2. Wave[n] = 1 + Max({Wave[o] : o \in Dependents(n)})
  BY WaveUnfolds DEF Level
<1>3. /\ Max({Wave[o] : o \in Dependents(n)}) \in Nat
      /\ Wave[m] <= Max({Wave[o] : o \in Dependents(n)})
  BY <1>1, HighestDependent
<1> QED BY <1>1, <1>2, <1>3

(***************************************************************************)
(* What is above a node.                                                   *)
(***************************************************************************)

(* The dependencies of n, and what A has for each of them.                 *)
Reach(A, n) == Deps(n) \cup UNION {A[d] : d \in Deps(n)}

(* Transitive dependencies are defined: without cycles the recursion ends. *)
LEMMA AboveUnfolds == \A n \in Nodes : Above[n] = Reach(Above, n)
<1>1. PICK rank \in [Nodes -> 0..Cardinality(Nodes)] :
        \A n \in Nodes : \A i \in DOMAIN DependsOn[n] : rank[DependsOn[n][i]] < rank[n]
  BY PlanIsDag
<1> DEFINE top == Cardinality(Nodes)
           Below(k) == {n \in Nodes : rank[n] < k}
           Solves(A, k) == \A n \in Below(k) : A[n] = Reach(A, n)
<1>2. top \in Nat /\ \A n \in Nodes : rank[n] \in Nat /\ rank[n] <= top
  BY <1>1, PlanIsDag, FS_CardinalityType
<1>3. ASSUME NEW n \in Nodes, NEW d \in Deps(n) PROVE d \in Nodes /\ rank[d] < rank[n]
  BY <1>1, PlanIsDag DEF Deps
<1>4. ASSUME NEW k \in Nat, NEW A, Solves(A, k)
      PROVE  \E B : B = [n \in Nodes |-> B[n]] /\ Solves(B, k + 1)
  <2> DEFINE B == [n \in Nodes |-> IF n \in Below(k + 1) THEN Reach(A, n) ELSE A[n]]
  <2>1. \A n \in Below(k) : B[n] = A[n]
    BY <1>2, <1>4
  <2>2. ASSUME NEW n \in Below(k + 1) PROVE B[n] = Reach(B, n)
    <3>1. \A d \in Deps(n) : d \in Below(k) /\ B[d] = A[d]
      BY <1>2, <1>3, <2>1
    <3>2. {B[d] : d \in Deps(n)} = {A[d] : d \in Deps(n)}
      BY <3>1
    <3> QED BY <3>2 DEF Reach
  <2> QED BY <2>2
<1> DEFINE Unsolved == {k \in Nat : ~ \E A : A = [n \in Nodes |-> A[n]] /\ Solves(A, k)}
<1>5. Unsolved = {}
  <2> SUFFICES ASSUME Unsolved # {} PROVE FALSE
    OBVIOUS
  <2>1. PICK k \in Unsolved : \A j \in Unsolved : k <= j
    BY LeastNatural
  <2>2. k # 0
    <3>1. Below(0) = {}
      BY <1>2
    <3>2. \E A : A = [n \in Nodes |-> A[n]]
      <4>1. [o \in Nodes |-> 0] = [n \in Nodes |-> [o \in Nodes |-> 0][n]]
        OBVIOUS
      <4> QED BY <4>1
    <3> QED BY <3>1, <3>2
  <2>3. k - 1 \in Nat /\ k - 1 \notin Unsolved /\ (k - 1) + 1 = k
    BY <2>1, <2>2
  <2> QED BY <1>4, <2>3
<1>6. PICK A : A = [n \in Nodes |-> A[n]] /\ Solves(A, top + 1)
  <2>1. top + 1 \in Nat
    BY <1>2
  <2> QED BY <1>5, <2>1
<1>7. A = [n \in Nodes |-> Reach(A, n)]
  <2>1. \A n \in Nodes : A[n] = Reach(A, n)
    BY <1>2, <1>6
  <2> QED BY <1>6, <2>1
<1>8. Above = [n \in Nodes |-> Reach(Above, n)]
  BY <1>7 DEF Above, Reach
<1> QED BY <1>8

(* A set that has the dependencies of n and of its members has all of n's. *)
LEMMA AboveWithin ==
  ASSUME NEW S, \A m \in S \cap Nodes : Deps(m) \subseteq S,
         NEW n \in Nodes, Deps(n) \subseteq S
  PROVE  TransitiveDeps(n) \subseteq S
<1>1. PICK rank \in [Nodes -> 0..Cardinality(Nodes)] :
        \A m \in Nodes : \A i \in DOMAIN DependsOn[m] : rank[DependsOn[m][i]] < rank[m]
  BY PlanIsDag
<1> DEFINE Out(m) == Deps(m) \subseteq S /\ ~(Above[m] \subseteq S)
           Ranks == {rank[m] : m \in {o \in Nodes : Out(o)}}
<1>2. \A m \in Nodes : rank[m] \in Nat
  BY <1>1, PlanIsDag, FS_CardinalityType
<1>3. ASSUME NEW m \in Nodes, NEW d \in Deps(m) PROVE d \in Nodes /\ rank[d] < rank[m]
  BY <1>1, PlanIsDag DEF Deps
<1> SUFFICES ASSUME Ranks # {} PROVE FALSE
  BY DEF TransitiveDeps
<1>4. Ranks \in SUBSET Nat
  BY <1>2
<1>5. PICK r \in Ranks : \A o \in Ranks : r <= o
  BY <1>4, LeastNatural
<1>6. PICK m \in Nodes : Out(m) /\ r = rank[m]
  OBVIOUS
<1>7. \A d \in Deps(m) : Above[d] \subseteq S
  <2> SUFFICES ASSUME NEW d \in Deps(m), ~(Above[d] \subseteq S) PROVE FALSE
    OBVIOUS
  <2>1. d \in Nodes /\ rank[d] < rank[m] /\ rank[d] \in Nat /\ rank[m] \in Nat
    BY <1>2, <1>3
  <2>2. Deps(d) \subseteq S
    BY <1>6, <2>1
  <2>3. rank[m] <= rank[d]
    BY <1>5, <1>6, <2>1, <2>2
  <2> QED BY <2>1, <2>3
<1>8. Above[m] = Deps(m) \cup UNION {Above[d] : d \in Deps(m)}
  BY AboveUnfolds DEF Reach
<1> QED BY <1>6, <1>7, <1>8
=============================================================================
