------------------------------- MODULE Plan -------------------------------
(***************************************************************************)
(* The resolved plan: the nodes of a project, their dependency edges, and  *)
(* the three questions the supervisors ask of the graph (src/plan.rs).     *)
(*                                                                         *)
(* Edges are sequences because the code reads them in `depends_on` order:  *)
(* the first dependency that is not ready is the one a status names.       *)
(***************************************************************************)
EXTENDS Naturals, Sequences, FiniteSets, FiniteSetsExt

CONSTANTS
  Nodes,      \* every service and task of the plan
  DependsOn   \* DependsOn[n] is the sequence of n's dependencies

(* Config validation rejects unknown names and cycles before a Plan exists. *)
ASSUME PlanIsDag ==
  /\ IsFiniteSet(Nodes)
  /\ DependsOn \in [Nodes -> Seq(Nodes)]
  /\ \E rank \in [Nodes -> 0..Cardinality(Nodes)] :
       \A n \in Nodes : \A i \in DOMAIN DependsOn[n] :
         rank[DependsOn[n][i]] < rank[n]

Deps(n) == {DependsOn[n][i] : i \in DOMAIN DependsOn[n]}

Dependents(n) == {m \in Nodes : n \in Deps(m)}

Above[n \in Nodes] == Deps(n) \cup UNION {Above[d] : d \in Deps(n)}

(* Everything n depends on, directly or not; never n itself.               *)
TransitiveDeps(n) == Above[n]

(* Of the nodes a change matched, the upstream-most: the others are reached *)
(* through readiness, so that one edit is one restart.                      *)
DispatchRoots(hits) == {h \in hits : TransitiveDeps(h) \cap hits = {}}

Wave[n \in Nodes] ==
  IF Dependents(n) = {} THEN 0 ELSE 1 + Max({Wave[m] : m \in Dependents(n)})

Bug_StopsBefore(m, n) == FALSE   \* all nodes in one wave

(* Whether m is in an earlier stop wave than n.                             *)
StopsBefore(m, n) == Wave[m] < Wave[n]
=============================================================================
