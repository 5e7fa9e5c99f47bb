----------------------------- MODULE MCRunOnce -----------------------------
(***************************************************************************)
(* Instances of RunOnce for TLC.                                           *)
(***************************************************************************)
EXTENDS RunOnce, TLC

CONSTANTS s, t, u, w   \* model values

IgnoreAll    == [n \in Nodes |-> "ignore"]   \* nothing is ever restarted by hand
NoRestarts   == [n \in Nodes |-> 0]
Unlimited    == [n \in Nodes |-> Faults + 1]
AlwaysPolicy == [n \in Nodes |-> "always"]
NeverPolicy  == [n \in Nodes |-> "never"]

(* A task on an in-process service on a task, and one task apart: a failure *)
(* at the root blocks a task that does not name it, and one that it does   *)
(* not concern runs on.                                                    *)
BranchNodes == {s, t, u, w}
BranchDeps  == (t :> <<>>) @@ (s :> <<t>>) @@ (u :> <<s>>) @@ (w :> <<>>)

(* A task on a task on a service. *)
TowerNodes == {s, t, u}
TowerDeps  == (s :> <<>>) @@ (t :> <<s>>) @@ (u :> <<t>>)

(* A task on a service. *)
PairNodes == {s, t}
PairDeps  == (s :> <<>>) @@ (t :> <<s>>)
=============================================================================
