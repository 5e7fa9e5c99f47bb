------------------------------ MODULE MCEngine ------------------------------
(***************************************************************************)
(* Instances of Engine for TLC.                                            *)
(***************************************************************************)
EXTENDS EngineInv, TLC

CONSTANTS t, u, a, b, l   \* model values

OneRestart == [n \in Nodes |-> 1]

(* A task, a service on it, and a service on both.                         *)
TriangleNodes  == {t, a, b}
TriangleDeps   == (t :> <<>>) @@ (a :> <<t>>) @@ (b :> <<t, a>>)
TriangleChange == (t :> "restart") @@ (a :> "restart") @@ (b :> "queue")
TrianglePolicy == (t :> "always") @@ (a :> "always") @@ (b :> "on-change")

AlwaysPolicy  == [n \in Nodes |-> "always"]

(* A task on another task.                                                 *)
ChainNodes    == {t, u}
ChainDeps     == (t :> <<>>) @@ (u :> <<t>>)

(* A task, a service with probes, and a service on both.                   *)
ForkNodes     == {t, l, b}
ForkDeps      == (t :> <<>>) @@ (l :> <<>>) @@ (b :> <<t, l>>)
ForkChange    == (t :> "restart") @@ (l :> "signal") @@ (b :> "queue")
ForkPolicy    == (t :> "always") @@ (l :> "always") @@ (b :> "on-change")

(* A service alone. *)
ApartDeps     == [n \in Nodes |-> <<>>]

RestartAll    == [n \in Nodes |-> "restart"]
=============================================================================
