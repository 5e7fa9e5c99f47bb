------------------------------ MODULE MCWatch ------------------------------
(***************************************************************************)
(* The instance of Watch for TLC: a service on a task. The task watches    *)
(* one file, the service that and another.                                 *)
(***************************************************************************)
EXTENDS Watch, TLC

CONSTANTS f, g, dir, check, api   \* model values

TwoWatch   == (check :> {f}) @@ (api :> {f, g})
ApiOnCheck == (check :> {}) @@ (api :> {check})
=============================================================================
