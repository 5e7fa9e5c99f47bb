------------------------------- MODULE Board -------------------------------
(***************************************************************************)
(* The engine's board: each node's status and generation, and the tick     *)
(* every status change sends to the supervisors (Engine::set and dep_view  *)
(* in src/engine.rs, Status and apply in src/state.rs).                    *)
(*                                                                         *)
(* A dependency is never a message. A supervisor marks the board seen,     *)
(* reads a snapshot of its dependencies and decides; a write after the mark *)
(* wakes it again. Durations and exit codes of a status are left out. A    *)
(* node waiting for dependency d has d itself as its status.               *)
(***************************************************************************)
EXTENDS Plan

VARIABLES
  status,   \* status[n]: what the board shows for n
  gen,      \* gen[n]: how many usable results n has produced
  unseen    \* unseen[n]: a tick n's supervisor has not marked seen

board == <<status, gen, unseen>>

Kinds == {"pending", "queued", "starting", "healthy", "unhealthy", "running",
          "done", "failed", "exited", "backoff", "stopped", "stopping"}

ASSUME StatusNamesApart == Nodes \cap Kinds = {}

Statuses == Kinds \cup Nodes

(* The one definition of readiness. *)
IsReady(s) == s \in {"healthy", "done"}

(* A node without dependencies never asks for the board's ticks.           *)
Watches(n) == DependsOn[n] # <<>>

Ticked == [n \in Nodes |-> Watches(n)]

Bug_Publish(n, s, marks) ==   \* ticks only when readiness flips
  /\ status' = [status EXCEPT ![n] = s]
  /\ gen' = IF IsReady(s) THEN [gen EXCEPT ![n] = @ + 1] ELSE gen
  /\ unseen' = IF IsReady(status[n]) = IsReady(s) THEN marks ELSE Ticked

(* Engine::set. Writing the status a node already has is a no-op, unless it *)
(* is a new result; `marks` are the unseen marks before the write.          *)
Publish(n, s, marks) ==
  /\ status' = [status EXCEPT ![n] = s]
  /\ gen' = IF IsReady(s) THEN [gen EXCEPT ![n] = @ + 1] ELSE gen
  /\ unseen' = IF status[n] = s /\ ~IsReady(s) THEN marks ELSE Ticked

(* borrow_and_update: the marks once n's supervisor has looked.            *)
Looked(n) == [unseen EXCEPT ![n] = FALSE]

Unready(n) == {i \in DOMAIN DependsOn[n] : ~IsReady(status[DependsOn[n][i]])}

(* Deps::unready: the first dependency, in order, that is not ready.       *)
FirstUnready(n) == DependsOn[n][Min(Unready(n))]

(* Deps::generations, as a function on all nodes; only n's dependencies    *)
(* are ever compared.                                                      *)
Generations(n) == [d \in Nodes |-> IF d \in Deps(n) THEN gen[d] ELSE 0]

BoardInit ==
  /\ status = [n \in Nodes |-> "pending"]
  /\ gen = [n \in Nodes |-> 0]
  /\ unseen = [n \in Nodes |-> FALSE]
=============================================================================
