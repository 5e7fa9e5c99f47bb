----------------------------- MODULE BoardTicks -----------------------------
(***************************************************************************)
(* How a change of status reaches those who wait for it, one lock and one  *)
(* tick at a time (src/engine.rs: Engine::set, dep_view, the loops of      *)
(* supervise_service, supervise_task, await_tasks and await_all_tasks, and *)
(* next_event). A write takes the state's lock and ticks the board after   *)
(* giving it back; a pass marks the board seen, then takes the lock for a  *)
(* snapshot, then acts on it. All of it runs on many threads. Engine takes *)
(* a write with its tick, and a mark with its snapshot, as one step.       *)
(***************************************************************************)
EXTENDS Naturals

CONSTANTS
  Parties,       \* the supervisors, one for each node, and the waiter of a one-shot run
  Below,         \* Below[p]: those whose status p acts on
  Statuses,      \* the statuses that are told apart
  ReadyStatuses, \* those a dependent may start on
  MaxWrites      \* bounds the writes

ASSUME TickAssumption ==
  /\ Below \in [Parties -> SUBSET Parties]
  /\ "pending" \in Statuses
  /\ MaxWrites \in Nat

VARIABLES
  shown,   \* shown[p]: the status and the generation of p's node, behind the lock
  view,    \* view[p]: the snapshot p acts on
  unseen,  \* unseen[p]: a tick p has not marked seen, or the Begin its queue starts with
  step,    \* step[p]: "waits", "marked", "acts", "ticks" (has written, and not yet ticked)
  writes   \* writes so far

tickVars == <<shown, view, unseen, step, writes>>

Pending == [status |-> "pending", generation |-> 0]

TickInit ==
  /\ shown = [p \in Parties |-> Pending]
  /\ view = [p \in Parties |-> [d \in Below[p] |-> Pending]]
  /\ unseen \in [Parties -> BOOLEAN]
  /\ step = [p \in Parties |-> "waits"]
  /\ writes = 0

(* A pass begins, for a tick or for anything else that happens to the      *)
(* node: borrow_and_update.                                                *)
Marks(p) ==
  /\ step[p] = "waits"
  /\ step' = [step EXCEPT ![p] = "marked"]
  /\ unseen' = [unseen EXCEPT ![p] = FALSE]
  /\ UNCHANGED <<shown, view, writes>>

(* Engine::dep_view, under the lock.                                       *)
Snapshots(p) ==
  /\ step[p] = "marked"
  /\ step' = [step EXCEPT ![p] = "acts"]
  /\ view' = [view EXCEPT ![p] = [d \in Below[p] |-> shown[d]]]
  /\ UNCHANGED <<shown, unseen, writes>>

(* Engine::set, as far as the lock is held. The status a node already has  *)
(* is not written again, unless it is a new result.                        *)
Sets(p, s) ==
  /\ step[p] = "acts"
  /\ ~(shown[p].status = s /\ s \notin ReadyStatuses)
  /\ writes < MaxWrites /\ writes' = writes + 1
  /\ shown' = [shown EXCEPT ![p] = [status |-> s,
       generation |-> @.generation + (IF s \in ReadyStatuses THEN 1 ELSE 0)]]
  /\ step' = [step EXCEPT ![p] = "ticks"]
  /\ UNCHANGED <<view, unseen>>

Bug_Sends(p) ==   \* wakes only those that wait at this moment
  /\ step[p] = "ticks"
  /\ step' = [step EXCEPT ![p] = "acts"]
  /\ unseen' = [q \in Parties |-> unseen[q] \/ step[q] = "waits"]
  /\ UNCHANGED <<shown, view, writes>>

(* Its end: send_modify.                                                   *)
Sends(p) ==
  /\ step[p] = "ticks"
  /\ step' = [step EXCEPT ![p] = "acts"]
  /\ unseen' = [q \in Parties |-> TRUE]
  /\ UNCHANGED <<shown, view, writes>>

(* All actions of the pass are done, its command included: changed().await. *)
Sleeps(p) ==
  /\ step[p] = "acts"
  /\ step' = [step EXCEPT ![p] = "waits"]
  /\ UNCHANGED <<shown, view, unseen, writes>>

Passes(p) == Snapshots(p) \/ Sends(p) \/ Sleeps(p)

TickNext == \E p \in Parties : Marks(p) \/ Passes(p) \/ \E s \in Statuses : Sets(p, s)

(* The runtime polls who can move, and a pass ends.                        *)
TickFair == \A p \in Parties : WF_tickVars(Passes(p)) /\ WF_tickVars(unseen[p] /\ Marks(p))

TickSpec == TickInit /\ [][TickNext]_tickVars

-----------------------------------------------------------------------------
(* Types.                                                                  *)
TickTypeOK ==
  LET Shown == [status : Statuses, generation : Nat] IN
  /\ shown \in [Parties -> Shown]
  /\ view = [p \in Parties |-> view[p]] /\ \A p \in Parties : view[p] \in [Below[p] -> Shown]
  /\ unseen \in [Parties -> BOOLEAN]
  /\ step \in [Parties -> {"waits", "marked", "acts", "ticks"}]
  /\ writes \in Nat

(* Who waits with nothing unseen knows what everyone below it shows, but   *)
(* for those whose tick is on its way. A tick between the mark and the     *)
(* snapshot, or between the snapshot and the wait, is not lost.            *)
SleepsInformed ==
  \A p \in Parties : step[p] = "waits" /\ ~unseen[p] =>
    \A d \in Below[p] : step[d] = "ticks" \/ view[p][d] = shown[d]

Atomic == INSTANCE Notices WITH
  owed <- [p \in Parties |-> \/ unseen[p] \/ step[p] = "marked"
                             \/ \E q \in Parties : step[q] = "ticks"]

(* The passes of Engine: to those who act on it the board is one where a   *)
(* write wakes at once and a look sees all, and every change is looked at, *)
(* if the passes end; and nobody sleeps on what has changed.               *)
PassesAreAtomic == Atomic!NoticeSpec /\ []SleepsInformed
=============================================================================
