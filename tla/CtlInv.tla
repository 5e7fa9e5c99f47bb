------------------------------- MODULE CtlInv -------------------------------
(***************************************************************************)
(* What is true of Ctl in every reachable state: the inductive             *)
(* strengthening from which CtlProofs derives the safety properties.       *)
(***************************************************************************)
EXTENDS Ctl

(* What is known of the Stop follows from how far its send has come, and   *)
(* only a drain holds it.                                                  *)
StopPlaced ==
  /\ stopping <=> stopSend = "sent"
  /\ stopSend = "idle" => urgent = 0 /\ ~saw /\ ~late /\ rcv # "exiting"
  /\ saw => rcv \in Draining

(* A receive that began with the Stop queued finds it at its first step,   *)
(* and a drain at its own.                                                 *)
LateFindsStop ==
  late => /\ rcv \in Receiving => rcv = "tryUrgent"
          /\ rcv \in {"drainNormal", "drainFlag"} => saw
          /\ rcv # "opening"

(* Only a gate drains the queue and opens. *)
GatesDrain == rcv \in Draining \cup {"opening"} => gated

CtlIInv == CtlTypeOK /\ StopPlaced /\ LateFindsStop /\ StopIsThere /\ GatesDrain /\ RestartKept
=============================================================================
