-------------------------------- MODULE Ctl --------------------------------
(***************************************************************************)
(* One node's control queue (src/ctl.rs), at the grain of single operations *)
(* on its two channels and its flag, which other threads may come between. *)
(*                                                                         *)
(* Sending a Stop (once per node, by shutdown) queues it and then raises   *)
(* the flag; sending a Restart reads the flag and then queues it. The      *)
(* supervisor receives, and drains the queue before each cycle. A parked   *)
(* receive is dropped when next_event hears of something else first.       *)
(*                                                                         *)
(* A Restart that was received always ends the running cycle here; the     *)
(* policies that pass one over are in Engine.                              *)
(***************************************************************************)
EXTENDS Naturals

CONSTANTS
  Senders,    \* who sends Restarts: the watcher, the control socket, the TUI
  MaxSends    \* bound on the sends of Restarts

ASSUME CtlAssumption == MaxSends \in Nat

VARIABLES
  urgent,     \* Stops in the urgent channel
  normal,     \* Restarts in the normal channel
  stopping,   \* the flag
  stopSend,   \* where the send of the Stop stands
  sender,     \* sender[s]: where s's send of a Restart stands
  sends,      \* sends of Restarts begun so far
  rcv,        \* where the supervisor stands in recv or drain_stale
  gated,      \* no cycle is running: the next one is at its gate
  saw,        \* the drain under way has taken a Stop
  late,       \* history: recv or drain_stale began with the Stop queued
  owed        \* history: a Restart was queued since a cycle last opened

queues  == <<urgent, normal, stopping>>
sending == <<stopSend, sender, sends>>
history == <<late, owed>>
vars    == <<queues, sending, rcv, gated, saw, history>>

Receiving == {"tryUrgent", "flag", "tryNormal", "flagAgain", "onUrgent", "onBoth"}
Parked    == {"onUrgent", "onBoth"}
Draining  == {"drainUrgent", "drainNormal", "drainFlag"}

(* The first gate waits for dependencies, or drains before it opens.       *)
CtlInit ==
  /\ urgent = 0 /\ normal = 0 /\ stopping = FALSE
  /\ stopSend = "idle" /\ sender = [s \in Senders |-> "idle"] /\ sends = 0
  /\ rcv \in {"idle", "drainUrgent"} /\ gated = TRUE /\ saw = FALSE
  /\ late = FALSE /\ owed = FALSE

(***************************************************************************)
(* Sender::send.                                                           *)
(***************************************************************************)

StopSendTo(step) == stopSend' = step /\ UNCHANGED <<normal, sender, sends, rcv, gated, saw, history>>

Bug_SendStop ==   \* raises the flag first
  \/ /\ stopSend = "idle" /\ StopSendTo("queued")
     /\ stopping' = TRUE /\ UNCHANGED urgent
  \/ /\ stopSend = "queued" /\ StopSendTo("sent")
     /\ urgent' = urgent + 1 /\ UNCHANGED stopping

SendStop ==
  \/ /\ stopSend = "idle" /\ StopSendTo("queued")
     /\ urgent' = urgent + 1 /\ UNCHANGED stopping
  \/ /\ stopSend = "queued" /\ StopSendTo("sent")
     /\ stopping' = TRUE /\ UNCHANGED urgent

(* A Restart is refused once the flag is up; one let through is queued,    *)
(* however late.                                                           *)
SendRestart(s) ==
  \/ /\ sender[s] = "idle"
     /\ sends < MaxSends /\ sends' = sends + 1
     /\ sender' = IF stopping THEN sender ELSE [sender EXCEPT ![s] = "passed"]
     /\ UNCHANGED <<queues, stopSend, rcv, gated, saw, history>>
  \/ /\ sender[s] = "passed"
     /\ sender' = [sender EXCEPT ![s] = "idle"]
     /\ normal' = normal + 1
     /\ owed' = TRUE
     /\ UNCHANGED <<urgent, stopping, stopSend, sends, rcv, gated, saw, late>>

(***************************************************************************)
(* Receiver::recv.                                                         *)
(***************************************************************************)

Goto(step) == rcv' = step /\ UNCHANGED <<sending, saw, owed>>

(* recv or drain_stale begins. *)
Enter(step) == Goto(step) /\ late' = (stopSend # "idle")

(* The event ends the cycle that runs, if one does. The gate of the next   *)
(* drains the queue if the dependencies are ready, and else waits.         *)
EndCycle == gated' = TRUE /\ \E step \in {"idle", "drainUrgent"} : Enter(step)

TakeStop == /\ urgent > 0 /\ urgent' = urgent - 1
            /\ Goto("exiting")
            /\ UNCHANGED <<normal, stopping, gated, late>>

TakeRestart == /\ normal > 0 /\ normal' = normal - 1
               /\ EndCycle
               /\ UNCHANGED <<urgent, stopping>>

Bug_Receive == rcv = "idle" /\ Enter("tryNormal") /\ UNCHANGED <<queues, gated>>   \* one flat queue

Receive == rcv = "idle" /\ Enter("tryUrgent") /\ UNCHANGED <<queues, gated>>

TryUrgent ==
  /\ rcv = "tryUrgent"
  /\ \/ TakeStop
     \/ urgent = 0 /\ Goto("flag") /\ UNCHANGED <<queues, gated, late>>

LoadFlag ==
  /\ rcv = "flag"
  /\ Goto(IF stopping THEN "flagAgain" ELSE "tryNormal")
  /\ UNCHANGED <<queues, gated, late>>

TryNormal ==
  /\ rcv = "tryNormal"
  /\ \/ TakeRestart
     \/ normal = 0 /\ Goto("flagAgain") /\ UNCHANGED <<queues, gated, late>>

LoadFlagAgain ==
  /\ rcv = "flagAgain"
  /\ Goto(IF stopping THEN "onUrgent" ELSE "onBoth")
  /\ UNCHANGED <<queues, gated, late>>

(* The select! polls its two channels in any order.                        *)
Wake ==
  \/ rcv \in Parked /\ TakeStop
  \/ rcv = "onBoth" /\ TakeRestart

(* next_event takes an exit, a timer or a tick of the board instead. A     *)
(* parked receive has taken nothing.                                       *)
Cancel ==
  /\ rcv \in Parked
  /\ EndCycle \/ (Enter("idle") /\ UNCHANGED gated)
  /\ UNCHANGED queues

(***************************************************************************)
(* Receiver::drain_stale, and the gate that asks for it.                   *)
(***************************************************************************)

DrainUrgent ==
  /\ rcv = "drainUrgent"
  /\ \/ urgent > 0 /\ urgent' = urgent - 1 /\ saw' = TRUE /\ UNCHANGED rcv
     \/ urgent = 0 /\ rcv' = "drainNormal" /\ UNCHANGED <<urgent, saw>>
  /\ UNCHANGED <<normal, stopping, sending, gated, history>>

DrainNormal ==
  /\ rcv = "drainNormal"
  /\ \/ normal > 0 /\ normal' = normal - 1 /\ UNCHANGED rcv
     \/ normal = 0 /\ rcv' = "drainFlag" /\ UNCHANGED normal
  /\ UNCHANGED <<urgent, stopping, sending, gated, saw, history>>

Bug_Drained ==   \* the Stop it took is forgotten
  /\ rcv = "drainFlag"
  /\ rcv' = IF stopping THEN "exiting" ELSE "opening"
  /\ saw' = FALSE
  /\ UNCHANGED <<queues, sending, gated, history>>

Drained ==
  /\ rcv = "drainFlag"
  /\ rcv' = IF saw \/ stopping THEN "exiting" ELSE "opening"
  /\ saw' = FALSE
  /\ UNCHANGED <<queues, sending, gated, history>>

(* The cycle reads its inputs: what was asked for before is done by it.    *)
OpenCycle ==
  /\ rcv = "opening"
  /\ rcv' = "idle"
  /\ gated' = FALSE /\ owed' = FALSE
  /\ UNCHANGED <<queues, sending, saw, late>>

Supervisor ==
  \/ Receive \/ TryUrgent \/ LoadFlag \/ TryNormal \/ LoadFlagAgain \/ Wake
  \/ DrainUrgent \/ DrainNormal \/ Drained \/ OpenCycle

Next ==
  \/ SendStop
  \/ \E s \in Senders : SendRestart(s)
  \/ Supervisor
  \/ Cancel
  \/ rcv = "exiting" /\ UNCHANGED vars

Spec == CtlInit /\ [][Next]_vars

(* The supervisor is polled when it can move.                              *)
FairSpec == Spec /\ WF_vars(Supervisor)

(***************************************************************************)
(* Properties.                                                             *)
(***************************************************************************)

FlagsOK ==
  /\ stopping \in BOOLEAN /\ gated \in BOOLEAN /\ saw \in BOOLEAN
  /\ late \in BOOLEAN /\ owed \in BOOLEAN

CtlTypeOK ==
  /\ urgent \in Nat /\ normal \in Nat
  /\ stopSend \in {"idle", "queued", "sent"}
  /\ sender \in [Senders -> {"idle", "passed"}]
  /\ sends \in 0..MaxSends
  /\ rcv \in Receiving \cup Draining \cup {"idle", "opening", "exiting"}
  /\ FlagsOK

(* Whoever sees that a Stop is in flight finds it waiting (Sender::send):  *)
(* until the supervisor exits, the Stop is in its channel or was taken by  *)
(* the drain under way. Else a receive that waits for it alone waits for   *)
(* ever.                                                                   *)
StopIsThere == (stopping \/ stopSend # "idle") /\ rcv # "exiting" => urgent > 0 \/ saw

(* Nothing gets in front of a shutdown already under way (ctl.rs, module   *)
(* comment): a receive that begins with the Stop queued returns no Restart, *)
(* and a drain that does opens no cycle.                                   *)
NothingInFront ==
  [][late => rcv' # "opening" /\ (normal' < normal => rcv = "drainNormal")]_vars

(* A Restart that was accepted is followed by a cycle, unless the node     *)
(* stops: it is queued, or the cycle that covers it has not opened yet.    *)
(* Neither the drain nor a dropped receive loses it.                       *)
RestartKept == owed => normal > 0 \/ gated \/ rcv = "exiting"

(* What the queue promises, with all that the threads do in between hidden.*)
Promise == INSTANCE Mailbox WITH
  asked <- owed,
  stop  <- IF rcv = "exiting" THEN "heard" ELSE IF stopSend = "idle" THEN "no" ELSE "sent",
  open  <- ~gated

(* Ctl implements Mailbox: a Stop is heard, however busy the node is with  *)
(* other events, and no cycle opens after it; a cycle opens on all that    *)
(* was asked for before.                                                   *)
KeepsPromise == Promise!MailSpec
=============================================================================
