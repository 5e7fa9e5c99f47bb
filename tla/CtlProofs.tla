----------------------------- MODULE CtlProofs -----------------------------
(***************************************************************************)
(* Proofs about what makes a node run: its control queue (Ctl), for any    *)
(* senders and any number of Restarts, where each conjunct of CtlIInv is   *)
(* shown to be preserved by every step; the way of an edit to that queue   *)
(* (Watch), for any plan and any globs; and the ticks that wake it         *)
(* (BoardTicks), for any supervisors and any writes.                       *)
(***************************************************************************)
EXTENDS CtlInv, Watch, BoardTicks, NaturalLemmas, TLAPS

(* A new queue is empty, and its supervisor is about to drain it.          *)
LEMMA CtlInitHolds == CtlInit => CtlIInv
<1> SUFFICES ASSUME CtlInit PROVE CtlIInv
  OBVIOUS
<1> USE DEF CtlInit
<1>1. FlagsOK
  BY DEF FlagsOK
<1>2. CtlTypeOK
  BY <1>1, CtlAssumption DEF CtlTypeOK, Draining
<1>3. StopPlaced
  BY DEF StopPlaced
<1>4. LateFindsStop
  BY DEF LateFindsStop
<1>5. StopIsThere
  BY DEF StopIsThere
<1>6. GatesDrain /\ RestartKept
  BY DEF GatesDrain, RestartKept
<1> QED
  BY <1>2, <1>3, <1>4, <1>5, <1>6 DEF CtlIInv

(* All the supervisor can notice of a Restart being sent is the queue.     *)
LEMMA RestartOnlyQueues ==
  ASSUME CtlTypeOK, NEW s \in Senders, SendRestart(s)
  PROVE  /\ UNCHANGED <<urgent, stopping, stopSend, rcv, gated, saw, late>>
         /\ \/ UNCHANGED <<normal, owed>>
            \/ normal' = normal + 1
BY DEF CtlTypeOK, SendRestart, queues, history

(* The flags stay flags.                                                   *)
LEMMA FlagsStep ==
  ASSUME CtlIInv, [Next]_vars PROVE FlagsOK'
<1> USE DEF CtlIInv, CtlTypeOK, FlagsOK,
           Goto, Enter, queues, sending, history
<1>1. CASE SendStop
  BY <1>1 DEF SendStop, StopSendTo
<1>2. CASE \E s \in Senders : SendRestart(s)
  BY <1>2 DEF SendRestart
<1>3. CASE Receive \/ TryUrgent
  BY <1>3 DEF Receive, TryUrgent, TakeStop
<1>4. CASE LoadFlag \/ LoadFlagAgain
  BY <1>4 DEF LoadFlag, LoadFlagAgain
<1>5. CASE TryNormal
  BY <1>5 DEF TryNormal, TakeRestart, EndCycle
<1>6. CASE Wake
  BY <1>6 DEF Wake, TakeStop, TakeRestart, EndCycle, Parked
<1>7. CASE Cancel
  BY <1>7 DEF Cancel, EndCycle, Parked
<1>8. CASE DrainUrgent \/ DrainNormal
  BY <1>8 DEF DrainUrgent, DrainNormal
<1>9. CASE Drained \/ OpenCycle
  BY <1>9 DEF Drained, OpenCycle
<1>10. CASE UNCHANGED vars
  BY <1>10 DEF vars
<1> QED
  BY <1>1, <1>2, <1>3, <1>4, <1>5, <1>6, <1>7, <1>8, <1>9, <1>10 DEF Next, Supervisor

(* Types. The flags are apart, for the provers' sake.                      *)
LEMMA CountsStep ==
  ASSUME CtlIInv, [Next]_vars PROVE (urgent \in Nat /\ normal \in Nat /\ stopSend \in {"idle", "queued", "sent"})'
         /\ (sender \in [Senders -> {"idle", "passed"}] /\ sends \in 0..MaxSends)'
         /\ (rcv \in Receiving \cup Draining \cup {"idle", "opening", "exiting"})'
<1> USE CtlAssumption DEF CtlIInv, CtlTypeOK, Receiving, Draining,
           Goto, Enter, queues, sending, history
<1>1. CASE SendStop
  BY <1>1 DEF SendStop, StopSendTo
<1>2. CASE \E s \in Senders : SendRestart(s)
  BY <1>2 DEF SendRestart
<1>3. CASE Receive \/ TryUrgent
  BY <1>3 DEF Receive, TryUrgent, TakeStop
<1>4. CASE LoadFlag \/ LoadFlagAgain
  BY <1>4 DEF LoadFlag, LoadFlagAgain
<1>5. CASE TryNormal
  BY <1>5 DEF TryNormal, TakeRestart, EndCycle
<1>6. CASE Wake
  BY <1>6 DEF Wake, TakeStop, TakeRestart, EndCycle, Parked
<1>7. CASE Cancel
  BY <1>7 DEF Cancel, EndCycle, Parked
<1>8. CASE DrainUrgent \/ DrainNormal
  BY <1>8 DEF DrainUrgent, DrainNormal
<1>9. CASE Drained \/ OpenCycle
  BY <1>9 DEF Drained, OpenCycle
<1>10. CASE UNCHANGED vars
  BY <1>10 DEF vars
<1> QED
  BY <1>1, <1>2, <1>3, <1>4, <1>5, <1>6, <1>7, <1>8, <1>9, <1>10 DEF Next, Supervisor

(* Only the send of the Stop raises the flag, and only a drain has it.     *)
LEMMA PlacedStep ==
  ASSUME CtlIInv, [Next]_vars PROVE StopPlaced'
<1> USE DEF CtlIInv, CtlTypeOK, FlagsOK, StopPlaced, Receiving, Draining,
           Goto, Enter, queues, sending, history
<1>1. CASE SendStop
  BY <1>1 DEF SendStop, StopSendTo
<1>2. CASE \E s \in Senders : SendRestart(s)
  BY <1>2, RestartOnlyQueues
<1>3. CASE Receive \/ TryUrgent
  BY <1>3 DEF Receive, TryUrgent, TakeStop
<1>4. CASE LoadFlag \/ LoadFlagAgain
  BY <1>4 DEF LoadFlag, LoadFlagAgain
<1>5. CASE TryNormal
  BY <1>5 DEF TryNormal, TakeRestart, EndCycle
<1>6. CASE Wake
  BY <1>6 DEF Wake, TakeStop, TakeRestart, EndCycle, Parked
<1>7. CASE Cancel
  BY <1>7 DEF Cancel, EndCycle, Parked
<1>8. CASE DrainUrgent \/ DrainNormal
  BY <1>8 DEF DrainUrgent, DrainNormal
<1>9. CASE Drained \/ OpenCycle
  BY <1>9 DEF Drained, OpenCycle
<1>10. CASE UNCHANGED vars
  BY <1>10 DEF vars
<1> QED
  BY <1>1, <1>2, <1>3, <1>4, <1>5, <1>6, <1>7, <1>8, <1>9, <1>10 DEF Next, Supervisor

(* A receive or a drain that begins with the Stop queued finds it in its   *)
(* channel, since nothing else has taken it.                               *)
LEMMA LateStep ==
  ASSUME CtlIInv, [Next]_vars PROVE LateFindsStop'
<1> USE DEF CtlIInv, CtlTypeOK, FlagsOK, StopPlaced, StopIsThere, LateFindsStop, Receiving, Draining,
           Goto, Enter, queues, sending, history
<1>1. CASE SendStop
  BY <1>1 DEF SendStop, StopSendTo
<1>2. CASE \E s \in Senders : SendRestart(s)
  BY <1>2, RestartOnlyQueues
<1>3. CASE Receive \/ TryUrgent
  <2>1. CASE Receive
    BY <2>1 DEF Receive
  <2>2. CASE TryUrgent
    <3>1. late /\ rcv = "tryUrgent" => urgent > 0
      OBVIOUS
    <3>2. CASE TakeStop
      BY <3>2 DEF TakeStop
    <3>3. CASE rcv = "tryUrgent" /\ urgent = 0 /\ late' = late
      <4>1. ~late'
        BY <3>1, <3>3
      <4> QED
        BY <4>1 DEF LateFindsStop
    <3> QED
      BY <2>2, <3>2, <3>3 DEF TryUrgent
  <2> QED
    BY <1>3, <2>1, <2>2
<1>4. CASE LoadFlag \/ LoadFlagAgain
  BY <1>4 DEF LoadFlag, LoadFlagAgain
<1>5. CASE TryNormal
  BY <1>5 DEF TryNormal, TakeRestart, EndCycle
<1>6. CASE Wake
  BY <1>6 DEF Wake, TakeStop, TakeRestart, EndCycle, Parked
<1>7. CASE Cancel
  BY <1>7 DEF Cancel, EndCycle, Parked
<1>8. CASE DrainUrgent \/ DrainNormal
  <2>1. late /\ rcv = "drainUrgent" => urgent > 0 \/ saw
    OBVIOUS
  <2>2. CASE DrainUrgent
    BY <2>1, <2>2 DEF DrainUrgent
  <2>3. CASE DrainNormal
    BY <2>3 DEF DrainNormal
  <2> QED
    BY <1>8, <2>2, <2>3
<1>9. CASE Drained \/ OpenCycle
  BY <1>9 DEF Drained, OpenCycle
<1>10. CASE UNCHANGED vars
  BY <1>10 DEF vars
<1> QED
  BY <1>1, <1>2, <1>3, <1>4, <1>5, <1>6, <1>7, <1>8, <1>9, <1>10 DEF Next, Supervisor

(* The Stop leaves its channel only for the drain or for the exit, and the *)
(* drain that has it ends in the exit.                                     *)
LEMMA ThereStep ==
  ASSUME CtlIInv, [Next]_vars PROVE StopIsThere'
<1> USE DEF CtlIInv, CtlTypeOK, StopPlaced, StopIsThere, Receiving, Draining,
           Goto, Enter, queues, sending, history
<1>1. CASE SendStop
  BY <1>1 DEF SendStop, StopSendTo
<1>2. CASE \E s \in Senders : SendRestart(s)
  BY <1>2, RestartOnlyQueues
<1>3. CASE Receive \/ TryUrgent
  BY <1>3 DEF Receive, TryUrgent, TakeStop
<1>4. CASE LoadFlag \/ LoadFlagAgain
  BY <1>4 DEF LoadFlag, LoadFlagAgain
<1>5. CASE TryNormal
  BY <1>5 DEF TryNormal, TakeRestart, EndCycle
<1>6. CASE Wake
  BY <1>6 DEF Wake, TakeStop, TakeRestart, EndCycle, Parked
<1>7. CASE Cancel
  BY <1>7 DEF Cancel, EndCycle, Parked
<1>8. CASE DrainUrgent \/ DrainNormal
  BY <1>8 DEF DrainUrgent, DrainNormal
<1>9. CASE Drained \/ OpenCycle
  BY <1>9 DEF Drained, OpenCycle
<1>10. CASE UNCHANGED vars
  BY <1>10 DEF vars
<1> QED
  BY <1>1, <1>2, <1>3, <1>4, <1>5, <1>6, <1>7, <1>8, <1>9, <1>10 DEF Next, Supervisor

(* Every way to a drain closes the gate, and only opening it ends that.    *)
LEMMA GatesStep ==
  ASSUME CtlIInv, [Next]_vars PROVE GatesDrain'
<1> USE DEF CtlIInv, CtlTypeOK, GatesDrain, Receiving, Draining,
           Goto, Enter, queues, sending, history
<1>1. CASE SendStop
  BY <1>1 DEF SendStop, StopSendTo
<1>2. CASE \E s \in Senders : SendRestart(s)
  BY <1>2, RestartOnlyQueues
<1>3. CASE Receive \/ TryUrgent
  BY <1>3 DEF Receive, TryUrgent, TakeStop
<1>4. CASE LoadFlag \/ LoadFlagAgain
  BY <1>4 DEF LoadFlag, LoadFlagAgain
<1>5. CASE TryNormal
  BY <1>5 DEF TryNormal, TakeRestart, EndCycle
<1>6. CASE Wake
  BY <1>6 DEF Wake, TakeStop, TakeRestart, EndCycle, Parked
<1>7. CASE Cancel
  BY <1>7 DEF Cancel, EndCycle, Parked
<1>8. CASE DrainUrgent \/ DrainNormal
  BY <1>8 DEF DrainUrgent, DrainNormal
<1>9. CASE Drained \/ OpenCycle
  BY <1>9 DEF Drained, OpenCycle
<1>10. CASE UNCHANGED vars
  BY <1>10 DEF vars
<1> QED
  BY <1>1, <1>2, <1>3, <1>4, <1>5, <1>6, <1>7, <1>8, <1>9, <1>10 DEF Next, Supervisor

(* A Restart leaves its channel for a gate, which opens on what was asked   *)
(* for before.                                                             *)
LEMMA KeptStep ==
  ASSUME CtlIInv, [Next]_vars PROVE RestartKept'
<1> USE DEF CtlIInv, CtlTypeOK, GatesDrain, RestartKept, Draining,
           Goto, Enter, queues, sending, history
<1>1. CASE SendStop
  BY <1>1 DEF SendStop, StopSendTo
<1>2. CASE \E s \in Senders : SendRestart(s)
  <2> PICK s \in Senders : SendRestart(s)
    BY <1>2
  <2>1. UNCHANGED <<rcv, gated>> /\ (UNCHANGED <<normal, owed>> \/ normal' = normal + 1)
    BY RestartOnlyQueues
  <2>2. CASE UNCHANGED <<normal, owed>>
    BY <2>1, <2>2
  <2>3. CASE normal' = normal + 1
    <3>1. normal' > 0
      BY <2>3
    <3> QED
      BY <3>1
  <2> QED
    BY <2>1, <2>2, <2>3
<1>3. CASE Receive \/ TryUrgent
  BY <1>3 DEF Receive, TryUrgent, TakeStop
<1>4. CASE LoadFlag \/ LoadFlagAgain
  BY <1>4 DEF LoadFlag, LoadFlagAgain
<1>5. CASE TryNormal
  BY <1>5 DEF TryNormal, TakeRestart, EndCycle
<1>6. CASE Wake
  BY <1>6 DEF Wake, TakeStop, TakeRestart, EndCycle, Parked
<1>7. CASE Cancel
  <2>1. CASE gated' = TRUE
    BY <2>1
  <2>2. CASE rcv \in Parked /\ rcv' = "idle" /\ UNCHANGED <<normal, gated, owed>>
    BY <2>2 DEF Parked
  <2> QED
    BY <1>7, <2>1, <2>2 DEF Cancel, EndCycle
<1>8. CASE DrainUrgent \/ DrainNormal
  BY <1>8 DEF DrainUrgent, DrainNormal
<1>9. CASE Drained \/ OpenCycle
  BY <1>9 DEF Drained, OpenCycle
<1>10. CASE UNCHANGED vars
  BY <1>10 DEF vars
<1> QED
  BY <1>1, <1>2, <1>3, <1>4, <1>5, <1>6, <1>7, <1>8, <1>9, <1>10 DEF Next, Supervisor

(* The invariant holds in every reachable state.                           *)
THEOREM CtlInvariance == Spec => []CtlIInv
<1>1. CtlIInv /\ [Next]_vars => CtlIInv'
  BY FlagsStep, CountsStep, PlacedStep, LateStep, ThereStep, GatesStep, KeptStep DEF CtlIInv, CtlTypeOK
<1> QED
  BY CtlInitHolds, <1>1, PTL DEF Spec

(* Whoever knows of a Stop finds it: Sender::send in ctl.rs.               *)
THEOREM StopIsAlwaysThere == Spec => []StopIsThere
BY CtlInvariance, PTL DEF CtlIInv

(* No accepted Restart is lost on a node that goes on: neither the drain   *)
(* nor a dropped receive costs it its cycle.                               *)
THEOREM RestartsAreKept == Spec => []RestartKept
BY CtlInvariance, PTL DEF CtlIInv

(* No Restart and no cycle gets in front of a Stop queued before: the      *)
(* module comment of ctl.rs.                                               *)
THEOREM NothingGetsInFront == Spec => NothingInFront
<1>1. CtlIInv /\ [Next]_vars
        => [late => rcv' # "opening" /\ (normal' < normal => rcv = "drainNormal")]_vars
  <2>a. SUFFICES ASSUME CtlIInv, Next, late
                 PROVE  rcv' # "opening" /\ (normal' < normal => rcv = "drainNormal")
    OBVIOUS
  <2>0. /\ CtlTypeOK /\ normal \in Nat
        /\ rcv # "opening"
        /\ rcv \in Receiving => rcv = "tryUrgent"
        /\ rcv = "tryUrgent" => urgent > 0
        /\ rcv = "drainFlag" => saw
    BY <2>a DEF CtlIInv, CtlTypeOK, StopPlaced, LateFindsStop, StopIsThere, Receiving, Draining
  <2> USE <2>0 DEF Receiving, Goto, Enter, queues, sending, history
  <2>1. CASE SendStop
    BY <2>1 DEF SendStop, StopSendTo
  <2>2. CASE \E s \in Senders : SendRestart(s)
    BY <2>2, RestartOnlyQueues
  <2>3. CASE Receive \/ TryUrgent
    BY <2>3 DEF Receive, TryUrgent, TakeStop
  <2>4. CASE LoadFlag \/ LoadFlagAgain
    BY <2>4 DEF LoadFlag, LoadFlagAgain
  <2>5. CASE TryNormal
    BY <2>5 DEF TryNormal, TakeRestart, EndCycle
  <2>6. CASE Wake
    BY <2>6 DEF Wake, TakeStop, TakeRestart, EndCycle, Parked
  <2>7. CASE Cancel
    BY <2>7 DEF Cancel, EndCycle, Parked
  <2>8. CASE DrainUrgent \/ DrainNormal
    BY <2>8 DEF DrainUrgent, DrainNormal
  <2>9. CASE Drained \/ OpenCycle
    BY <2>9 DEF Drained, OpenCycle
  <2>10. CASE rcv = "exiting" /\ UNCHANGED vars
    BY <2>10 DEF vars
  <2> QED
    BY <2>a, <2>1, <2>2, <2>3, <2>4, <2>5, <2>6, <2>7, <2>8, <2>9, <2>10 DEF Next, Supervisor
<1> QED
  BY CtlInvariance, <1>1, PTL DEF Spec, NothingInFront

(* Every step of Ctl is one step of Mailbox, or none that it can see: a    *)
(* queued Restart is Ask, the end of a cycle is Close, OpenCycle is Open,  *)
(* and the step that takes or recalls the Stop is Hear.                    *)
LEMMA StepKeepsPromise ==
  ASSUME CtlIInv, [Next]_vars PROVE [Promise!MailNext]_(Promise!mailVars)
<1> USE DEF Promise!mailVars, Goto, Enter, queues, sending, history
<1>1. CASE SendStop
  <2>1. stopSend = "idle" => rcv # "exiting"
    BY DEF CtlIInv, StopPlaced
  <2>2. CASE stopSend = "idle" /\ stopSend' = "queued"
    <3>1. Promise!SendStop
      BY <1>1, <2>1, <2>2 DEF SendStop, StopSendTo, Promise!SendStop
    <3> QED
      BY <3>1 DEF Promise!MailNext
  <2>3. CASE stopSend = "queued" /\ stopSend' = "sent"
    BY <1>1, <2>3 DEF SendStop, StopSendTo
  <2> QED
    BY <1>1, <2>2, <2>3 DEF SendStop, StopSendTo
<1>2. CASE \E s \in Senders : SendRestart(s)
  <2> PICK s \in Senders : SendRestart(s)
    BY <1>2
  <2>1. UNCHANGED <<owed, stopSend, rcv, gated>> \/ (owed' = TRUE /\ UNCHANGED <<stopSend, rcv, gated>>)
    BY DEF SendRestart
  <2> QED
    BY <2>1 DEF Promise!MailNext, Promise!Ask
<1>3. ASSUME TakeStop, rcv # "exiting" PROVE Promise!Hear
  <2>1. stopSend # "idle"
    BY <1>3 DEF TakeStop, CtlIInv, StopPlaced
  <2> QED
    BY <1>3, <2>1 DEF TakeStop, Promise!Hear
<1>4. ASSUME EndCycle, rcv # "exiting" PROVE Promise!Close \/ UNCHANGED Promise!mailVars
  <2>1. gated \in BOOLEAN
    BY DEF CtlIInv, CtlTypeOK, FlagsOK
  <2>2. gated' = TRUE /\ rcv' # "exiting" /\ UNCHANGED <<stopSend, owed>>
    BY <1>4 DEF EndCycle
  <2> QED
    BY <1>4, <2>1, <2>2 DEF Promise!Close
<1>5. CASE Receive \/ LoadFlag \/ LoadFlagAgain \/ DrainUrgent \/ DrainNormal
  BY <1>5 DEF Receive, LoadFlag, LoadFlagAgain, DrainUrgent, DrainNormal
<1>6. CASE TryUrgent \/ TryNormal \/ Wake \/ Cancel
  <2>1. rcv # "exiting"
    BY <1>6 DEF TryUrgent, TryNormal, Wake, Cancel, Parked
  <2>2. \/ TakeStop \/ EndCycle
        \/ UNCHANGED <<stopSend, owed, gated>> /\ rcv' # "exiting"
    BY <1>6 DEF TryUrgent, TryNormal, Wake, Cancel, TakeRestart
  <2> QED
    BY <1>3, <1>4, <2>1, <2>2 DEF Promise!MailNext
<1>7. CASE Drained
  <2>1. saw \/ stopping => stopSend # "idle"
    BY DEF CtlIInv, StopPlaced
  <2>2. CASE saw \/ stopping
    <3>1. Promise!Hear
      BY <1>7, <2>1, <2>2 DEF Drained, Promise!Hear
    <3> QED
      BY <3>1 DEF Promise!MailNext
  <2>3. CASE ~(saw \/ stopping)
    BY <1>7, <2>3 DEF Drained
  <2> QED
    BY <2>2, <2>3
<1>8. CASE OpenCycle
  <2>1. gated = TRUE
    BY <1>8 DEF OpenCycle, CtlIInv, GatesDrain, CtlTypeOK, FlagsOK
  <2>2. Promise!Open
    BY <1>8, <2>1 DEF OpenCycle, Promise!Open
  <2> QED
    BY <2>2 DEF Promise!MailNext
<1>9. CASE UNCHANGED vars
  BY <1>9 DEF vars
<1> QED
  BY <1>1, <1>2, <1>5, <1>6, <1>7, <1>8, <1>9 DEF Next, Supervisor

(* Ctl implements the safety of Mailbox: no Stop is heard before it was    *)
(* sent, no cycle opens after it was heard, and a cycle answers every      *)
(* Restart accepted before it. The fair part, that a Stop is heard, is     *)
(* KeepsPromise, which TLC checks.                                         *)
THEOREM CtlImplementsMailbox == Spec => Promise!MailSafe
<1>1. CtlInit => Promise!MailInit
  BY DEF CtlInit, Promise!MailInit, Draining
<1> QED
  BY <1>1, CtlInvariance, StepKeepsPromise, PTL DEF Spec, Promise!MailSafe

-----------------------------------------------------------------------------
(* What a node depends on comes before it in any order that its edges keep. *)
LEMMA UpstreamIsBelow ==
  ASSUME NEW rank \in [Watchers -> 0..Cardinality(Watchers)],
         \A n \in Watchers : \A m \in Feeds[n] : rank[m] < rank[n],
         NEW n \in Watchers, NEW m \in Upstream[n]
  PROVE  m \in Watchers /\ rank[m] < rank[n]
<1> DEFINE S == {k \in Watchers : rank[k] < rank[n]}
<1>0. Cardinality(Watchers) \in Nat \/ 0..Cardinality(Watchers) \subseteq Int
  OBVIOUS
<1>1. \A k \in Watchers : rank[k] \in Int
  BY <1>0
<1>2. Feeds[n] \subseteq S
  BY WatchAssumption
<1>3. Closed(S)
  <2> SUFFICES ASSUME NEW k \in S, NEW j \in Feeds[k] PROVE j \in S
    BY DEF Closed
  <2>1. j \in Watchers /\ k \in Watchers
    BY WatchAssumption
  <2>2. rank[j] < rank[k] /\ rank[k] < rank[n]
    OBVIOUS
  <2> QED BY <1>1, <2>1, <2>2
<1>4. S \in SUBSET Watchers
  OBVIOUS
<1> HIDE DEF S
<1>5. m \in S
  BY <1>2, <1>3, <1>4 DEF Upstream
<1> QED BY <1>5 DEF S

(* It has what it depends on, and what they do.                            *)
LEMMA UpstreamHasFeeds ==
  ASSUME NEW n \in Watchers, NEW m \in Feeds[n]
  PROVE  m \in Upstream[n]
BY WatchAssumption DEF Upstream

LEMMA UpstreamIsClosed ==
  ASSUME NEW n \in Watchers, NEW m \in Upstream[n], NEW k \in Feeds[m]
  PROVE  k \in Upstream[n]
<1>1. m \in Watchers /\ k \in Watchers
  BY WatchAssumption DEF Upstream
<1>2. ASSUME NEW S \in SUBSET Watchers, Feeds[n] \subseteq S, Closed(S) PROVE k \in S
  <2>1. m \in S
    BY <1>2 DEF Upstream
  <2> QED BY <1>2, <2>1 DEF Closed
<1> QED BY <1>1, <1>2 DEF Upstream

(* What something upstream depends on is upstream as well.                 *)
LEMMA UpstreamIsTransitive ==
  ASSUME NEW n \in Watchers, NEW m \in Upstream[n], NEW k \in Upstream[m]
  PROVE  k \in Upstream[n]
<1>1. m \in Watchers /\ Upstream[n] \in SUBSET Watchers
  BY DEF Upstream
<1>2. Feeds[m] \subseteq Upstream[n]
  BY UpstreamIsClosed
<1>3. Closed(Upstream[n])
  BY UpstreamIsClosed DEF Closed
<1> QED BY <1>1, <1>2, <1>3 DEF Upstream

(* And each node upstream is a dependency of one, or of the node itself.   *)
LEMMA UpstreamFeeds ==
  ASSUME NEW n \in Watchers, NEW m \in Upstream[n]
  PROVE  \E k \in Upstream[n] \cup {n} : m \in Feeds[k]
<1> DEFINE fed == {m2 \in Upstream[n] : \E k \in Upstream[n] \cup {n} : m2 \in Feeds[k]}
<1>1. Upstream[n] \in SUBSET Watchers
  BY DEF Upstream
<1>2. Feeds[n] \subseteq fed
  BY UpstreamHasFeeds
<1>3. Closed(fed)
  <2> SUFFICES ASSUME NEW k \in fed, NEW j \in Feeds[k] PROVE j \in fed
    BY DEF Closed
  <2> QED BY UpstreamIsClosed
<1>4. fed \in SUBSET Watchers
  BY <1>1
<1> HIDE DEF fed
<1>5. m \in fed
  BY <1>2, <1>3, <1>4 DEF Upstream
<1> QED BY <1>5 DEF fed

(* Every node of a set that a change matched is, or is downstream of, one  *)
(* of those that are signalled for it.                                     *)
LEMMA RootsCover ==
  ASSUME NEW hits \in SUBSET Watchers, NEW n \in hits
  PROVE  \E m \in Upstream[n] \cup {n} : m \in Roots(hits)
<1>1. PICK rank \in [Watchers -> 0..Cardinality(Watchers)] :
        \A k \in Watchers : \A m \in Feeds[k] : rank[m] < rank[k]
  BY WatchAssumption
<1> DEFINE near == hits \cap (Upstream[n] \cup {n})
           ranks == {rank[m] : m \in near}
<1>2. \A m \in near : m \in Watchers /\ rank[m] \in Nat
  OBVIOUS
<1>3. ranks \in SUBSET Nat /\ ranks # {}
  BY <1>2
<1>4. PICK r \in ranks : \A s \in ranks : r <= s
  BY <1>3, LeastNatural
<1>5. PICK m \in near : r = rank[m]
  OBVIOUS
<1>6. ASSUME NEW k \in Upstream[m], k \in hits PROVE FALSE
  <2>1. k \in near
    BY <1>6, UpstreamIsTransitive
  <2>2. rank[k] < rank[m]
    BY <1>1, <1>2, UpstreamIsBelow
  <2>3. rank[m] <= rank[k]
    BY <1>4, <1>5, <2>1
  <2>4. rank[m] \in Nat /\ rank[k] \in Nat
    BY <1>2, <2>1
  <2> QED BY <2>2, <2>3, <2>4
<1> QED BY <1>5, <1>6 DEF Roots

-----------------------------------------------------------------------------
(* What NoEditLost needs to be inductive: an edit is one of the files its  *)
(* watcher's globs match, and those are noted for it.                      *)
EventsOK ==
  /\ unscanned \in SUBSET Files /\ raw \in SUBSET (Files \cup {Folder})
  /\ bundle \in SUBSET (Files \cup {Folder}) /\ batches \in Seq(SUBSET Files)

NodesOK ==
  /\ noted \in [Watchers -> SUBSET Files] /\ stale \in [Watchers -> SUBSET Files]
  /\ \A n \in Watchers : stale[n] \subseteq Watched[n]
  /\ {due, moved, busy} \subseteq [Watchers -> BOOLEAN]

OnItsWay(n) ==
  noted[n] \cup unscanned \cup Paths(raw \cup bundle) \cup UNION {batches[i] : i \in DOMAIN batches}

EditsInv ==
  EventsOK /\ NodesOK /\ (\A n \in Watchers : stale[n] \subseteq OnItsWay(n)) /\ HitsPropagate

LEMMA EditsInit == WatchInit => EditsInv
<1> SUFFICES ASSUME WatchInit PROVE EditsInv
  OBVIOUS
<1> USE DEF WatchInit
<1>1. EventsOK
  BY DEF EventsOK
<1>2. NodesOK
  BY DEF NodesOK, NobodyIs
<1>3. \A n \in Watchers : stale[n] \subseteq OnItsWay(n)
  OBVIOUS
<1>4. HitsPropagate
  BY WatchAssumption DEF HitsPropagate
<1> QED BY <1>1, <1>2, <1>3, <1>4 DEF EditsInv

(* An edit is reported as itself or as its directory, or is for a scan.    *)
LEMMA EditIsReported ==
  ASSUME EditsInv, NEW f \in Files, Edits(f)
  PROVE  EditsInv'
<1>1. EventsOK'
  BY DEF EditsInv, EventsOK, Edits
<1>2. NodesOK'
  <2>1. noted' = noted /\ due' = due /\ moved' = moved /\ busy' = busy
    BY DEF Edits
  <2>2. \A n \in Watchers : stale'[n] = stale[n] \cup ({f} \cap Watched[n])
    BY DEF Edits
  <2>3. stale' \in [Watchers -> SUBSET Files]
    BY DEF EditsInv, NodesOK, Edits
  <2>4. \A n \in Watchers : stale'[n] \subseteq Watched[n]
    BY <2>2 DEF EditsInv, NodesOK
  <2> QED BY <2>1, <2>3, <2>4 DEF EditsInv, NodesOK
<1>3. ASSUME NEW n \in Watchers PROVE stale'[n] \subseteq OnItsWay(n)'
  <2>1. stale[n] \subseteq OnItsWay(n)
    BY DEF EditsInv
  <2>2. stale'[n] \subseteq stale[n] \cup {f}
    BY DEF Edits
  <2>3. noted' = noted /\ bundle' = bundle /\ batches' = batches
    BY DEF Edits
  <2>4. unscanned \subseteq unscanned' /\ raw \subseteq raw'
    BY DEF Edits
  <2>5. f \in unscanned' \/ f \in raw' \/ (f \in InFolder /\ Folder \in raw')
    BY DEF Edits
  <2> QED BY <2>1, <2>2, <2>3, <2>4, <2>5 DEF OnItsWay, Paths
<1>4. HitsPropagate'
  BY DEF EditsInv, HitsPropagate, Coming, Edits
<1> QED BY <1>1, <1>2, <1>3, <1>4 DEF EditsInv

(* Until it is dispatched it only moves from one place to the next.        *)
LEMMA EventsMove ==
  ASSUME EditsInv, Scans \/ (\E e \in Files \cup {Folder} : Gathers(e)) \/ LongestPasses \/ Delivers
  PROVE  EditsInv'
<1>1. UNCHANGED nodeVars
  BY DEF Scans, Gathers, LongestPasses, Delivers
<1>2. NodesOK' /\ HitsPropagate'
  BY <1>1 DEF EditsInv, NodesOK, HitsPropagate, Coming, nodeVars
<1>3. EventsOK' /\ \A n \in Watchers : OnItsWay(n) \subseteq OnItsWay(n)'
  <2>1. CASE Scans
    <3>1. EventsOK'
      BY <2>1 DEF EditsInv, EventsOK, Scans
    <3>2. Paths(raw \cup bundle) \cup unscanned \subseteq Paths(raw' \cup bundle')
      BY <2>1 DEF EditsInv, EventsOK, Scans, Paths
    <3>3. batches' = batches /\ noted' = noted
      BY <2>1 DEF Scans, nodeVars
    <3>4. \A n \in Watchers : OnItsWay(n) \subseteq OnItsWay(n)'
      BY <3>2, <3>3 DEF OnItsWay
    <3> QED BY <3>1, <3>4
  <2>2. ASSUME NEW e \in Files \cup {Folder}, Gathers(e) PROVE EventsOK' /\ \A n \in Watchers : OnItsWay(n) \subseteq OnItsWay(n)'
    <3>1. EventsOK'
      BY <2>2 DEF EditsInv, EventsOK, Gathers
    <3>2. raw' \cup bundle' = raw \cup bundle
      BY <2>2 DEF Gathers
    <3> QED BY <2>2, <3>1, <3>2 DEF Gathers, OnItsWay, nodeVars
  <2>3. CASE LongestPasses
    BY <2>3 DEF EditsInv, EventsOK, LongestPasses, OnItsWay, nodeVars
  <2>4. CASE Delivers
    <3>1. Paths(bundle) \in SUBSET Files
      BY WatchAssumption DEF Paths
    <3>2. batches \in Seq(SUBSET Files) /\ batches' = Append(batches, Paths(bundle))
      BY <2>4 DEF Delivers, EditsInv, EventsOK
    <3>3. EventsOK'
      <4>1. batches' \in Seq(SUBSET Files)
        BY <3>1, <3>2
      <4>2. raw' = raw /\ bundle' = {} /\ unscanned' = unscanned
        BY <2>4 DEF Delivers, Read
      <4> QED BY <4>1, <4>2 DEF EditsInv, EventsOK
    <3>4. UNION {batches'[i] : i \in DOMAIN batches'}
            = (UNION {batches[i] : i \in DOMAIN batches}) \cup Paths(bundle)
      BY <3>1, <3>2
    <3>5. raw' = raw /\ bundle' = {} /\ unscanned' = unscanned /\ noted' = noted
      BY <2>4 DEF Delivers, Read, nodeVars
    <3>6. Paths(raw \cup bundle) = Paths(raw' \cup bundle') \cup Paths(bundle)
      BY <3>5 DEF Paths
    <3> QED BY <3>3, <3>4, <3>5, <3>6 DEF OnItsWay
  <2> QED BY <2>1, <2>2, <2>3, <2>4
<1>4. ASSUME NEW n \in Watchers PROVE stale'[n] \subseteq OnItsWay(n)'
  <2>1. stale'[n] = stale[n]
    BY <1>1 DEF nodeVars
  <2> QED BY <1>3, <2>1 DEF EditsInv
<1> QED BY <1>2, <1>3, <1>4 DEF EditsInv

(* A dispatched edit is noted for whoever watches it, and the roots of     *)
(* those are told.                                                         *)
LEMMA DispatchKeeps ==
  ASSUME EditsInv, Heeds = Watchers, Dispatches
  PROVE  EditsInv'
<1> DEFINE paths == Head(batches)
           hits == {n \in Watchers : Watched[n] \cap paths # {}}
<1>1. UNCHANGED <<eventVars, moved, busy, stale>> /\ batches # <<>> /\ batches' = Tail(batches)
  BY DEF Dispatches
<1>2. noted' = [n \in Watchers |-> noted[n] \cup (Watched[n] \cap paths)]
  BY DEF Dispatches
<1>3. due' = [n \in Watchers |-> due[n] \/ n \in Roots(hits) \cap Heeds]
  BY DEF Dispatches
<1>4. hits \in SUBSET Watchers
  OBVIOUS
<1> HIDE DEF paths
<1>5. EventsOK'
  BY <1>1 DEF EditsInv, EventsOK, eventVars
<1>6. NodesOK'
  <2>1. due' \in [Watchers -> BOOLEAN]
    BY <1>3 DEF EditsInv, NodesOK
  <2>2. noted' \in [Watchers -> SUBSET Files]
    BY <1>2, WatchAssumption DEF EditsInv, NodesOK
  <2> QED BY <1>1, <2>1, <2>2 DEF EditsInv, NodesOK
<1>7. UNION {batches[i] : i \in DOMAIN batches}
        \subseteq paths \cup UNION {batches'[i] : i \in DOMAIN batches'}
  <2>1. batches \in Seq(SUBSET Files)
    BY DEF EditsInv, EventsOK
  <2>2. ASSUME NEW i \in DOMAIN batches, i # 1
        PROVE  i - 1 \in DOMAIN batches' /\ batches'[i - 1] = batches[i]
    BY <1>1, <2>1, <2>2
  <2>3. paths = batches[1]
    BY <1>1, <2>1 DEF paths
  <2> QED BY <2>2, <2>3
<1>8. ASSUME NEW n \in Watchers PROVE stale'[n] \subseteq OnItsWay(n)'
  <2>1. stale'[n] = stale[n] /\ stale[n] \subseteq OnItsWay(n) /\ stale[n] \subseteq Watched[n]
    BY <1>1 DEF EditsInv, NodesOK
  <2>2. noted'[n] = noted[n] \cup (Watched[n] \cap paths)
    BY <1>2
  <2>3. unscanned' = unscanned /\ raw' = raw /\ bundle' = bundle
    BY <1>1 DEF eventVars
  <2> QED BY <1>7, <2>1, <2>2, <2>3 DEF OnItsWay
<1>9. ASSUME NEW n \in Heeds, noted'[n] # {} PROVE Coming(n)'
  <2>1. n \in Watchers
    OBVIOUS
  <2>2. Upstream[n] \in SUBSET Watchers
    BY <2>1 DEF Upstream
  <2>3. CASE noted[n] # {}
    <3>1. Coming(n)
      BY <2>3 DEF EditsInv, HitsPropagate
    <3>2. \A m \in Watchers : due[m] => due'[m]
      BY <1>3
    <3> QED BY <1>1, <2>1, <2>2, <3>1, <3>2 DEF Coming
  <2>4. CASE noted[n] = {}
    <3>1. n \in hits
      BY <1>2, <1>9, <2>1, <2>4
    <3> HIDE DEF hits
    <3>2. PICK m \in Upstream[n] \cup {n} : m \in Roots(hits)
      BY <1>4, <3>1, RootsCover
    <3>3. m \in Watchers
      BY <2>1, <2>2
    <3>4. due'[m]
      BY <1>3, <3>2, <3>3
    <3> QED BY <3>2, <3>4 DEF Coming
  <2> QED BY <2>3, <2>4
<1> QED BY <1>5, <1>6, <1>8, <1>9 DEF EditsInv, HitsPropagate

(* A run that begins has heard what was noted, and whoever waits for it    *)
(* waits for its result.                                                   *)
LEMMA BeginKeeps ==
  ASSUME EditsInv, NEW n \in Watchers, Begins(n)
  PROVE  EditsInv'
<1>1. UNCHANGED <<eventVars, batches>>
  BY DEF Begins
<1>2. NodesOK
  BY DEF EditsInv
<1>3. \A o \in Watchers : noted'[o] = IF o = n THEN {} ELSE noted[o]
  BY <1>2 DEF Begins, NodesOK
<1>4. \A o \in Watchers : stale'[o] = IF o = n THEN {} ELSE stale[o]
  BY <1>2 DEF Begins, NodesOK
<1>5. \A o \in Watchers : o # n => (due'[o] <=> due[o]) /\ (moved'[o] <=> moved[o]) /\ (busy'[o] <=> busy[o])
  BY <1>2 DEF Begins, NodesOK
<1>6. busy'[n] <=> \E m \in Watchers : n \in Feeds[m]
  BY <1>2 DEF Begins, NodesOK
<1>7. NodesOK'
  <2>1. noted' \in [Watchers -> SUBSET Files]
    BY <1>2 DEF Begins, NodesOK
  <2>2. stale' \in [Watchers -> SUBSET Files]
    BY <1>2 DEF Begins, NodesOK
  <2>3. {due', moved', busy'} \subseteq [Watchers -> BOOLEAN]
    BY <1>2 DEF Begins, NodesOK
  <2>4. \A o \in Watchers : stale'[o] \subseteq Watched[o]
    BY <1>2, <1>4 DEF NodesOK
  <2> QED BY <2>1, <2>2, <2>3, <2>4 DEF NodesOK
<1>8. EventsOK'
  BY <1>1 DEF EditsInv, EventsOK, eventVars
<1>9. ASSUME NEW o \in Watchers PROVE stale'[o] \subseteq OnItsWay(o)'
  <2>1. CASE o = n
    BY <1>4, <2>1
  <2>2. CASE o # n
    <3>1. stale[o] \subseteq OnItsWay(o)
      BY DEF EditsInv
    <3>2. stale'[o] = stale[o] /\ noted'[o] = noted[o]
      BY <1>3, <1>4, <2>2
    <3>3. OnItsWay(o)' = OnItsWay(o)
      BY <1>1, <3>2 DEF OnItsWay, eventVars
    <3> QED BY <3>1, <3>2, <3>3
  <2> QED BY <2>1, <2>2
<1>10. ASSUME NEW o \in Heeds, noted'[o] # {} PROVE Coming(o)'
  <2>1. o \in Watchers /\ o # n /\ noted[o] # {}
    BY <1>3, <1>10, WatchAssumption
  <2>2. PICK m \in Upstream[o] \cup {o} : due[m] \/ moved[m] \/ (m # o /\ busy[m])
    BY <2>1 DEF EditsInv, HitsPropagate, Coming
  <2>3. m \in Watchers
    BY <2>1 DEF Upstream
  <2>4. CASE m # n
    BY <1>5, <2>2, <2>3, <2>4 DEF Coming
  <2>5. CASE m = n
    <3>1. n \in Upstream[o]
      BY <2>1, <2>5
    <3>2. PICK k \in Upstream[o] \cup {o} : n \in Feeds[k]
      BY <2>1, <3>1, UpstreamFeeds
    <3>3. k \in Watchers
      BY <2>1 DEF Upstream
    <3>4. busy'[n]
      BY <1>6, <3>2, <3>3
    <3> QED BY <2>1, <3>1, <3>4 DEF Coming
  <2> QED BY <2>4, <2>5
<1> QED BY <1>7, <1>8, <1>9, <1>10 DEF EditsInv, HitsPropagate

(* A result is passed on to what depends on the node.                      *)
LEMMA ResultKeeps ==
  ASSUME EditsInv, NEW n \in Watchers, Results(n)
  PROVE  EditsInv'
<1>1. UNCHANGED <<eventVars, batches, noted, due, stale>>
  BY DEF Results
<1>2. NodesOK
  BY DEF EditsInv
<1>3. \A o \in Watchers : o # n => (busy'[o] <=> busy[o])
  BY <1>2 DEF Results, NodesOK
<1>4. \A o \in Watchers : moved'[o] <=> moved[o] \/ n \in Feeds[o]
  BY DEF Results
<1>5. NodesOK'
  <2>1. busy' \in [Watchers -> BOOLEAN]
    BY <1>2 DEF Results, NodesOK
  <2>2. moved' \in [Watchers -> BOOLEAN]
    BY <1>2 DEF Results, NodesOK
  <2> QED BY <1>1, <1>2, <2>1, <2>2 DEF NodesOK
<1>6. EventsOK'
  BY <1>1 DEF EditsInv, EventsOK, eventVars
<1>7. ASSUME NEW o \in Watchers PROVE stale'[o] \subseteq OnItsWay(o)'
  <2>1. OnItsWay(o)' = OnItsWay(o)
    BY <1>1 DEF OnItsWay, eventVars
  <2> QED BY <1>1, <2>1 DEF EditsInv
<1>8. ASSUME NEW o \in Heeds, noted'[o] # {} PROVE Coming(o)'
  <2>1. o \in Watchers /\ noted[o] # {}
    BY <1>1, <1>8, WatchAssumption
  <2>2. PICK m \in Upstream[o] \cup {o} : due[m] \/ moved[m] \/ (m # o /\ busy[m])
    BY <2>1 DEF EditsInv, HitsPropagate, Coming
  <2>3. Upstream[o] \cup {o} \in SUBSET Watchers
    BY <2>1 DEF Upstream
  <2>4. CASE m # n \/ due[m] \/ moved[m]
    BY <1>1, <1>3, <1>4, <2>2, <2>3, <2>4 DEF Coming
  <2>5. CASE m = n /\ ~due[m] /\ ~moved[m]
    <3>1. n \in Upstream[o]
      BY <2>2, <2>5
    <3>2. PICK k \in Upstream[o] \cup {o} : n \in Feeds[k]
      BY <2>1, <3>1, UpstreamFeeds
    <3>3. moved'[k]
      BY <1>4, <2>3, <3>2
    <3> QED BY <3>2, <3>3 DEF Coming
  <2> QED BY <2>4, <2>5
<1> QED BY <1>5, <1>6, <1>7, <1>8 DEF EditsInv, HitsPropagate

LEMMA EditsStep ==
  ASSUME EditsInv, Heeds = Watchers, [WatchNext]_watchVars
  PROVE  EditsInv'
<1>1. CASE UNCHANGED watchVars
  <2>1. EventsOK' /\ NodesOK'
    BY <1>1 DEF EditsInv, EventsOK, NodesOK, watchVars, eventVars, nodeVars
  <2>2. HitsPropagate'
    BY <1>1 DEF EditsInv, HitsPropagate, Coming, watchVars, nodeVars
  <2>3. ASSUME NEW n \in Watchers PROVE stale'[n] \subseteq OnItsWay(n)'
    <3>1. stale[n] \subseteq OnItsWay(n)
      BY DEF EditsInv
    <3>2. /\ stale' = stale /\ noted' = noted /\ unscanned' = unscanned
          /\ raw' = raw /\ bundle' = bundle /\ batches' = batches
      BY <1>1 DEF watchVars, eventVars, nodeVars
    <3> QED BY <3>1, <3>2 DEF OnItsWay, Paths
  <2> QED BY <2>1, <2>2, <2>3 DEF EditsInv
<1>2. CASE WatchNext
  BY <1>2, EditIsReported, EventsMove, DispatchKeeps, BeginKeeps, ResultKeeps DEF WatchNext
<1> QED BY <1>1, <1>2

(* Where no node ignores changes, an edit that a node has not run for is   *)
(* on its way through the watcher's threads to that node, and once there   *)
(* the node is coming: it was signalled or something upstream of it was or *)
(* runs. For any plan and any globs, in any order of the threads. (A node  *)
(* that ignores changes can swallow the edit of those that depend on it:   *)
(* see the run swallowed.)                                                 *)
THEOREM NoEditIsLost == ASSUME Heeds = Watchers PROVE WatchSpec => []NoEditLost
<1>1. EditsInv => NoEditLost
  BY DEF EditsInv, NoEditLost, OnItsWay
<1> QED BY <1>1, EditsInit, EditsStep, PTL DEF WatchSpec

-----------------------------------------------------------------------------
(* What p has seen is what is shown, but for ticks on their way; only      *)
(* between its mark and its snapshot p is behind with nothing to tell it.  *)
Informed ==
  \A p \in Parties : step[p] # "marked" /\ ~unseen[p] =>
    \A d \in Below[p] : step[d] = "ticks" \/ view[p][d] = shown[d]

TickInv == TickTypeOK /\ Informed

Shown == [status : Statuses, generation : Nat]

LEMMA TickInitHolds == TickInit => TickInv
<1> SUFFICES ASSUME TickInit PROVE TickInv
  OBVIOUS
<1> USE TickAssumption DEF TickInit
<1>1. Pending \in Shown
  BY DEF Pending, Shown
<1>2. \A p \in Parties : Below[p] \subseteq Parties
  OBVIOUS
<1>3. \A p \in Parties : view[p] \in [Below[p] -> Shown]
  BY <1>1
<1>4. TickTypeOK
  BY <1>1, <1>3 DEF TickTypeOK, Shown
<1>5. Informed
  BY <1>2 DEF Informed
<1> QED BY <1>4, <1>5 DEF TickInv

(* What a write shows is a status and a generation.                        *)
LEMMA SetShows ==
  ASSUME TickTypeOK, NEW p \in Parties, NEW s \in Statuses, Sets(p, s)
  PROVE  shown' \in [Parties -> Shown]
<1>1. shown \in [Parties -> Shown] /\ shown[p].generation \in Nat
  BY DEF TickTypeOK, Shown
<1> DEFINE g == shown[p].generation + (IF s \in ReadyStatuses THEN 1 ELSE 0)
<1>2. g \in Nat
  BY <1>1
<1>3. shown' = [shown EXCEPT ![p] = [status |-> s, generation |-> g]]
  BY DEF Sets
<1> HIDE DEF g
<1>4. [status |-> s, generation |-> g] \in Shown
  BY <1>2 DEF Shown
<1> QED BY <1>1, <1>3, <1>4

(* A snapshot is of what is shown.                                         *)
LEMMA SnapshotIsShown ==
  ASSUME TickTypeOK, NEW p \in Parties, Snapshots(p)
  PROVE  /\ view' = [q \in Parties |-> view'[q]]
         /\ \A q \in Parties : view'[q] \in [Below[q] -> Shown]
         /\ view'[p] = [d \in Below[p] |-> shown[d]]
         /\ \A q \in Parties : q # p => view'[q] = view[q]
<1> DEFINE now == [d \in Below[p] |-> shown[d]]
<1>1. now \in [Below[p] -> Shown]
  BY TickAssumption DEF TickTypeOK, Shown
<1>2. view = [q \in Parties |-> view[q]] /\ \A q \in Parties : view[q] \in [Below[q] -> Shown]
  BY DEF TickTypeOK, Shown
<1>3. view' = [view EXCEPT ![p] = now]
  BY DEF Snapshots
<1> HIDE DEF now
<1>4. view'[p] = now /\ \A q \in Parties : q # p => view'[q] = view[q]
  BY <1>2, <1>3
<1>5. view' = [q \in Parties |-> view'[q]]
  BY <1>2, <1>3
<1> QED BY <1>1, <1>2, <1>4, <1>5 DEF now

LEMMA TickStepHolds == TickInv /\ [TickNext]_tickVars => TickInv'
<1> SUFFICES ASSUME TickInv, [TickNext]_tickVars PROVE TickInv'
  OBVIOUS
<1> USE DEF TickInv
<1>0. /\ shown \in [Parties -> Shown] /\ unseen \in [Parties -> BOOLEAN]
      /\ step \in [Parties -> {"waits", "marked", "acts", "ticks"}] /\ writes \in Nat
      /\ view = [p \in Parties |-> view[p]]
      /\ \A p \in Parties : view[p] \in [Below[p] -> Shown]
      /\ \A p \in Parties : Below[p] \subseteq Parties
  BY TickAssumption DEF TickTypeOK, Shown
<1>1. ASSUME NEW p \in Parties, Marks(p) PROVE TickInv'
  <2>1. TickTypeOK'
    BY <1>0, <1>1 DEF Marks, TickTypeOK
  <2>2. Informed'
    BY <1>0, <1>1 DEF Marks, Informed
  <2> QED BY <2>1, <2>2
<1>2. ASSUME NEW p \in Parties, Snapshots(p) PROVE TickInv'
  <2>1. TickTypeOK'
    BY <1>0, <1>2, SnapshotIsShown DEF Snapshots, TickTypeOK, Shown
  <2>2. ASSUME NEW q \in Parties, step'[q] # "marked", ~unseen'[q], NEW d \in Below[q]
        PROVE  step'[d] = "ticks" \/ view'[q][d] = shown'[d]
    <3>1. unseen' = unseen /\ shown' = shown /\ d \in Parties /\ d # p => step'[d] = step[d]
      BY <1>0, <1>2 DEF Snapshots
    <3>2. CASE q = p
      BY <1>2, <3>1, <3>2, SnapshotIsShown DEF Snapshots
    <3>3. CASE q # p
      <4>1. view'[q] = view[q] /\ step[q] # "marked"
        BY <1>0, <1>2, <2>2, <3>3, SnapshotIsShown DEF Snapshots
      <4>2. step[d] = "ticks" \/ view[q][d] = shown[d]
        BY <1>2, <2>2, <4>1 DEF Informed, Snapshots
      <4>3. step[p] # "ticks"
        BY <1>2 DEF Snapshots
      <4> QED BY <1>0, <1>2, <4>1, <4>2, <4>3 DEF Snapshots
    <3> QED BY <3>2, <3>3
  <2>3. Informed'
    BY <2>2 DEF Informed
  <2> QED BY <2>1, <2>3
<1>3. ASSUME NEW p \in Parties, NEW s \in Statuses, Sets(p, s) PROVE TickInv'
  <2>1. shown' \in [Parties -> Shown]
    BY <1>3, SetShows
  <2>2. TickTypeOK'
    BY <1>0, <1>3, <2>1 DEF Sets, TickTypeOK, Shown
  <2>3. \A d \in Parties : step'[d] = "ticks" \/ (step'[d] = step[d] /\ shown'[d] = shown[d])
    BY <1>0, <1>3 DEF Sets
  <2>4. \A q \in Parties : step'[q] # "marked" => step[q] # "marked"
    BY <1>0, <1>3 DEF Sets
  <2>5. view' = view /\ unseen' = unseen
    BY <1>3 DEF Sets
  <2>6. Informed'
    BY <1>0, <2>3, <2>4, <2>5 DEF Informed
  <2> QED BY <2>2, <2>6
<1>4. ASSUME NEW p \in Parties, Sends(p) PROVE TickInv'
  <2>1. TickTypeOK'
    BY <1>0, <1>4 DEF Sends, TickTypeOK
  <2>2. Informed'
    BY <1>0, <1>4 DEF Sends, Informed
  <2> QED BY <2>1, <2>2
<1>5. ASSUME NEW p \in Parties, Sleeps(p) PROVE TickInv'
  <2>1. TickTypeOK'
    BY <1>0, <1>5 DEF Sleeps, TickTypeOK
  <2>2. Informed'
    BY <1>0, <1>5 DEF Sleeps, Informed
  <2> QED BY <2>1, <2>2
<1>6. CASE UNCHANGED tickVars
  BY <1>6 DEF tickVars, TickTypeOK, Informed
<1> QED BY <1>1, <1>2, <1>3, <1>4, <1>5, <1>6 DEF TickNext, Passes

(* No tick is lost, for any supervisors, any dependencies and any writes.  *)
THEOREM SleepersAreInformed == TickSpec => []SleepsInformed
<1>1. TickInv => SleepsInformed
  BY DEF TickInv, Informed, SleepsInformed
<1> QED BY <1>1, TickInitHolds, TickStepHolds, PTL DEF TickSpec

-----------------------------------------------------------------------------
(* Every step of BoardTicks is one of Notices, or none that can be seen    *)
(* there: a mark is a stir, a snapshot a look, and a write wakes before    *)
(* its tick is sent.                                                       *)
LEMMA TicksAreNotices ==
  TickTypeOK /\ [TickNext]_tickVars => [Atomic!NoticeNext]_(Atomic!noticeVars)
<1> DEFINE owes(p) == \/ unseen[p] \/ step[p] = "marked" \/ \E q \in Parties : step[q] = "ticks"
           debt == [p \in Parties |-> owes(p)]
<1> SUFFICES ASSUME TickTypeOK, [TickNext]_tickVars
             PROVE  Atomic!NoticeNext \/ UNCHANGED <<shown, view, debt>>
  BY DEF Atomic!noticeVars
<1>0. /\ unseen \in [Parties -> BOOLEAN]
      /\ step \in [Parties -> {"waits", "marked", "acts", "ticks"}]
  BY DEF TickTypeOK
<1>1. ASSUME NEW p \in Parties, Marks(p) PROVE Atomic!Stirs(p)
  <2>1. ASSUME NEW q \in Parties PROVE owes(q)' = (q = p \/ owes(q))
    BY <1>0, <1>1 DEF Marks
  <2>2. debt' = [debt EXCEPT ![p] = TRUE]
    BY <2>1
  <2> QED BY <1>1, <2>2 DEF Marks, Atomic!Stirs
<1>2. ASSUME NEW p \in Parties, Snapshots(p) PROVE Atomic!Looks(p)
  <2>1. ASSUME NEW q \in Parties, q # p PROVE owes(q)' = owes(q)
    BY <1>0, <1>2, <2>1 DEF Snapshots
  <2>2. owes(p)' \in BOOLEAN
    BY <1>0, <1>2 DEF Snapshots
  <2>3. debt' = [debt EXCEPT ![p] = owes(p)']
    BY <2>1
  <2> QED BY <1>2, <2>2, <2>3 DEF Snapshots, Atomic!Looks
<1>3. ASSUME NEW p \in Parties, NEW s \in Statuses, Sets(p, s) PROVE Atomic!Shows(p, s)
  <2>1. step'[p] = "ticks"
    BY <1>0, <1>3 DEF Sets
  <2>2. debt' = [q \in Parties |-> TRUE]
    BY <2>1
  <2> QED BY <1>3, <2>2 DEF Sets, Atomic!Shows
<1>4. ASSUME NEW p \in Parties, Sends(p) PROVE UNCHANGED <<shown, view, debt>>
  <2>1. debt = [q \in Parties |-> TRUE]
    BY <1>4 DEF Sends
  <2>2. debt' = [q \in Parties |-> TRUE]
    BY <1>0, <1>4 DEF Sends
  <2> QED BY <1>4, <2>1, <2>2 DEF Sends
<1>5. ASSUME NEW p \in Parties, Sleeps(p) PROVE UNCHANGED <<shown, view, debt>>
  <2>1. ASSUME NEW q \in Parties PROVE owes(q)' = owes(q)
    BY <1>0, <1>5 DEF Sleeps
  <2> QED BY <1>5, <2>1 DEF Sleeps
<1>6. CASE UNCHANGED tickVars
  BY <1>6 DEF tickVars
<1> QED BY <1>1, <1>2, <1>3, <1>4, <1>5, <1>6 DEF TickNext, Passes, Atomic!NoticeNext

(* BoardTicks implements the safety of Notices: to all who act on it a     *)
(* write and its tick are one step, and so are a mark and its snapshot, as *)
(* Engine has them. That an owed look comes is checked by TLC.             *)
THEOREM TicksImplementNotices == TickSpec => Atomic!NoticeSafe
<1>1. TickInit => Atomic!NoticeInit
  BY DEF TickInit, Atomic!NoticeInit, Pending, Atomic!Unstarted
<1>2. TickInv => TickTypeOK
  BY DEF TickInv
<1> QED BY <1>1, <1>2, TickInitHolds, TickStepHolds, TicksAreNotices, PTL
     DEF TickSpec, Atomic!NoticeSafe
=============================================================================
