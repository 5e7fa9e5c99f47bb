---------------------------- MODULE EngineProofs ----------------------------
(***************************************************************************)
(* Proofs about Engine, for every plan, configuration, number of slots and *)
(* number of faults. Four facts about a step, each from those before it,   *)
(* make IInv of EngineInv inductive: types, modes, slots, wakeups and the  *)
(* order of the stops. The safety properties follow from it.               *)
(***************************************************************************)
EXTENDS EngineInv, PlanProofs, TLAPS

(***************************************************************************)
(* The helpers of a pass.                                                  *)
(***************************************************************************)

(* The dependency a waiting node names is one of its dependencies.         *)
LEMMA FirstUnreadyIsDep ==
  ASSUME NEW n \in Nodes, Unready(n) # {}
  PROVE  FirstUnready(n) \in Deps(n) /\ FirstUnready(n) \in Nodes
<1>1. /\ DependsOn[n] \in Seq(Nodes)
      /\ Unready(n) \subseteq DOMAIN DependsOn[n]
  BY PlanIsDag DEF Unready
<1>2. Unready(n) \in SUBSET Nat
  BY <1>1
<1>3. Min(Unready(n)) \in Unready(n)
  BY <1>2, MinOfNaturals
<1> QED BY <1>1, <1>3 DEF FirstUnready, Deps

(* What the board's variables range over.                                  *)
BoardOK == /\ status \in [Nodes -> Statuses]
           /\ gen \in [Nodes -> Nat]
           /\ unseen \in [Nodes -> BOOLEAN]

(* A status written by a node, with whatever marks, is a board again.      *)
LEMMA PublishOK ==
  ASSUME BoardOK, NEW n \in Nodes, NEW s \in Statuses,
         NEW marks \in [Nodes -> BOOLEAN], Publish(n, s, marks)
  PROVE  BoardOK'
<1>1. Ticked \in [Nodes -> BOOLEAN]
  BY DEF Ticked, Watches
<1>2. gen' \in [Nodes -> Nat]
  BY DEF BoardOK, Publish, IsReady
<1>3. unseen' \in [Nodes -> BOOLEAN]
  BY <1>1 DEF BoardOK, Publish, IsReady
<1> QED BY <1>2, <1>3 DEF BoardOK, Publish

(* Marking the board seen leaves the marks Boolean.                       *)
LEMMA LookedOK ==
  ASSUME BoardOK, NEW n \in Nodes
  PROVE  Looked(n) \in [Nodes -> BOOLEAN]
BY DEF BoardOK, Looked

(* Whichever way a pass writes a status, the board keeps its types.       *)
LEMMA SetOK ==
  ASSUME BoardOK, NEW n \in Nodes, NEW s \in Statuses,
         Set(n, s) \/ SetAnew(n, s) \/ SetInRun(n, s)
  PROVE  BoardOK'
<1>1. CASE Set(n, s)
  BY <1>1, LookedOK, PublishOK DEF Set
<1>2. CASE SetInRun(n, s)
  BY <1>2, PublishOK DEF SetInRun, BoardOK
<1>3. CASE SetAnew(n, s)
  BY <1>3 DEF SetAnew, BoardOK, Ticked, Watches
<1> QED BY <1>1, <1>2, <1>3

(* A pass that writes nothing keeps the board's types.                    *)
LEMMA LookOK ==
  ASSUME BoardOK, NEW n \in Nodes, Look(n)
  PROVE  BoardOK'
BY LookedOK DEF Look, BoardOK

(* The build slots are a set of nodes and a queue of nodes.                *)
SlotsOK == holders \subseteq Nodes /\ slotQ \in Seq(Nodes)

(* Taking a slot, or a place in the queue for one, keeps the types.       *)
LEMMA AcquireOK ==
  ASSUME BoardOK, SlotsOK, NEW n \in Nodes,
         NEW marks \in [Nodes -> BOOLEAN], Acquire(n, marks)
  PROVE  BoardOK' /\ SlotsOK'
<1>1. CASE SlotFree
  BY <1>1 DEF Acquire, BoardOK, SlotsOK
<1>2. CASE ~SlotFree
  <2>1. BoardOK'
    BY <1>2, PublishOK DEF Acquire, Statuses, Kinds
  <2>2. SlotsOK'
    BY <1>2 DEF Acquire, SlotsOK
  <2> QED BY <2>1, <2>2
<1> QED BY <1>1, <1>2

(* Handing a slot on keeps the types.                                     *)
LEMMA ReleaseOK ==
  ASSUME SlotsOK, NEW n \in Nodes, Release(n)
  PROVE  SlotsOK'
<1>1. CASE n \in holders /\ slotQ # <<>>
  BY <1>1 DEF Release, SlotsOK
<1>2. CASE ~(n \in holders /\ slotQ # <<>>)
  BY <1>2 DEF Release, SlotsOK
<1> QED BY <1>1, <1>2

(***************************************************************************)
(* Type correctness.                                                       *)
(***************************************************************************)

LifeOK == /\ phase \in [Nodes -> Phases]
          /\ seen \in [Nodes -> [Nodes -> Nat]]
          /\ crashes \in [Nodes -> Nat]
          /\ \A n \in Nodes : crashes[n] <= MaxRestarts[n]
          /\ misses \in [Nodes -> 0..Misses]
          /\ proc \in [Nodes -> {"none", "alive", "exited"}]

MailOK == /\ restart \in [Nodes -> {"none", "queued", "woke"}]
          /\ stopSent \in [Nodes -> BOOLEAN]
          /\ shuttingDown \in BOOLEAN
          /\ stopper \in [Nodes -> {"idle", "check", "join", "joined", "overran"}]
          /\ budget \in 0..Faults

(* TypeOK in four parts, each about the variables that change together.   *)
LEMMA TypeParts == /\ TypeOK <=> BoardOK /\ SlotsOK /\ LifeOK /\ MailOK
                   /\ TypeOK' <=> BoardOK' /\ SlotsOK' /\ LifeOK' /\ MailOK'
BY DEF TypeOK, BoardOK, SlotsOK, LifeOK, MailOK

(* The start of a cycle leaves the types as they are.                      *)
LEMMA GateOK ==
  ASSUME TypeOK, NEW n \in Nodes, NEW m \in {"none", "queued", "woke"}, Gate(n, m)
  PROVE  /\ BoardOK'
         /\ phase' \in [Nodes -> Phases]
         /\ restart' \in [Nodes -> {"none", "queued", "woke"}]
<1>1. BoardOK
  BY TypeParts
<1>2. /\ phase \in [Nodes -> Phases] /\ restart \in [Nodes -> {"none", "queued", "woke"}]
      /\ "waiting" \in Phases /\ Drain(n) \in Phases
  BY DEF TypeOK, Drain, Phases, SharedPhases
<1>3. CASE Unready(n) # {}
  <2>1. FirstUnready(n) \in Statuses /\ Set(n, FirstUnready(n))
    BY <1>3, FirstUnreadyIsDep DEF Gate, Statuses
  <2>2. BoardOK'
    BY <1>1, <2>1, SetOK
  <2>3. To(n, "waiting") /\ Mail(n, m)
    BY <1>3 DEF Gate
  <2> QED BY <1>2, <2>2, <2>3 DEF To, Mail
<1>4. CASE Unready(n) = {}
  <2>1. Look(n) /\ To(n, Drain(n)) /\ Mail(n, "none")
    BY <1>4 DEF Gate
  <2>2. BoardOK'
    BY <1>1, <2>1, LookOK
  <2> QED BY <1>2, <2>1, <2>2 DEF To, Mail
<1> QED BY <1>3, <1>4

(* A snapshot's generations are numbers, one for each node.               *)
LEMMA GenerationsOK ==
  ASSUME BoardOK, NEW n \in Nodes
  PROVE  Generations(n) \in [Nodes -> Nat]
BY DEF Generations, BoardOK

(* A crash is counted up to the limit and no further.                      *)
LEMMA CrashLoopOK ==
  ASSUME LifeOK, NEW n \in Nodes, NEW r \in Nat, NEW s, CrashLoop(n, r, s),
         r <= MaxRestarts[n]
  PROVE  /\ phase' \in [Nodes -> Phases]
         /\ crashes' \in [Nodes -> Nat]
         /\ \A o \in Nodes : crashes'[o] <= MaxRestarts[o]
<1>1. MaxRestarts[n] \in Nat
  BY EngineAssumption
<1>2. CASE Exhausted(n, r)
  BY <1>2 DEF CrashLoop, To, LifeOK, Phases, ServicePhases
<1>3. CASE ~Exhausted(n, r)
  <2>1. r + 1 \in Nat /\ r + 1 <= MaxRestarts[n]
    BY <1>1, <1>3 DEF Exhausted
  <2>2. crashes' = [crashes EXCEPT ![n] = r + 1] /\ To(n, "backoff")
    BY <1>3 DEF CrashLoop
  <2> QED BY <2>1, <2>2 DEF To, LifeOK, Phases, ServicePhases
<1> QED BY <1>2, <1>3

(* Every action of every supervisor, stopper and environment keeps the     *)
(* types.                                                                  *)
LEMMA TypeStep == TypeOK /\ [Next]_vars => TypeOK'
<1> SUFFICES ASSUME TypeOK, [Next]_vars PROVE TypeOK'
  OBVIOUS
<1> USE DEF To, Mail, Kept, board, life, slots, down, Phases, ServicePhases, TaskPhases, SharedPhases
<1>0. /\ BoardOK /\ SlotsOK /\ LifeOK /\ MailOK
      /\ Faults \in Nat /\ Misses \in Nat \ {0} /\ MaxRestarts \in [Nodes -> Nat]
  BY TypeParts, EngineAssumption
<1>1. ASSUME NEW n \in Nodes, Begin(n) PROVE TypeOK'
  <2>1. restart[n] \in {"none", "queued", "woke"} /\ Gate(n, restart[n])
    BY <1>0, <1>1 DEF Begin, MailOK
  <2>2. BoardOK' /\ SlotsOK'
    BY <1>0, <1>1, <2>1, GateOK DEF Begin, SlotsOK
  <2>3. LifeOK' /\ MailOK'
    BY <1>0, <1>1, <2>1, GateOK DEF Begin, LifeOK, MailOK
  <2> QED BY <2>2, <2>3, TypeParts
<1>2. ASSUME NEW n \in Nodes, Cycles(n) PROVE TypeOK'
  <2>1. PICK m \in {"none", "queued"} : Woken(n, m) /\ Gate(n, m)
    BY <1>2 DEF Cycles
  <2>2. BoardOK' /\ SlotsOK'
    BY <1>0, <1>2, <2>1, GateOK DEF Cycles, SlotsOK
  <2>3. crashes' \in [Nodes -> Nat] /\ \A o \in Nodes : crashes'[o] <= MaxRestarts[o]
    BY <1>0, <1>2 DEF Cycles, LifeOK
  <2>4. LifeOK' /\ MailOK'
    BY <1>0, <1>2, <2>1, <2>3, GateOK DEF Cycles, LifeOK, MailOK
  <2> QED BY <2>2, <2>4, TypeParts
<1>3. ASSUME NEW n \in Nodes, Halts(n) PROVE TypeOK'
  <2>1. BoardOK' /\ SlotsOK'
    BY <1>0, <1>3, SetOK DEF Halts, Statuses, Kinds, SlotsOK
  <2>2. LifeOK' /\ MailOK'
    BY <1>0, <1>3 DEF Halts, LifeOK, MailOK
  <2> QED BY <2>1, <2>2, TypeParts
<1>4. ASSUME NEW n \in Nodes, Ignores(n) PROVE TypeOK'
  <2>1. BoardOK' /\ SlotsOK'
    BY <1>0, <1>4, LookOK DEF Ignores, SlotsOK
  <2>2. LifeOK' /\ MailOK'
    BY <1>0, <1>4 DEF Ignores, LifeOK, MailOK
  <2> QED BY <2>1, <2>2, TypeParts
<1>5. ASSUME NEW n \in Nodes, ServiceOpens(n) PROVE TypeOK'
  <2>1. BoardOK' /\ SlotsOK'
    BY <1>0, <1>5, SetOK, LookOK, LookedOK, AcquireOK DEF ServiceOpens, Statuses, Kinds, SlotsOK
  <2>2. seen' \in [Nodes -> [Nodes -> Nat]]
    BY <1>0, <1>5, GenerationsOK DEF ServiceOpens, Open, LifeOK
  <2>3. LifeOK' /\ MailOK'
    BY <1>0, <1>5, <2>2 DEF ServiceOpens, LifeOK, MailOK
  <2> QED BY <2>1, <2>3, TypeParts
<1>6. ASSUME NEW n \in Nodes, PortReclaimed(n) PROVE TypeOK'
  <2>1. BoardOK' /\ SlotsOK'
    BY <1>0, <1>6, AcquireOK, LookedOK DEF PortReclaimed, BoardOK
  <2>2. LifeOK' /\ MailOK'
    BY <1>0, <1>6 DEF PortReclaimed, LifeOK, MailOK
  <2> QED BY <2>1, <2>2, TypeParts
<1>7. ASSUME NEW n \in Nodes, Spawn(n) PROVE TypeOK'
  <2>1. CASE n \in Probed
    <3>1. BoardOK' /\ SlotsOK'
      BY <1>0, <1>7, <2>1 DEF Spawn, Ticked, Watches, Statuses, Kinds, BoardOK, SlotsOK
    <3>2. LifeOK' /\ MailOK'
      BY <1>0, <1>7, <2>1, SMTT(30) DEF Spawn, LifeOK, MailOK
    <3> QED BY <3>1, <3>2, TypeParts
  <2>2. CASE n \notin Probed
    <3>1. BoardOK' /\ SlotsOK'
      BY <1>0, <1>7, <2>2, SetOK, ReleaseOK DEF Spawn, Statuses, Kinds
    <3>2. LifeOK' /\ MailOK'
      BY <1>0, <1>7, <2>2 DEF Spawn, LifeOK, MailOK
    <3> QED BY <3>1, <3>2, TypeParts
  <2> QED BY <2>1, <2>2
<1>8. ASSUME NEW n \in Nodes, ProbePasses(n) PROVE TypeOK'
  <2>1. BoardOK' /\ SlotsOK'
    BY <1>0, <1>8, SetOK, ReleaseOK DEF ProbePasses, BecameReady, Statuses, Kinds
  <2>2. LifeOK' /\ MailOK'
    BY <1>0, <1>8 DEF ProbePasses, BecameReady, LifeOK, MailOK
  <2> QED BY <2>1, <2>2, TypeParts
<1>9. ASSUME NEW n \in Nodes, ProbeAgain(n) PROVE TypeOK'
  <2>1. BoardOK' /\ SlotsOK'
    BY <1>0, <1>9, LookOK DEF ProbeAgain, SlotsOK
  <2>2. LifeOK' /\ MailOK'
    BY <1>0, <1>9 DEF ProbeAgain, LifeOK, MailOK
  <2> QED BY <2>1, <2>2, TypeParts
<1>10. ASSUME NEW n \in Nodes, Exited(n) PROVE TypeOK'
  <2>1. BoardOK' /\ SlotsOK'
    BY <1>0, <1>10, SetOK, ReleaseOK DEF Exited, CrashLoop, Statuses, Kinds
  <2>2. /\ phase' \in [Nodes -> Phases]
        /\ crashes' \in [Nodes -> Nat]
        /\ \A o \in Nodes : crashes'[o] <= MaxRestarts[o]
    <3>1. CASE Policy[n] = "always"
      <4>1. PICK r \in Nat : r <= MaxRestarts[n] /\ CrashLoop(n, r, "backoff")
        BY <1>0, <1>10, <3>1 DEF Exited, LifeOK
      <4> QED BY <1>0, <4>1, CrashLoopOK
    <3>2. CASE Policy[n] # "always"
      BY <1>0, <1>10, <3>2 DEF Exited, LifeOK
    <3> QED BY <3>1, <3>2
  <2>3. LifeOK' /\ MailOK'
    BY <1>0, <1>10, <2>2 DEF Exited, LifeOK, MailOK
  <2> QED BY <2>1, <2>3, TypeParts
<1>11. ASSUME NEW n \in Nodes, InterruptStartup(n) PROVE TypeOK'
  <2>1. BoardOK' /\ SlotsOK'
    BY <1>0, <1>11, SetOK, ReleaseOK DEF InterruptStartup, Stopping, Statuses, Kinds
  <2>2. LifeOK' /\ MailOK'
    BY <1>0, <1>11 DEF InterruptStartup, Stopping, LifeOK, MailOK
  <2> QED BY <2>1, <2>2, TypeParts
<1>12. ASSUME NEW n \in Nodes, RunningRestarts(n) PROVE TypeOK'
  <2>1. BoardOK' /\ SlotsOK'
    BY <1>0, <1>12, SetOK DEF RunningRestarts, RestartRunning, Stopping, Statuses, Kinds, SlotsOK
  <2>2. LifeOK' /\ MailOK'
    BY <1>0, <1>12 DEF RunningRestarts, RestartRunning, Stopping, LifeOK, MailOK
  <2> QED BY <2>1, <2>2, TypeParts
<1>13. ASSUME NEW n \in Nodes, Answers(n) PROVE TypeOK'
  <2>1. BoardOK' /\ SlotsOK'
    BY <1>0, <1>13, SetOK, LookOK DEF Answers, TookDown, Statuses, Kinds, SlotsOK
  <2>2. LifeOK' /\ MailOK'
    BY <1>0, <1>13 DEF Answers, TookDown, LifeOK, MailOK
  <2> QED BY <2>1, <2>2, TypeParts
<1>14. ASSUME NEW n \in Nodes, TakeStop(n) PROVE TypeOK'
  <2>1. BoardOK' /\ SlotsOK'
    BY <1>0, <1>14, SetOK DEF TakeStop, StopAlive, Statuses, Kinds, SlotsOK
  <2>2. LifeOK' /\ MailOK'
    BY <1>0, <1>14 DEF TakeStop, StopAlive, LifeOK, MailOK
  <2> QED BY <2>1, <2>2, TypeParts
<1>15. ASSUME NEW n \in Nodes, ChildStopped(n) PROVE TypeOK'
  <2>1. CASE phase[n] = "stopExit"
    <3>1. BoardOK' /\ SlotsOK'
      BY <1>0, <1>15, <2>1, LookOK, ReleaseOK DEF ChildStopped
    <3>2. LifeOK' /\ MailOK'
      BY <1>0, <1>15, <2>1 DEF ChildStopped, LifeOK, MailOK
    <3> QED BY <3>1, <3>2, TypeParts
  <2>2. CASE phase[n] = "stopCycle"
    <3>1. restart[n] \in {"none", "queued", "woke"} /\ Gate(n, restart[n])
      BY <1>0, <1>15, <2>2 DEF ChildStopped, MailOK
    <3>2. BoardOK' /\ SlotsOK'
      BY <1>0, <1>15, <2>2, <3>1, GateOK DEF ChildStopped, SlotsOK
    <3>3. LifeOK' /\ MailOK'
      BY <1>0, <1>15, <2>2, <3>1, GateOK DEF ChildStopped, LifeOK, MailOK
    <3> QED BY <3>2, <3>3, TypeParts
  <2> QED BY <1>15, <2>1, <2>2 DEF ChildStopped
<1>16. ASSUME NEW n \in Nodes, BackoffOver(n) PROVE TypeOK'
  <2>1. Kept(n) \in {"none", "queued", "woke"} /\ Gate(n, Kept(n))
    BY <1>0, <1>16 DEF BackoffOver, MailOK
  <2>2. BoardOK' /\ SlotsOK'
    BY <1>0, <1>16, <2>1, GateOK DEF BackoffOver, SlotsOK
  <2>3. LifeOK' /\ MailOK'
    BY <1>0, <1>16, <2>1, GateOK DEF BackoffOver, LifeOK, MailOK
  <2> QED BY <2>2, <2>3, TypeParts
<1>17. ASSUME NEW n \in Nodes, LeaveParked(n) PROVE TypeOK'
  <2>1. BoardOK' /\ SlotsOK'
    BY <1>0, <1>17, LookOK DEF LeaveParked, SlotsOK
  <2>2. LifeOK' /\ MailOK'
    BY <1>0, <1>17 DEF LeaveParked, LifeOK, MailOK
  <2> QED BY <2>1, <2>2, TypeParts
<1>18. ASSUME NEW n \in Nodes, TaskOpens(n) PROVE TypeOK'
  <2>1. BoardOK' /\ SlotsOK'
    BY <1>0, <1>18, SetOK DEF TaskOpens, Statuses, Kinds, SlotsOK
  <2>2. seen' \in [Nodes -> [Nodes -> Nat]]
    BY <1>0, <1>18, GenerationsOK DEF TaskOpens, Open, LifeOK
  <2>3. LifeOK' /\ MailOK'
    BY <1>0, <1>18, <2>2 DEF TaskOpens, LifeOK, MailOK
  <2> QED BY <2>1, <2>3, TypeParts
<1>19. ASSUME NEW n \in Nodes, Hits(n) PROVE TypeOK'
  <2>1. CASE UNCHANGED board
    BY <1>0, <1>19, <2>1, TypeParts DEF Hits, BoardOK, SlotsOK, LifeOK, MailOK
  <2>2. CASE SetInRun(n, "done") /\ UNCHANGED proc /\ To(n, "settled")
    <3>1. BoardOK'
      BY <1>0, <2>2, SetOK DEF Statuses, Kinds
    <3>2. SlotsOK' /\ LifeOK' /\ MailOK'
      BY <1>0, <1>19, <2>2 DEF Hits, SlotsOK, LifeOK, MailOK
    <3> QED BY <3>1, <3>2, TypeParts
  <2> QED BY <1>19, <2>1, <2>2 DEF Hits
<1>20. ASSUME NEW n \in Nodes, MissesCache(n) PROVE TypeOK'
  <2>1. BoardOK' /\ SlotsOK'
    BY <1>0, <1>20, AcquireOK, LookedOK DEF MissesCache, BoardOK
  <2>2. LifeOK' /\ MailOK'
    BY <1>0, <1>20 DEF MissesCache, LifeOK, MailOK
  <2> QED BY <2>1, <2>2, TypeParts
<1>21. ASSUME NEW n \in Nodes, JobSpawns(n) PROVE TypeOK'
  <2>1. BoardOK' /\ SlotsOK'
    BY <1>0, <1>21, SetOK DEF JobSpawns, Statuses, Kinds, SlotsOK
  <2>2. LifeOK' /\ MailOK'
    BY <1>0, <1>21 DEF JobSpawns, LifeOK, MailOK
  <2> QED BY <2>1, <2>2, TypeParts
<1>22. ASSUME NEW n \in Nodes, JobSucceeds(n) PROVE TypeOK'
  <2>1. BoardOK' /\ SlotsOK'
    BY <1>0, <1>22, SetOK DEF JobSucceeds, Statuses, Kinds, SlotsOK
  <2>2. LifeOK' /\ MailOK'
    BY <1>0, <1>22 DEF JobSucceeds, LifeOK, MailOK
  <2> QED BY <2>1, <2>2, TypeParts
<1>23. ASSUME NEW n \in Nodes, JobStores(n) PROVE TypeOK'
  <2>1. BoardOK' /\ SlotsOK'
    BY <1>0, <1>23, ReleaseOK DEF JobStores, BoardOK
  <2>2. LifeOK' /\ MailOK'
    BY <1>0, <1>23 DEF JobStores, LifeOK, MailOK
  <2> QED BY <2>1, <2>2, TypeParts
<1>24. ASSUME NEW n \in Nodes, Rechecked(n) PROVE TypeOK'
  <2>1. BoardOK' /\ SlotsOK'
    BY <1>0, <1>24, SetOK DEF Rechecked, Statuses, Kinds, SlotsOK
  <2>2. LifeOK' /\ MailOK'
    BY <1>0, <1>24 DEF Rechecked, LifeOK, MailOK
  <2> QED BY <2>1, <2>2, TypeParts
<1>25. ASSUME NEW n \in Nodes, JobDone(n) PROVE TypeOK'
  <2>1. BoardOK' /\ SlotsOK'
    BY <1>0, <1>25, LookOK DEF JobDone, SlotsOK
  <2>2. LifeOK' /\ MailOK'
    BY <1>0, <1>25 DEF JobDone, LifeOK, MailOK
  <2> QED BY <2>1, <2>2, TypeParts
<1>26. ASSUME NEW n \in Nodes, SendStop(n) PROVE TypeOK'
  <2>1. BoardOK' /\ SlotsOK'
    BY <1>0, <1>26 DEF SendStop, BoardOK, SlotsOK
  <2>2. LifeOK' /\ MailOK'
    BY <1>0, <1>26 DEF SendStop, LifeOK, MailOK
  <2> QED BY <2>1, <2>2, TypeParts
<1>27. ASSUME NEW n \in Nodes, StopJob(n) PROVE TypeOK'
  <2>1. BoardOK' /\ SlotsOK'
    BY <1>0, <1>27 DEF StopJob, BoardOK, SlotsOK
  <2>2. LifeOK' /\ MailOK'
    BY <1>0, <1>27 DEF StopJob, LifeOK, MailOK
  <2> QED BY <2>1, <2>2, TypeParts
<1>28. ASSUME NEW n \in Nodes, Join(n) PROVE TypeOK'
  <2>1. BoardOK' /\ SlotsOK'
    BY <1>0, <1>28 DEF Join, Finished, BoardOK, SlotsOK
  <2>2. LifeOK' /\ MailOK'
    BY <1>0, <1>28 DEF Join, Finished, LifeOK, MailOK
  <2> QED BY <2>1, <2>2, TypeParts
<1>29. ASSUME NEW n \in Nodes, Overrun(n) PROVE TypeOK'
  <2>1. BoardOK' /\ SlotsOK'
    BY <1>0, <1>29 DEF Overrun, BoardOK, SlotsOK
  <2>2. LifeOK' /\ MailOK'
    BY <1>0, <1>29 DEF Overrun, LifeOK, MailOK
  <2> QED BY <2>1, <2>2, TypeParts
<1>30. ASSUME NEW n \in Nodes, LivenessDue(n) PROVE TypeOK'
  <2>1. BoardOK' /\ SlotsOK'
    BY <1>0, <1>30, LookOK DEF LivenessDue, SlotsOK
  <2>2. LifeOK' /\ MailOK'
    BY <1>0, <1>30 DEF LivenessDue, LifeOK, MailOK
  <2> QED BY <2>1, <2>2, TypeParts
<1>31. ASSUME NEW n \in Nodes, MissesCheck(n) PROVE TypeOK'
  <2>1. BoardOK' /\ SlotsOK'
    BY <1>0, <1>31, SetOK, LookOK DEF MissesCheck, RestartRunning, Stopping, Statuses, Kinds, SlotsOK
  <2>2. misses' \in [Nodes -> 0..Misses]
    <3>1. misses[n] \in 0..Misses /\ Misses \in Nat
      BY <1>0 DEF LifeOK
    <3>2. (IF TookDown(n) THEN misses[n] ELSE misses[n] + 1) \in 0..Misses
      BY <3>1 DEF TookDown
    <3> QED BY <1>0, <1>31, <3>2 DEF MissesCheck, LifeOK
  <2>3. LifeOK' /\ MailOK'
    BY <1>0, <1>31, <2>2, SMTT(30) DEF MissesCheck, RestartRunning, LifeOK, MailOK
  <2> QED BY <2>1, <2>3, TypeParts
<1>32. ASSUME NEW n \in Nodes, ProbeFails(n) PROVE TypeOK'
  <2>1. BoardOK' /\ SlotsOK'
    BY <1>0, <1>32, SetOK, LookOK, ReleaseOK DEF ProbeFails, BecameReady, Statuses, Kinds, SlotsOK
  <2>2. LifeOK' /\ MailOK'
    BY <1>0, <1>32 DEF ProbeFails, BecameReady, LifeOK, MailOK
  <2> QED BY <2>1, <2>2, TypeParts
<1>33. ASSUME NEW n \in Nodes, SpawnFails(n) PROVE TypeOK'
  <2>1. BoardOK' /\ SlotsOK'
    BY <1>0, <1>33, SetOK, ReleaseOK DEF SpawnFails, CrashLoop, Statuses, Kinds
  <2>2. /\ phase' \in [Nodes -> Phases]
        /\ crashes' \in [Nodes -> Nat]
        /\ \A o \in Nodes : crashes'[o] <= MaxRestarts[o]
    <3>1. CASE Policy[n] = "never"
      BY <1>0, <1>33, <3>1 DEF SpawnFails, LifeOK
    <3>2. CASE Policy[n] # "never"
      <4>1. crashes[n] \in Nat /\ crashes[n] <= MaxRestarts[n] /\ CrashLoop(n, crashes[n], "failed")
        BY <1>0, <1>33, <3>2 DEF SpawnFails, LifeOK
      <4> QED BY <1>0, <4>1, CrashLoopOK
    <3> QED BY <3>1, <3>2
  <2>3. LifeOK' /\ MailOK'
    BY <1>0, <1>33, <2>2 DEF SpawnFails, LifeOK, MailOK
  <2> QED BY <2>1, <2>3, TypeParts
<1>34. ASSUME NEW n \in Nodes, Exits(n) PROVE TypeOK'
  <2>1. BoardOK' /\ SlotsOK'
    BY <1>0, <1>34 DEF Exits, BoardOK, SlotsOK
  <2>2. LifeOK' /\ MailOK'
    BY <1>0, <1>34 DEF Exits, LifeOK, MailOK
  <2> QED BY <2>1, <2>2, TypeParts
<1>35. ASSUME NEW n \in Nodes, JobErrs(n) PROVE TypeOK'
  <2>1. BoardOK' /\ SlotsOK'
    BY <1>0, <1>35, SetOK, ReleaseOK DEF JobErrs, Statuses, Kinds
  <2>2. LifeOK' /\ MailOK'
    BY <1>0, <1>35 DEF JobErrs, LifeOK, MailOK
  <2> QED BY <2>1, <2>2, TypeParts
<1>36. ASSUME NEW n \in Nodes, JobFails(n) PROVE TypeOK'
  <2>1. BoardOK' /\ SlotsOK'
    BY <1>0, <1>36, SetOK, ReleaseOK DEF JobFails, Statuses, Kinds
  <2>2. LifeOK' /\ MailOK'
    BY <1>0, <1>36 DEF JobFails, LifeOK, MailOK
  <2> QED BY <2>1, <2>2, TypeParts
<1>37. ASSUME NEW n \in Nodes, AskRestart(n) PROVE TypeOK'
  <2>1. BoardOK' /\ SlotsOK'
    BY <1>0, <1>37 DEF AskRestart, SendRestart, BoardOK, SlotsOK
  <2>2. LifeOK' /\ MailOK'
    BY <1>0, <1>37 DEF AskRestart, SendRestart, LifeOK, MailOK
  <2> QED BY <2>1, <2>2, TypeParts
<1>38. ASSUME NEW n \in Nodes, JobExits(n) PROVE TypeOK'
  <2>1. BoardOK' /\ SlotsOK'
    BY <1>0, <1>38 DEF JobExits, BoardOK, SlotsOK
  <2>2. LifeOK' /\ MailOK'
    BY <1>0, <1>38 DEF JobExits, LifeOK, MailOK
  <2> QED BY <2>1, <2>2, TypeParts
<1>39. CASE FilesChange
  <2>1. BoardOK' /\ SlotsOK'
    BY <1>0, <1>39 DEF FilesChange, BoardOK, SlotsOK
  <2>2. LifeOK' /\ MailOK'
    BY <1>0, <1>39 DEF FilesChange, SendRestart, LifeOK, MailOK
  <2> QED BY <2>1, <2>2, TypeParts
<1>40. CASE ShutDown
  BY <1>0, <1>40, TypeParts DEF ShutDown, BoardOK, SlotsOK, LifeOK, MailOK
<1>41. CASE UNCHANGED vars
  BY <1>0, <1>41, TypeParts DEF vars, BoardOK, SlotsOK, LifeOK, MailOK
<1> QED
  BY <1>1, <1>2, <1>3, <1>4, <1>5, <1>6, <1>7, <1>8, <1>9, <1>10, <1>11, <1>12, <1>13, <1>14, <1>15, <1>16, <1>17, <1>18, <1>19, <1>20, <1>21, <1>22, <1>23, <1>24, <1>25, <1>26, <1>27, <1>28, <1>29, <1>30, <1>31, <1>32, <1>33, <1>34, <1>35, <1>36, <1>37, <1>38, <1>39, <1>40, <1>41
     DEF Next, Step, Supervise, Stopper, Environment
(***************************************************************************)
(* Modes: phase, child and status agree.                                   *)
(***************************************************************************)

(* What a pass does to the status on the board.                            *)
LEMMA PassStatus ==
  ASSUME NEW n \in Nodes
  PROVE  /\ Look(n) => status' = status
         /\ \A s : Set(n, s) \/ SetAnew(n, s) \/ SetInRun(n, s)
                     => status' = [status EXCEPT ![n] = s]
BY DEF Look, Set, SetAnew, SetInRun, Publish

(* Asking for a slot shows nothing, or that the node is queued.           *)
LEMMA AcquireStatus ==
  ASSUME NEW n \in Nodes, NEW marks, Acquire(n, marks)
  PROVE  status' = status \/ status' = [status EXCEPT ![n] = "queued"]
BY DEF Acquire, Publish

(* At its gate a node shows what it waits for, or is let through.         *)
LEMMA GateStatus ==
  ASSUME NEW n \in Nodes, NEW m, Gate(n, m)
  PROVE  \/ /\ \E d \in Nodes \ Kinds : status' = [status EXCEPT ![n] = d]
            /\ To(n, "waiting")
            /\ Watches(n)
         \/ /\ status' = status
            /\ To(n, "draining") \/ To(n, "halting")
<1>1. CASE Unready(n) # {}
  <2>1. FirstUnready(n) \in Nodes \ Kinds
    BY <1>1, FirstUnreadyIsDep, StatusNamesApart
  <2>2. Watches(n)
    BY <1>1 DEF Unready, Watches
  <2> QED BY <1>1, <2>1, <2>2, PassStatus DEF Gate
<1>2. CASE Unready(n) = {}
  BY <1>2, PassStatus DEF Gate, Drain
<1> QED BY <1>1, <1>2

(* A gate is looked at by a node without a process: it waits or gets ready *)
(* to open, and what it shows stays true.                                  *)
LEMMA GateMode ==
  ASSUME TypeOK, Modes, NEW n \in Nodes, NEW m, Gate(n, m),
         phase[n] \in SharedPhases \cup {"gaveup", "served", "backoff", "stopCycle"},
         proc' = [proc EXCEPT ![n] = "none"]
  PROVE  Modes'
<1> USE DEF To, Modes, Mode, WithChild, ServicePhases, TaskPhases, SharedPhases
<1>0. /\ phase \in [Nodes -> Phases] /\ status \in [Nodes -> Statuses]
      /\ proc \in [Nodes -> {"none", "alive", "exited"}]
  BY DEF TypeOK
<1>1. CASE status' = status /\ (To(n, "draining") \/ To(n, "halting"))
  <2>1. ASSUME NEW o \in Nodes, o # n PROVE Mode(o)'
    BY <1>0, <1>1, <2>1
  <2>2. Mode(n)'
    BY <1>0, <1>1
  <2> QED BY <2>1, <2>2
<1>2. ASSUME NEW d \in Nodes \ Kinds, status' = [status EXCEPT ![n] = d],
             To(n, "waiting"), Watches(n)
      PROVE  Modes'
  <2>1. ASSUME NEW o \in Nodes, o # n PROVE Mode(o)'
    BY <1>0, <1>2, <2>1
  <2>2. d # "healthy" /\ d # "done"
    BY <1>2 DEF Kinds
  <2>3. Mode(n)'
    BY <1>0, <1>2, <2>2 DEF Watches
  <2> QED BY <2>1, <2>3
<1> QED BY <1>1, <1>2, GateStatus

(* Every step keeps phase, child and status in agreement.                  *)
LEMMA ModesStep == TypeOK /\ Modes /\ [Next]_vars => Modes'
<1> SUFFICES ASSUME TypeOK, Modes, [Next]_vars PROVE Modes'
  OBVIOUS
<1> USE DEF To, board, life, Modes, Mode, WithChild, ServicePhases, TaskPhases, Services
<1>0. /\ TypeOK /\ Modes
      /\ Tasks \subseteq Nodes /\ Served \subseteq Services
      /\ Verified \subseteq Tasks /\ Live \subseteq Services
      /\ phase \in [Nodes -> Phases]
      /\ status \in [Nodes -> Statuses]
      /\ proc \in [Nodes -> {"none", "alive", "exited"}]
  BY EngineAssumption DEF TypeOK
<1>1. ASSUME NEW n \in Nodes, Begin(n) PROVE Modes'
  <2>1. proc' = [proc EXCEPT ![n] = "none"]
    BY <1>0, <1>1 DEF Begin
  <2> QED BY <1>0, <1>1, <2>1, GateMode DEF Begin, SharedPhases
<1>2. ASSUME NEW n \in Nodes, Cycles(n) PROVE Modes'
  <2>1. proc' = [proc EXCEPT ![n] = "none"]
    BY <1>0, <1>2 DEF Cycles
  <2> QED BY <1>0, <1>2, <2>1, GateMode DEF Cycles, SharedPhases
<1>3. ASSUME NEW n \in Nodes, Halts(n) PROVE Modes'
  BY <1>0, <1>3, PassStatus DEF Halts
<1>4. ASSUME NEW n \in Nodes, Ignores(n) PROVE Modes'
  BY <1>0, <1>4, PassStatus DEF Ignores
<1>5. ASSUME NEW n \in Nodes, ServiceOpens(n) PROVE Modes'
  BY <1>0, <1>5, PassStatus, AcquireStatus DEF ServiceOpens
<1>6. ASSUME NEW n \in Nodes, PortReclaimed(n) PROVE Modes'
  BY <1>0, <1>6, AcquireStatus DEF PortReclaimed
<1>7. ASSUME NEW n \in Nodes, Spawn(n) PROVE Modes'
  BY <1>0, <1>7, PassStatus DEF Spawn
<1>8. ASSUME NEW n \in Nodes, ProbePasses(n) PROVE Modes'
  BY <1>0, <1>8, PassStatus DEF ProbePasses, BecameReady
<1>9. ASSUME NEW n \in Nodes, ProbeAgain(n) PROVE Modes'
  BY <1>0, <1>9, PassStatus DEF ProbeAgain
<1>10. ASSUME NEW n \in Nodes, Exited(n) PROVE Modes'
  BY <1>0, <1>10, PassStatus DEF Exited, CrashLoop
<1>11. ASSUME NEW n \in Nodes, InterruptStartup(n) PROVE Modes'
  BY <1>0, <1>11, PassStatus DEF InterruptStartup, Stopping
<1>12. ASSUME NEW n \in Nodes, RunningRestarts(n) PROVE Modes'
  BY <1>0, <1>12, PassStatus DEF RunningRestarts, RestartRunning, Stopping
<1>13. ASSUME NEW n \in Nodes, Answers(n) PROVE Modes'
  BY <1>0, <1>13, PassStatus DEF Answers
<1>14. ASSUME NEW n \in Nodes, TakeStop(n) PROVE Modes'
  BY <1>0, <1>14, PassStatus DEF TakeStop, StopAlive
<1>15. ASSUME NEW n \in Nodes, ChildStopped(n) PROVE Modes'
  <2>1. CASE phase[n] = "stopExit"
    BY <1>0, <1>15, <2>1, PassStatus DEF ChildStopped
  <2>2. CASE phase[n] = "stopCycle"
    BY <1>0, <1>15, <2>2, GateMode DEF ChildStopped
  <2> QED BY <1>15, <2>1, <2>2 DEF ChildStopped
<1>16. ASSUME NEW n \in Nodes, BackoffOver(n) PROVE Modes'
  <2>1. proc' = [proc EXCEPT ![n] = "none"]
    BY <1>0, <1>16 DEF BackoffOver
  <2> QED BY <1>0, <1>16, <2>1, GateMode DEF BackoffOver
<1>17. ASSUME NEW n \in Nodes, LeaveParked(n) PROVE Modes'
  BY <1>0, <1>17, PassStatus DEF LeaveParked
<1>18. ASSUME NEW n \in Nodes, TaskOpens(n) PROVE Modes'
  BY <1>0, <1>18, PassStatus DEF TaskOpens
<1>19. ASSUME NEW n \in Nodes, Hits(n) PROVE Modes'
  BY <1>0, <1>19, PassStatus DEF Hits
<1>20. ASSUME NEW n \in Nodes, MissesCache(n) PROVE Modes'
  BY <1>0, <1>20, AcquireStatus DEF MissesCache
<1>21. ASSUME NEW n \in Nodes, JobSpawns(n) PROVE Modes'
  BY <1>0, <1>21, PassStatus DEF JobSpawns
<1>22. ASSUME NEW n \in Nodes, JobSucceeds(n) PROVE Modes'
  BY <1>0, <1>22, PassStatus DEF JobSucceeds
<1>23. ASSUME NEW n \in Nodes, JobStores(n) PROVE Modes'
  BY <1>0, <1>23 DEF JobStores
<1>24. ASSUME NEW n \in Nodes, Rechecked(n) PROVE Modes'
  BY <1>0, <1>24, PassStatus DEF Rechecked
<1>25. ASSUME NEW n \in Nodes, JobDone(n) PROVE Modes'
  BY <1>0, <1>25, PassStatus DEF JobDone
<1>26. ASSUME NEW n \in Nodes, SendStop(n) PROVE Modes'
  BY <1>0, <1>26 DEF SendStop
<1>27. ASSUME NEW n \in Nodes, StopJob(n) PROVE Modes'
  BY <1>0, <1>27 DEF StopJob
<1>28. ASSUME NEW n \in Nodes, Join(n) PROVE Modes'
  BY <1>0, <1>28 DEF Join
<1>29. ASSUME NEW n \in Nodes, Overrun(n) PROVE Modes'
  BY <1>0, <1>29 DEF Overrun
<1>30. ASSUME NEW n \in Nodes, LivenessDue(n) PROVE Modes'
  BY <1>0, <1>30, PassStatus DEF LivenessDue
<1>31. ASSUME NEW n \in Nodes, MissesCheck(n) PROVE Modes'
  BY <1>0, <1>31, PassStatus DEF MissesCheck, RestartRunning, Stopping
<1>32. ASSUME NEW n \in Nodes, ProbeFails(n) PROVE Modes'
  BY <1>0, <1>32, PassStatus DEF ProbeFails, BecameReady
<1>33. ASSUME NEW n \in Nodes, SpawnFails(n) PROVE Modes'
  BY <1>0, <1>33, PassStatus DEF SpawnFails, CrashLoop
<1>34. ASSUME NEW n \in Nodes, Exits(n) PROVE Modes'
  BY <1>0, <1>34 DEF Exits
<1>35. ASSUME NEW n \in Nodes, JobErrs(n) PROVE Modes'
  BY <1>0, <1>35, PassStatus DEF JobErrs
<1>36. ASSUME NEW n \in Nodes, JobFails(n) PROVE Modes'
  BY <1>0, <1>36, PassStatus DEF JobFails
<1>37. ASSUME NEW n \in Nodes, AskRestart(n) PROVE Modes'
  BY <1>0, <1>37 DEF AskRestart
<1>38. ASSUME NEW n \in Nodes, JobExits(n) PROVE Modes'
  BY <1>0, <1>38 DEF JobExits
<1>39. CASE FilesChange
  BY <1>0, <1>39 DEF FilesChange
<1>40. CASE ShutDown
  BY <1>0, <1>40 DEF ShutDown
<1>41. CASE UNCHANGED vars
  BY <1>0, <1>41 DEF vars
<1> QED
  BY <1>1, <1>2, <1>3, <1>4, <1>5, <1>6, <1>7, <1>8, <1>9, <1>10, <1>11, <1>12, <1>13, <1>14, <1>15, <1>16, <1>17, <1>18, <1>19, <1>20, <1>21, <1>22, <1>23, <1>24, <1>25, <1>26, <1>27, <1>28, <1>29, <1>30, <1>31, <1>32, <1>33, <1>34, <1>35, <1>36, <1>37, <1>38, <1>39, <1>40, <1>41
     DEF Next, Step, Supervise, Stopper, Environment

(***************************************************************************)
(* Build slots.                                                            *)
(***************************************************************************)

(* A node that had nothing to do with the slots gets one or waits for one. *)
LEMMA AcquireSlots ==
  ASSUME TypeOK, SlotsInOrder, NEW n \in Nodes, NEW marks, NEW p \in QueuePhases,
         Acquire(n, marks), To(n, p), phase[n] \notin SlotPhases
  PROVE  SlotsInOrder'
<1> USE DEF SlotPhases, QueuePhases, SlotNeeded
<1>0. /\ phase \in [Nodes -> Phases] /\ holders \subseteq Nodes /\ slotQ \in Seq(Nodes)
      /\ phase' = [phase EXCEPT ![n] = p]
      /\ n \notin holders /\ \A i \in DOMAIN slotQ : slotQ[i] # n
  BY DEF TypeOK, To, SlotsInOrder
<1>1. CASE SlotFree
  <2>1. holders' = holders \cup {n} /\ slotQ' = slotQ
    BY <1>1 DEF Acquire
  <2>2. IsFiniteSet(holders) /\ Slots \in Nat
    BY <1>0, PlanIsDag, FS_Subset, EngineAssumption
  <2>3. Cardinality(holders \cup {n}) = Cardinality(holders) + 1
    BY <1>0, <2>2, FS_AddElement
  <2>4. Cardinality(holders') <= Slots
    BY <1>1, <2>1, <2>2, <2>3, FS_CardinalityType DEF SlotFree
  <2> QED BY <1>0, <2>1, <2>4 DEF SlotsInOrder
<1>2. CASE ~SlotFree
  <2>1. holders' = holders /\ slotQ' = Append(slotQ, n)
    BY <1>2 DEF Acquire
  <2>2. /\ DOMAIN slotQ' = 1..(Len(slotQ) + 1) /\ DOMAIN slotQ = 1..Len(slotQ)
        /\ slotQ'[Len(slotQ) + 1] = n
        /\ \A i \in 1..Len(slotQ) : slotQ'[i] = slotQ[i]
    BY <1>0, <2>1
  <2>3. \A i, j \in DOMAIN slotQ' : slotQ'[i] = slotQ'[j] => i = j
    BY <1>0, <2>2 DEF SlotsInOrder
  <2>4. \A i \in DOMAIN slotQ' : phase'[slotQ'[i]] \in QueuePhases /\ slotQ'[i] \notin holders'
    BY <1>0, <2>1, <2>2 DEF SlotsInOrder
  <2> QED BY <1>0, <2>1, <2>3, <2>4 DEF SlotsInOrder
<1> QED BY <1>1, <1>2

(* A node that does not wait for a slot gives up the one it may have: to   *)
(* the first in the queue, who has none yet.                               *)
LEMMA ReleaseSlots ==
  ASSUME TypeOK, SlotsInOrder, NEW n \in Nodes, NEW p, Release(n), To(n, p),
         phase[n] \in QueuePhases => n \in holders, p \notin SlotNeeded
  PROVE  SlotsInOrder'
<1> USE DEF SlotPhases, QueuePhases, SlotNeeded
<1>0. /\ phase \in [Nodes -> Phases] /\ holders \subseteq Nodes /\ slotQ \in Seq(Nodes)
      /\ phase' = [phase EXCEPT ![n] = p]
      /\ \A i \in DOMAIN slotQ : slotQ[i] # n
  BY DEF TypeOK, To, SlotsInOrder
<1>1. /\ IsFiniteSet(holders) /\ Slots \in Nat
      /\ Cardinality(holders) \in Nat /\ Cardinality(holders) <= Slots
  BY <1>0, PlanIsDag, FS_Subset, FS_CardinalityType, EngineAssumption DEF SlotsInOrder
<1>2. /\ IsFiniteSet(holders \ {n})
      /\ Cardinality(holders \ {n}) = IF n \in holders THEN Cardinality(holders) - 1
                                                       ELSE Cardinality(holders)
  BY <1>1, FS_RemoveElement
<1>3. CASE n \in holders /\ slotQ # <<>>
  <2>1. holders' = (holders \ {n}) \cup {Head(slotQ)} /\ slotQ' = Tail(slotQ)
    BY <1>3 DEF Release
  <2>2. /\ DOMAIN slotQ = 1..Len(slotQ) /\ Len(slotQ) \in Nat \ {0}
        /\ Head(slotQ) = slotQ[1] /\ 1 \in DOMAIN slotQ
        /\ DOMAIN slotQ' = 1..(Len(slotQ) - 1)
        /\ \A i \in DOMAIN slotQ' : slotQ'[i] = slotQ[i + 1] /\ i + 1 \in DOMAIN slotQ
    BY <1>0, <1>3, <2>1
  <2>3. Head(slotQ) \notin holders /\ Head(slotQ) \in Nodes /\ Head(slotQ) # n
        /\ phase[Head(slotQ)] \in QueuePhases
    BY <1>0, <2>2 DEF SlotsInOrder
  <2>4. Cardinality(holders') = Cardinality(holders \ {n}) + 1
    BY <1>2, <2>1, <2>3, FS_AddElement
  <2>5. Cardinality(holders') <= Slots
    BY <1>1, <1>2, <1>3, <2>4
  <2>6. \A i \in DOMAIN slotQ' : /\ phase'[slotQ'[i]] \in QueuePhases
                                 /\ slotQ'[i] \notin holders'
    <3> SUFFICES ASSUME NEW i \in DOMAIN slotQ'
                 PROVE  phase'[slotQ'[i]] \in QueuePhases /\ slotQ'[i] \notin holders'
      OBVIOUS
    <3>1. slotQ'[i] = slotQ[i + 1] /\ i + 1 \in DOMAIN slotQ /\ i + 1 # 1
      BY <2>2
    <3>2. slotQ[i + 1] # Head(slotQ) /\ slotQ[i + 1] \notin holders /\ slotQ[i + 1] # n
      BY <1>0, <2>2, <3>1 DEF SlotsInOrder
    <3>3. phase[slotQ[i + 1]] \in QueuePhases /\ slotQ[i + 1] \in Nodes
      BY <1>0, <3>1 DEF SlotsInOrder
    <3> QED BY <1>0, <2>1, <3>1, <3>2, <3>3
  <2>7. \A i, j \in DOMAIN slotQ' : slotQ'[i] = slotQ'[j] => i = j
    <3> SUFFICES ASSUME NEW i \in DOMAIN slotQ', NEW j \in DOMAIN slotQ',
                        slotQ'[i] = slotQ'[j]
                 PROVE  i = j
      OBVIOUS
    <3>1. slotQ[i + 1] = slotQ[j + 1] /\ i + 1 \in DOMAIN slotQ /\ j + 1 \in DOMAIN slotQ
      BY <2>2
    <3>2. i + 1 = j + 1
      BY <3>1 DEF SlotsInOrder
    <3> QED BY <2>2, <3>2
  <2>8. \A o \in Nodes : /\ o \in holders' => phase'[o] \in SlotPhases
                         /\ phase'[o] \in SlotNeeded => o \in holders'
    BY <1>0, <2>1, <2>3 DEF SlotsInOrder
  <2> QED BY <2>5, <2>6, <2>7, <2>8 DEF SlotsInOrder
<1>4. CASE ~(n \in holders /\ slotQ # <<>>)
  <2>1. holders' = holders \ {n} /\ slotQ' = slotQ
    BY <1>4 DEF Release
  <2>2. Cardinality(holders') <= Slots
    BY <1>1, <1>2, <2>1
  <2> QED BY <1>0, <2>1, <2>2 DEF SlotsInOrder
<1> QED BY <1>3, <1>4

(* A node that keeps or lacks its slot, in a phase that allows it.         *)
LEMMA KeepSlots ==
  ASSUME TypeOK, SlotsInOrder, NEW n \in Nodes, NEW p, UNCHANGED slots, To(n, p),
         phase[n] \in QueuePhases => n \in holders,
         n \in holders => p \in SlotPhases, p \in SlotNeeded => n \in holders
  PROVE  SlotsInOrder'
<1>1. /\ holders' = holders /\ slotQ' = slotQ
      /\ phase \in [Nodes -> Phases] /\ slotQ \in Seq(Nodes)
      /\ phase' = [phase EXCEPT ![n] = p]
  BY DEF slots, To, TypeOK
<1>2. \A i \in DOMAIN slotQ : slotQ[i] # n /\ slotQ[i] \in Nodes
  BY <1>1 DEF SlotsInOrder
<1> QED BY <1>1, <1>2 DEF SlotsInOrder, SlotPhases, QueuePhases, SlotNeeded

(* Where a gate leads.                                                     *)
LEMMA GatePhase ==
  ASSUME NEW n \in Nodes, NEW m, Gate(n, m)
  PROVE  \E p \in {"waiting", "draining", "halting"} : To(n, p)
BY DEF Gate, Drain

(* Every step keeps the slots in order.                                    *)
LEMMA SlotsStep == TypeOK /\ SlotsInOrder /\ [Next]_vars => SlotsInOrder'
<1> SUFFICES ASSUME TypeOK, SlotsInOrder, [Next]_vars PROVE SlotsInOrder'
  OBVIOUS
<1> USE DEF SlotPhases, QueuePhases, SlotNeeded
<1>0. /\ TypeOK /\ SlotsInOrder
      /\ \A n \in Nodes : /\ n \in holders => phase[n] \in SlotPhases
                          /\ phase[n] \in SlotNeeded => n \in holders
  BY DEF SlotsInOrder
<1>1. ASSUME NEW n \in Nodes, Begin(n) PROVE SlotsInOrder'
  BY <1>0, <1>1, GatePhase, KeepSlots DEF Begin
<1>2. ASSUME NEW n \in Nodes, Cycles(n) PROVE SlotsInOrder'
  BY <1>0, <1>2, GatePhase, KeepSlots DEF Cycles
<1>3. ASSUME NEW n \in Nodes, Halts(n) PROVE SlotsInOrder'
  BY <1>0, <1>3, KeepSlots DEF Halts
<1>4. ASSUME NEW n \in Nodes, Ignores(n) PROVE SlotsInOrder'
  BY <1>0, <1>4 DEF Ignores, life, slots, SlotsInOrder
<1>5. ASSUME NEW n \in Nodes, ServiceOpens(n) PROVE SlotsInOrder'
  BY <1>0, <1>5, AcquireSlots, KeepSlots DEF ServiceOpens
<1>6. ASSUME NEW n \in Nodes, PortReclaimed(n) PROVE SlotsInOrder'
  BY <1>0, <1>6, AcquireSlots DEF PortReclaimed
<1>7. ASSUME NEW n \in Nodes, Spawn(n) PROVE SlotsInOrder'
  BY <1>0, <1>7, ReleaseSlots, KeepSlots DEF Spawn
<1>8. ASSUME NEW n \in Nodes, ProbePasses(n) PROVE SlotsInOrder'
  BY <1>0, <1>8, ReleaseSlots DEF ProbePasses, BecameReady
<1>9. ASSUME NEW n \in Nodes, ProbeAgain(n) PROVE SlotsInOrder'
  BY <1>0, <1>9, KeepSlots DEF ProbeAgain
<1>10. ASSUME NEW n \in Nodes, Exited(n) PROVE SlotsInOrder'
  BY <1>0, <1>10, ReleaseSlots DEF Exited, CrashLoop
<1>11. ASSUME NEW n \in Nodes, InterruptStartup(n) PROVE SlotsInOrder'
  BY <1>0, <1>11, ReleaseSlots DEF InterruptStartup
<1>12. ASSUME NEW n \in Nodes, RunningRestarts(n) PROVE SlotsInOrder'
  BY <1>0, <1>12, KeepSlots DEF RunningRestarts, RestartRunning
<1>13. ASSUME NEW n \in Nodes, Answers(n) PROVE SlotsInOrder'
  BY <1>0, <1>13, KeepSlots DEF Answers
<1>14. ASSUME NEW n \in Nodes, TakeStop(n) PROVE SlotsInOrder'
  BY <1>0, <1>14, KeepSlots DEF TakeStop, StopAlive
<1>15. ASSUME NEW n \in Nodes, ChildStopped(n) PROVE SlotsInOrder'
  BY <1>0, <1>15, ReleaseSlots, GatePhase, KeepSlots DEF ChildStopped
<1>16. ASSUME NEW n \in Nodes, BackoffOver(n) PROVE SlotsInOrder'
  BY <1>0, <1>16, GatePhase, KeepSlots DEF BackoffOver
<1>17. ASSUME NEW n \in Nodes, LeaveParked(n) PROVE SlotsInOrder'
  BY <1>0, <1>17, KeepSlots DEF LeaveParked
<1>18. ASSUME NEW n \in Nodes, TaskOpens(n) PROVE SlotsInOrder'
  BY <1>0, <1>18, KeepSlots DEF TaskOpens
<1>19. ASSUME NEW n \in Nodes, Hits(n) PROVE SlotsInOrder'
  BY <1>0, <1>19, KeepSlots DEF Hits
<1>20. ASSUME NEW n \in Nodes, MissesCache(n) PROVE SlotsInOrder'
  BY <1>0, <1>20, AcquireSlots DEF MissesCache
<1>21. ASSUME NEW n \in Nodes, JobSpawns(n) PROVE SlotsInOrder'
  BY <1>0, <1>21, KeepSlots DEF JobSpawns
<1>22. ASSUME NEW n \in Nodes, JobSucceeds(n) PROVE SlotsInOrder'
  BY <1>0, <1>22, KeepSlots DEF JobSucceeds
<1>23. ASSUME NEW n \in Nodes, JobStores(n) PROVE SlotsInOrder'
  BY <1>0, <1>23, ReleaseSlots DEF JobStores
<1>24. ASSUME NEW n \in Nodes, Rechecked(n) PROVE SlotsInOrder'
  BY <1>0, <1>24, KeepSlots DEF Rechecked
<1>25. ASSUME NEW n \in Nodes, JobDone(n) PROVE SlotsInOrder'
  BY <1>0, <1>25, KeepSlots DEF JobDone
<1>26. ASSUME NEW n \in Nodes, SendStop(n) PROVE SlotsInOrder'
  BY <1>0, <1>26 DEF SendStop, life, slots, SlotsInOrder
<1>27. ASSUME NEW n \in Nodes, StopJob(n) PROVE SlotsInOrder'
  BY <1>0, <1>27 DEF StopJob, life, slots, SlotsInOrder
<1>28. ASSUME NEW n \in Nodes, Join(n) PROVE SlotsInOrder'
  BY <1>0, <1>28 DEF Join, life, slots, SlotsInOrder
<1>29. ASSUME NEW n \in Nodes, Overrun(n) PROVE SlotsInOrder'
  BY <1>0, <1>29 DEF Overrun, life, slots, SlotsInOrder
<1>30. ASSUME NEW n \in Nodes, LivenessDue(n) PROVE SlotsInOrder'
  BY <1>0, <1>30, KeepSlots DEF LivenessDue
<1>31. ASSUME NEW n \in Nodes, MissesCheck(n) PROVE SlotsInOrder'
  BY <1>0, <1>31, KeepSlots DEF MissesCheck, RestartRunning
<1>32. ASSUME NEW n \in Nodes, ProbeFails(n) PROVE SlotsInOrder'
  BY <1>0, <1>32, ReleaseSlots, KeepSlots DEF ProbeFails, BecameReady
<1>33. ASSUME NEW n \in Nodes, SpawnFails(n) PROVE SlotsInOrder'
  BY <1>0, <1>33, ReleaseSlots DEF SpawnFails, CrashLoop
<1>34. ASSUME NEW n \in Nodes, Exits(n) PROVE SlotsInOrder'
  BY <1>0, <1>34 DEF Exits, life, slots, SlotsInOrder
<1>35. ASSUME NEW n \in Nodes, JobErrs(n) PROVE SlotsInOrder'
  BY <1>0, <1>35, ReleaseSlots DEF JobErrs
<1>36. ASSUME NEW n \in Nodes, JobFails(n) PROVE SlotsInOrder'
  BY <1>0, <1>36, ReleaseSlots DEF JobFails
<1>37. ASSUME NEW n \in Nodes, AskRestart(n) PROVE SlotsInOrder'
  BY <1>0, <1>37 DEF AskRestart, life, slots, SlotsInOrder
<1>38. ASSUME NEW n \in Nodes, JobExits(n) PROVE SlotsInOrder'
  BY <1>0, <1>38 DEF JobExits, life, slots, SlotsInOrder
<1>39. CASE FilesChange
  BY <1>0, <1>39 DEF FilesChange, life, slots, SlotsInOrder
<1>40. CASE ShutDown
  BY <1>0, <1>40 DEF ShutDown, life, slots, SlotsInOrder
<1>41. CASE UNCHANGED vars
  BY <1>0, <1>41 DEF vars, life, slots, SlotsInOrder
<1> QED
  BY <1>1, <1>2, <1>3, <1>4, <1>5, <1>6, <1>7, <1>8, <1>9, <1>10, <1>11, <1>12, <1>13, <1>14, <1>15, <1>16, <1>17, <1>18, <1>19, <1>20, <1>21, <1>22, <1>23, <1>24, <1>25, <1>26, <1>27, <1>28, <1>29, <1>30, <1>31, <1>32, <1>33, <1>34, <1>35, <1>36, <1>37, <1>38, <1>39, <1>40, <1>41
     DEF Next, Step, Supervise, Stopper, Environment

(***************************************************************************)
(* No lost wakeup.                                                         *)
(***************************************************************************)

(* What n's pass does to the others' board: every watcher gets a tick, or  *)
(* nothing that can be read there has changed.                             *)
BoardStep(n) ==
  \/ \A m \in Nodes \ {n} : unseen'[m] = Watches(m)
  \/ /\ UNCHANGED <<status, gen>>
     /\ \A m \in Nodes \ {n} : unseen'[m] = unseen[m]

(* Each thing a pass can do to the board is a BoardStep of its node.      *)
LEMMA PassBoard ==
  ASSUME TypeOK, NEW n \in Nodes
  PROVE  /\ Look(n) => BoardStep(n)
         /\ \A s : Set(n, s) \/ SetAnew(n, s) \/ SetInRun(n, s) => BoardStep(n)
         /\ \A marks \in {unseen, Looked(n)} : Acquire(n, marks) => BoardStep(n)
         /\ \A m : Gate(n, m) => BoardStep(n)
<1>0. unseen \in [Nodes -> BOOLEAN]
  BY DEF TypeOK
<1>1. Look(n) => BoardStep(n)
  BY <1>0 DEF Look, Looked, BoardStep
<1>2. ASSUME NEW s, NEW marks \in {unseen, Looked(n)}, Publish(n, s, marks)
      PROVE  BoardStep(n)
  <2>1. CASE status[n] = s /\ ~IsReady(s)
    <3>1. status' = status /\ gen' = gen /\ unseen' = marks
      BY <1>2, <2>1 DEF Publish, TypeOK
    <3> QED BY <1>0, <3>1 DEF BoardStep, Looked
  <2>2. CASE ~(status[n] = s /\ ~IsReady(s))
    <3>1. unseen' = Ticked
      BY <1>2, <2>2 DEF Publish
    <3> QED BY <3>1 DEF BoardStep, Ticked
  <2> QED BY <2>1, <2>2
<1>3. \A s : Set(n, s) \/ SetAnew(n, s) \/ SetInRun(n, s) => BoardStep(n)
  <2>1. ASSUME NEW s, SetAnew(n, s) PROVE BoardStep(n)
    BY <2>1 DEF SetAnew, BoardStep, Ticked
  <2> QED BY <1>2, <2>1 DEF Set, SetInRun
<1>4. ASSUME NEW marks \in {unseen, Looked(n)}, Acquire(n, marks) PROVE BoardStep(n)
  <2>1. CASE SlotFree
    BY <1>0, <1>4, <2>1 DEF Acquire, BoardStep, Looked
  <2>2. CASE ~SlotFree
    BY <1>2, <1>4, <2>2 DEF Acquire
  <2> QED BY <2>1, <2>2
<1>5. ASSUME NEW m, Gate(n, m) PROVE BoardStep(n)
  BY <1>1, <1>3, <1>5 DEF Gate
<1> QED BY <1>1, <1>3, <1>4, <1>5

(* Who is overdue depends on somebody, and so watches the board.           *)
LEMMA OverdueWatchesNext ==
  ASSUME NEW n \in Nodes, Mode(n)', Overdue(n)'
  PROVE  Watches(n)
<1>1. CASE phase'[n] = "waiting"
  BY <1>1 DEF Mode, Watches
<1>2. CASE phase'[n] # "waiting"
  <2>1. Deps(n) # {}
    BY <1>2 DEF Overdue, Deps
  <2> QED BY <2>1, PlanIsDag DEF Deps, Watches
<1> QED BY <1>1, <1>2

OwnWakeup(n) == n \in Attentive /\ Overdue(n) => unseen[n]

(* A pass of n wakes whom it makes overdue; only n itself can miss it.     *)
LEMMA OthersWoken ==
  ASSUME Modes, Modes', NoLostWakeup, NEW n \in Nodes, BoardStep(n), OwnWakeup(n)',
         \A m \in Nodes \ {n} : phase'[m] = phase[m] /\ seen'[m] = seen[m]
  PROVE  NoLostWakeup'
<1> SUFFICES ASSUME NEW m \in Attentive, Overdue(m)' PROVE unseen'[m]
  BY DEF NoLostWakeup
<1>0. m \in Nodes
  BY DEF Attentive, Services
<1>1. CASE m = n
  BY <1>1 DEF OwnWakeup
<1>2. CASE m # n /\ unseen'[m] = Watches(m)
  <2>1. Watches(m)
    BY <1>0, OverdueWatchesNext DEF Modes
  <2> QED BY <1>2, <2>1 DEF Watches
<1>3. CASE m # n /\ UNCHANGED <<status, gen>> /\ unseen'[m] = unseen[m]
  <2>1. Overdue(m)
    BY <1>0, <1>3 DEF Overdue
  <2> QED BY <1>3, <2>1 DEF NoLostWakeup
<1> QED BY <1>0, <1>1, <1>2, <1>3 DEF BoardStep

(* A result, or a status a node did not have, ticks after its mark.        *)
LEMMA SetTicks ==
  ASSUME NEW n, NEW s, Set(n, s), IsReady(s) \/ status[n] # s
  PROVE  unseen' = Ticked
BY DEF Set, Publish

(* A tick that reaches every watcher leaves nobody overdue asleep.        *)
LEMMA TickedWakes ==
  ASSUME NEW n \in Nodes, Modes', unseen' = Ticked
  PROVE  OwnWakeup(n)'
BY OverdueWatchesNext DEF Modes, OwnWakeup, Ticked

(* A node that goes back to waiting is woken by its own status, or shows   *)
(* already what it still waits for.                                        *)
LEMMA GateWakes ==
  ASSUME TypeOK, NEW n \in Nodes, Modes', NEW m, Gate(n, m)
  PROVE  OwnWakeup(n)'
<1>0. phase \in [Nodes -> Phases] /\ status \in [Nodes -> Statuses]
  BY DEF TypeOK
<1>1. CASE Unready(n) = {}
  <2>1. phase'[n] \in {"draining", "halting"}
    BY <1>0, <1>1 DEF Gate, To, Drain
  <2> QED BY <2>1 DEF OwnWakeup, Overdue
<1>2. CASE Unready(n) # {} /\ status[n] # FirstUnready(n)
  BY <1>2, SetTicks, TickedWakes DEF Gate
<1>3. CASE Unready(n) # {} /\ status[n] = FirstUnready(n)
  <2>1. phase'[n] = "waiting" /\ status' = status
    BY <1>0, <1>3, PassStatus DEF Gate, To
  <2>2. \E d \in Deps(n) : status[d] \notin {"healthy", "done"}
    BY <1>3 DEF Unready, Deps, IsReady
  <2> QED BY <2>1, <2>2 DEF OwnWakeup, Overdue, Deps
<1> QED BY <1>1, <1>2, <1>3

(* Every step that makes somebody overdue leaves it a tick.                *)
LEMMA WakeupStep == TypeOK /\ Modes /\ Modes' /\ NoLostWakeup /\ [Next]_vars => NoLostWakeup'
<1> SUFFICES ASSUME TypeOK, Modes, Modes', NoLostWakeup, [Next]_vars PROVE NoLostWakeup'
  OBVIOUS
<1> USE DEF To
<1>0. /\ TypeOK /\ Modes /\ Modes' /\ NoLostWakeup
      /\ phase \in [Nodes -> Phases] /\ status \in [Nodes -> Statuses]
      /\ unseen \in [Nodes -> BOOLEAN] /\ seen \in [Nodes -> [Nodes -> Nat]]
  BY DEF TypeOK
<1>1. ASSUME NEW n \in Nodes, Begin(n) PROVE NoLostWakeup'
  <2>1. BoardStep(n) /\ OwnWakeup(n)'
    BY <1>0, <1>1, PassBoard, GateWakes DEF Begin
  <2> QED BY <1>0, <1>1, <2>1, GatePhase, OthersWoken DEF Begin
<1>2. ASSUME NEW n \in Nodes, Cycles(n) PROVE NoLostWakeup'
  <2>1. PICK m : Gate(n, m)
    BY <1>2 DEF Cycles
  <2>2. BoardStep(n) /\ OwnWakeup(n)'
    BY <1>0, <2>1, PassBoard, GateWakes
  <2> QED BY <1>0, <1>2, <2>1, <2>2, GatePhase, OthersWoken DEF Cycles
<1>3. ASSUME NEW n \in Nodes, Halts(n) PROVE NoLostWakeup'
  <2>1. BoardStep(n) /\ OwnWakeup(n)'
    BY <1>0, <1>3, PassBoard DEF Halts, OwnWakeup, Overdue
  <2> QED BY <1>0, <1>3, <2>1, OthersWoken DEF Halts
<1>4. ASSUME NEW n \in Nodes, Ignores(n) PROVE NoLostWakeup'
  <2>1. BoardStep(n) /\ UNCHANGED <<status, gen, phase, seen>>
    BY <1>0, <1>4, PassBoard DEF Ignores, Look, life
  <2>2. Overdue(n)' => Overdue(n)
    BY <2>1 DEF Overdue
  <2>3. TakesRestart(n) /\ ~HeedsRestart(n) /\ n \in Attentive => ~Overdue(n)
    BY DEF TakesRestart, Awaiting, HeedsRestart, Attentive, Overdue
  <2>4. TakesBoard(n) /\ ~HeedsBoard(n) => ~Overdue(n)
    <3>1. Unready(n) = {} => \A d \in Deps(n) : status[d] \in {"healthy", "done"}
      BY DEF Unready, Deps, IsReady
    <3> QED BY <3>1 DEF TakesBoard, Awaiting, HeedsBoard, DependencyMoved, MovedSince, Overdue
  <2>5. OwnWakeup(n)'
    BY <1>4, <2>2, <2>3, <2>4 DEF Ignores, OwnWakeup
  <2> QED BY <1>0, <2>1, <2>5, OthersWoken
<1>5. ASSUME NEW n \in Nodes, ServiceOpens(n) PROVE NoLostWakeup'
  <2>1. BoardStep(n)
    BY <1>0, <1>5, PassBoard DEF ServiceOpens
  <2>2. OwnWakeup(n)'
    <3>1. CASE n \in Served
      <4>1. unseen' = Ticked
        BY <1>5, <3>1, SetTicks DEF ServiceOpens, IsReady
      <4> QED BY <1>0, <4>1, TickedWakes
    <3>2. CASE n \notin Served
      BY <1>0, <1>5, <3>2 DEF ServiceOpens, OwnWakeup, Overdue
    <3> QED BY <3>1, <3>2
  <2> QED BY <1>0, <1>5, <2>1, <2>2, OthersWoken DEF ServiceOpens, Open
<1>6. ASSUME NEW n \in Nodes, PortReclaimed(n) PROVE NoLostWakeup'
  <2>1. BoardStep(n) /\ OwnWakeup(n)'
    BY <1>0, <1>6, PassBoard DEF PortReclaimed, OwnWakeup, Overdue
  <2> QED BY <1>0, <1>6, <2>1, OthersWoken DEF PortReclaimed
<1>7. ASSUME NEW n \in Nodes, Spawn(n) PROVE NoLostWakeup'
  <2>1. CASE n \in Probed
    <3>1. BoardStep(n) /\ OwnWakeup(n)'
      BY <1>0, <1>7, <2>1 DEF Spawn, BoardStep, Ticked, OwnWakeup, Overdue
    <3> QED BY <1>0, <1>7, <2>1, <3>1, OthersWoken DEF Spawn
  <2>2. CASE n \notin Probed
    <3>1. BoardStep(n) /\ unseen' = Ticked
      BY <1>0, <1>7, <2>2, PassBoard, SetTicks DEF Spawn, IsReady
    <3>2. OwnWakeup(n)'
      BY <1>0, <3>1, TickedWakes
    <3> QED BY <1>0, <1>7, <2>2, <3>1, <3>2, OthersWoken DEF Spawn
  <2> QED BY <2>1, <2>2
<1>8. ASSUME NEW n \in Nodes, ProbePasses(n) PROVE NoLostWakeup'
  <2>1. unseen' = Ticked
    BY <1>8, SetTicks DEF ProbePasses, BecameReady, IsReady
  <2>2. BoardStep(n) /\ OwnWakeup(n)'
    BY <1>0, <2>1, TickedWakes DEF BoardStep, Ticked
  <2> QED BY <1>0, <1>8, <2>2, OthersWoken DEF ProbePasses, BecameReady
<1>9. ASSUME NEW n \in Nodes, ProbeAgain(n) PROVE NoLostWakeup'
  <2>1. BoardStep(n) /\ OwnWakeup(n)'
    BY <1>0, <1>9, PassBoard DEF ProbeAgain, OwnWakeup, Overdue
  <2> QED BY <1>0, <1>9, <2>1, OthersWoken DEF ProbeAgain
<1>10. ASSUME NEW n \in Nodes, Exited(n) PROVE NoLostWakeup'
  <2>1. unseen' = Ticked
    <3>1. CASE Policy[n] = "always"
      BY <1>10, <3>1 DEF Exited, CrashLoop, SetAnew
    <3>2. CASE Policy[n] # "always"
      <4>1. status[n] \notin {"exited", "failed"}
        BY <1>0, <1>10 DEF Exited, Modes, Mode
      <4> QED BY <1>10, <3>2, <4>1, SetTicks DEF Exited
    <3> QED BY <3>1, <3>2
  <2>2. BoardStep(n) /\ OwnWakeup(n)'
    BY <1>0, <2>1, TickedWakes DEF BoardStep, Ticked
  <2> QED BY <1>0, <1>10, <2>2, OthersWoken DEF Exited, CrashLoop
<1>11. ASSUME NEW n \in Nodes, InterruptStartup(n) PROVE NoLostWakeup'
  <2>1. BoardStep(n) /\ OwnWakeup(n)'
    BY <1>0, <1>11, PassBoard DEF InterruptStartup, Stopping, OwnWakeup, Overdue
  <2> QED BY <1>0, <1>11, <2>1, OthersWoken DEF InterruptStartup, Stopping
<1>12. ASSUME NEW n \in Nodes, RunningRestarts(n) PROVE NoLostWakeup'
  <2>1. BoardStep(n) /\ OwnWakeup(n)'
    BY <1>0, <1>12, PassBoard DEF RunningRestarts, RestartRunning, Stopping, OwnWakeup, Overdue
  <2> QED BY <1>0, <1>12, <2>1, OthersWoken DEF RunningRestarts, RestartRunning, Stopping
<1>13. ASSUME NEW n \in Nodes, Answers(n) PROVE NoLostWakeup'
  <2>1. n \notin Attentive
    BY <1>0, <1>13 DEF Answers, Modes, Mode, Attentive
  <2>2. BoardStep(n) /\ OwnWakeup(n)'
    BY <1>0, <1>13, <2>1, PassBoard DEF Answers, OwnWakeup, Attentive
  <2> QED BY <1>0, <1>13, <2>2, OthersWoken DEF Answers
<1>14. ASSUME NEW n \in Nodes, TakeStop(n) PROVE NoLostWakeup'
  <2>1. BoardStep(n) /\ OwnWakeup(n)'
    BY <1>0, <1>14, PassBoard DEF TakeStop, StopAlive, OwnWakeup, Overdue
  <2> QED BY <1>0, <1>14, <2>1, OthersWoken DEF TakeStop, StopAlive
<1>15. ASSUME NEW n \in Nodes, ChildStopped(n) PROVE NoLostWakeup'
  <2>1. CASE phase[n] = "stopExit"
    <3>1. BoardStep(n) /\ OwnWakeup(n)'
      BY <1>0, <1>15, <2>1, PassBoard DEF ChildStopped, OwnWakeup, Overdue
    <3> QED BY <1>0, <1>15, <2>1, <3>1, OthersWoken DEF ChildStopped
  <2>2. CASE phase[n] = "stopCycle"
    <3>1. BoardStep(n) /\ OwnWakeup(n)'
      BY <1>0, <1>15, <2>2, PassBoard, GateWakes DEF ChildStopped
    <3> QED BY <1>0, <1>15, <2>2, <3>1, GatePhase, OthersWoken DEF ChildStopped
  <2> QED BY <1>15, <2>1, <2>2 DEF ChildStopped
<1>16. ASSUME NEW n \in Nodes, BackoffOver(n) PROVE NoLostWakeup'
  <2>1. BoardStep(n) /\ OwnWakeup(n)'
    BY <1>0, <1>16, PassBoard, GateWakes DEF BackoffOver
  <2> QED BY <1>0, <1>16, <2>1, GatePhase, OthersWoken DEF BackoffOver
<1>17. ASSUME NEW n \in Nodes, LeaveParked(n) PROVE NoLostWakeup'
  <2>1. BoardStep(n) /\ OwnWakeup(n)'
    BY <1>0, <1>17, PassBoard DEF LeaveParked, OwnWakeup, Overdue
  <2> QED BY <1>0, <1>17, <2>1, OthersWoken DEF LeaveParked
<1>18. ASSUME NEW n \in Nodes, TaskOpens(n) PROVE NoLostWakeup'
  <2>1. BoardStep(n) /\ OwnWakeup(n)'
    BY <1>0, <1>18, PassBoard DEF TaskOpens, Open, OwnWakeup, Overdue
  <2> QED BY <1>0, <1>18, <2>1, OthersWoken DEF TaskOpens, Open
<1>19. ASSUME NEW n \in Nodes, Hits(n) PROVE NoLostWakeup'
  <2>1. BoardStep(n) /\ OwnWakeup(n)'
    BY <1>0, <1>19, PassBoard DEF Hits, OwnWakeup, Overdue, BoardStep, board
  <2> QED BY <1>0, <1>19, <2>1, OthersWoken DEF Hits
<1>20. ASSUME NEW n \in Nodes, MissesCache(n) PROVE NoLostWakeup'
  <2>1. BoardStep(n) /\ OwnWakeup(n)'
    BY <1>0, <1>20, PassBoard DEF MissesCache, OwnWakeup, Overdue
  <2> QED BY <1>0, <1>20, <2>1, OthersWoken DEF MissesCache
<1>21. ASSUME NEW n \in Nodes, JobSpawns(n) PROVE NoLostWakeup'
  <2>1. BoardStep(n) /\ OwnWakeup(n)'
    BY <1>0, <1>21, PassBoard DEF JobSpawns, OwnWakeup, Overdue
  <2> QED BY <1>0, <1>21, <2>1, OthersWoken DEF JobSpawns
<1>22. ASSUME NEW n \in Nodes, JobSucceeds(n) PROVE NoLostWakeup'
  <2>1. BoardStep(n) /\ OwnWakeup(n)'
    BY <1>0, <1>22, PassBoard DEF JobSucceeds, OwnWakeup, Overdue
  <2> QED BY <1>0, <1>22, <2>1, OthersWoken DEF JobSucceeds
<1>23. ASSUME NEW n \in Nodes, JobStores(n) PROVE NoLostWakeup'
  <2>1. BoardStep(n) /\ OwnWakeup(n)'
    BY <1>0, <1>23, PassBoard DEF JobStores, OwnWakeup, Overdue, BoardStep, board
  <2> QED BY <1>0, <1>23, <2>1, OthersWoken DEF JobStores
<1>24. ASSUME NEW n \in Nodes, Rechecked(n) PROVE NoLostWakeup'
  <2>1. BoardStep(n) /\ OwnWakeup(n)'
    BY <1>0, <1>24, PassBoard DEF Rechecked, OwnWakeup, Overdue
  <2> QED BY <1>0, <1>24, <2>1, OthersWoken DEF Rechecked
<1>25. ASSUME NEW n \in Nodes, JobDone(n) PROVE NoLostWakeup'
  <2>1. n \notin Attentive
    BY <1>0, <1>25 DEF JobDone, Modes, Mode, TaskPhases, Attentive, Services
  <2>2. BoardStep(n) /\ OwnWakeup(n)'
    BY <1>0, <1>25, <2>1, PassBoard DEF JobDone, OwnWakeup, Attentive
  <2> QED BY <1>0, <1>25, <2>2, OthersWoken DEF JobDone
<1>26. ASSUME NEW n \in Nodes, SendStop(n) PROVE NoLostWakeup'
  BY <1>0, <1>26 DEF SendStop, board, life, NoLostWakeup, Overdue
<1>27. ASSUME NEW n \in Nodes, StopJob(n) PROVE NoLostWakeup'
  BY <1>0, <1>27 DEF StopJob, board, life, NoLostWakeup, Overdue
<1>28. ASSUME NEW n \in Nodes, Join(n) PROVE NoLostWakeup'
  BY <1>0, <1>28 DEF Join, board, life, NoLostWakeup, Overdue
<1>29. ASSUME NEW n \in Nodes, Overrun(n) PROVE NoLostWakeup'
  BY <1>0, <1>29 DEF Overrun, board, life, NoLostWakeup, Overdue
<1>30. ASSUME NEW n \in Nodes, LivenessDue(n) PROVE NoLostWakeup'
  <2>1. n \notin Attentive
    BY <1>0, <1>30 DEF LivenessDue, Modes, Mode, Attentive
  <2>2. BoardStep(n) /\ OwnWakeup(n)'
    BY <1>0, <1>30, <2>1, PassBoard DEF LivenessDue, OwnWakeup, Attentive
  <2> QED BY <1>0, <1>30, <2>2, OthersWoken DEF LivenessDue
<1>31. ASSUME NEW n \in Nodes, MissesCheck(n) PROVE NoLostWakeup'
  <2>1. n \notin Attentive
    BY <1>0, <1>31 DEF MissesCheck, Modes, Mode, Attentive
  <2>2. BoardStep(n) /\ OwnWakeup(n)'
    BY <1>0, <1>31, <2>1, PassBoard DEF MissesCheck, RestartRunning, Stopping, OwnWakeup, Attentive
  <2> QED BY <1>0, <1>31, <2>2, OthersWoken DEF MissesCheck, RestartRunning, Stopping
<1>32. ASSUME NEW n \in Nodes, ProbeFails(n) PROVE NoLostWakeup'
  <2>1. BoardStep(n) /\ OwnWakeup(n)'
    <3>1. CASE To(n, "starting") /\ Look(n)
      BY <1>0, <3>1, PassBoard DEF OwnWakeup, Overdue
    <3>2. CASE BecameReady(n, "unhealthy")
      <4>1. status[n] = "starting"
        BY <1>0, <1>32 DEF ProbeFails, Modes, Mode
      <4>2. unseen' = Ticked
        BY <3>2, <4>1, SetTicks DEF BecameReady
      <4> QED BY <1>0, <4>2, TickedWakes DEF BoardStep, Ticked
    <3> QED BY <1>32, <3>1, <3>2 DEF ProbeFails
  <2> QED BY <1>0, <1>32, <2>1, OthersWoken DEF ProbeFails, BecameReady
<1>33. ASSUME NEW n \in Nodes, SpawnFails(n) PROVE NoLostWakeup'
  <2>1. unseen' = Ticked
    BY <1>0, <1>33 DEF SpawnFails, CrashLoop, SetAnew
  <2>2. BoardStep(n) /\ OwnWakeup(n)'
    BY <1>0, <2>1, TickedWakes DEF BoardStep, Ticked
  <2> QED BY <1>0, <1>33, <2>2, OthersWoken DEF SpawnFails, CrashLoop
<1>34. ASSUME NEW n \in Nodes, Exits(n) PROVE NoLostWakeup'
  BY <1>0, <1>34 DEF Exits, board, life, NoLostWakeup, Overdue
<1>35. ASSUME NEW n \in Nodes, JobErrs(n) PROVE NoLostWakeup'
  <2>1. BoardStep(n) /\ OwnWakeup(n)'
    BY <1>0, <1>35, PassBoard DEF JobErrs, OwnWakeup, Overdue
  <2> QED BY <1>0, <1>35, <2>1, OthersWoken DEF JobErrs
<1>36. ASSUME NEW n \in Nodes, JobFails(n) PROVE NoLostWakeup'
  <2>1. BoardStep(n) /\ OwnWakeup(n)'
    BY <1>0, <1>36, PassBoard DEF JobFails, OwnWakeup, Overdue
  <2> QED BY <1>0, <1>36, <2>1, OthersWoken DEF JobFails
<1>37. ASSUME NEW n \in Nodes, AskRestart(n) PROVE NoLostWakeup'
  BY <1>0, <1>37 DEF AskRestart, board, life, NoLostWakeup, Overdue
<1>38. ASSUME NEW n \in Nodes, JobExits(n) PROVE NoLostWakeup'
  BY <1>0, <1>38 DEF JobExits, board, life, NoLostWakeup, Overdue
<1>39. CASE FilesChange
  BY <1>0, <1>39 DEF FilesChange, board, life, NoLostWakeup, Overdue
<1>40. CASE ShutDown
  BY <1>0, <1>40 DEF ShutDown, board, life, NoLostWakeup, Overdue
<1>41. CASE UNCHANGED vars
  BY <1>0, <1>41 DEF vars, board, life, NoLostWakeup, Overdue
<1> QED
  BY <1>1, <1>2, <1>3, <1>4, <1>5, <1>6, <1>7, <1>8, <1>9, <1>10, <1>11, <1>12, <1>13, <1>14, <1>15, <1>16, <1>17, <1>18, <1>19, <1>20, <1>21, <1>22, <1>23, <1>24, <1>25, <1>26, <1>27, <1>28, <1>29, <1>30, <1>31, <1>32, <1>33, <1>34, <1>35, <1>36, <1>37, <1>38, <1>39, <1>40, <1>41
     DEF Next, Step, Supervise, Stopper, Environment

(***************************************************************************)
(* The order of the stops.                                                 *)
(***************************************************************************)

(* How a supervisor moves: through a gate or to a phase other than the     *)
(* gate's drain, and no more once it is done.                              *)
LEMMA PhaseMoves ==
  ASSUME NEW n \in Nodes, Supervise(n) \/ Environment(n) \/ JobExits(n)
  PROVE  \/ phase' = phase
         \/ /\ phase[n] # "done"
            /\ (\E p : p # "draining" /\ To(n, p)) \/ (\E m : Gate(n, m))
BY DEF Supervise, Environment, Begin, Cycles, Halts, Ignores, ServiceOpens,
   PortReclaimed, Spawn, ProbePasses, ProbeAgain, Exited, InterruptStartup,
   RunningRestarts, Answers, TakeStop, ChildStopped, BackoffOver, LeaveParked,
   TaskOpens, Hits, MissesCache, JobSpawns, JobSucceeds, JobStores, Rechecked,
   JobDone, LivenessDue, MissesCheck, ProbeFails, SpawnFails, Exits, JobErrs,
   JobFails, AskRestart, JobExits, CrashLoop, BecameReady, RestartRunning,
   StopAlive, TakesStop, Awaiting, life

(* Only the stoppers send a stop, join a supervisor or give up on it.      *)
LEMMA StopsUnchanged ==
  ASSUME NEW n \in Nodes, Supervise(n) \/ Environment(n) \/ JobExits(n)
  PROVE  UNCHANGED <<stopSent, stopper>>
BY DEF Supervise, Environment, Begin, Cycles, Halts, Ignores, ServiceOpens,
   PortReclaimed, Spawn, ProbePasses, ProbeAgain, Exited, InterruptStartup,
   RunningRestarts, Answers, TakeStop, ChildStopped, BackoffOver, LeaveParked,
   TaskOpens, Hits, MissesCache, JobSpawns, JobSucceeds, JobStores, Rechecked,
   JobDone, LivenessDue, MissesCheck, ProbeFails, SpawnFails, Exits, JobErrs,
   JobFails, AskRestart, JobExits, down

(* A supervisor that is done stays done, and a stop already sent stays in  *)
(* its place of the order.                                                 *)
LEMMA StopsStep == TypeOK /\ StopsInOrder /\ [Next]_vars => StopsInOrder'
<1> SUFFICES ASSUME TypeOK, StopsInOrder, [Next]_vars PROVE StopsInOrder'
  OBVIOUS
<1>0. /\ phase \in [Nodes -> Phases] /\ stopSent \in [Nodes -> BOOLEAN]
      /\ stopper \in [Nodes -> {"idle", "check", "join", "joined", "overran"}]
  BY DEF TypeOK
<1>1. ASSUME UNCHANGED <<stopSent, stopper>>,
             \A m \in Nodes : phase[m] = "done" => phase'[m] = "done"
      PROVE  StopsInOrder'
  BY <1>1 DEF StopsInOrder, Gone
<1>2. ASSUME NEW n \in Nodes, Supervise(n) \/ Environment(n) \/ JobExits(n)
      PROVE  StopsInOrder'
  <2>1. \A m \in Nodes : phase[m] = "done" => phase'[m] = "done"
    BY <1>0, <1>2, PhaseMoves, GatePhase DEF To
  <2> QED BY <1>1, <1>2, <2>1, StopsUnchanged
<1>3. ASSUME NEW n \in Nodes, SendStop(n) PROVE StopsInOrder'
  BY <1>0, <1>3 DEF SendStop, life, StopsInOrder, Gone
<1>4. ASSUME NEW n \in Nodes, StopJob(n) PROVE StopsInOrder'
  BY <1>0, <1>4 DEF StopJob, life, StopsInOrder, Gone
<1>5. ASSUME NEW n \in Nodes, Join(n) PROVE StopsInOrder'
  BY <1>0, <1>5 DEF Join, Finished, life, StopsInOrder, Gone
<1>6. ASSUME NEW n \in Nodes, Overrun(n) PROVE StopsInOrder'
  BY <1>0, <1>6 DEF Overrun, life, StopsInOrder, Gone
<1>7. CASE FilesChange \/ ShutDown
  BY <1>1, <1>7 DEF FilesChange, ShutDown, life, down
<1>8. CASE UNCHANGED vars
  BY <1>1, <1>8 DEF vars, life, down
<1> QED BY <1>2, <1>3, <1>4, <1>5, <1>6, <1>7, <1>8 DEF Next, Step, Stopper

(***************************************************************************)
(* The first run of each node.                                             *)
(***************************************************************************)

(* What a node's own step leaves as it is of every other node.             *)
OthersKept(n) ==
  /\ \A m \in Nodes \ {n} : /\ phase'[m] = phase[m] /\ seen'[m] = seen[m]
                            /\ misses'[m] = misses[m] /\ proc'[m] = proc[m]
                            /\ status'[m] = status[m] /\ gen'[m] = gen[m]
                            /\ restart'[m] = restart[m]
  /\ stopSent' = stopSent

(* A status is written to one node, and counts a result only if it is one. *)
LEMMA PassResult ==
  ASSUME TypeOK, NEW n \in Nodes
  PROVE  /\ Look(n) => UNCHANGED <<status, gen>>
         /\ \A s : Set(n, s) \/ SetInRun(n, s) =>
              /\ status' = [status EXCEPT ![n] = s]
              /\ gen' = IF IsReady(s) THEN [gen EXCEPT ![n] = @ + 1] ELSE gen
         /\ \A s : SetAnew(n, s) => status' = [status EXCEPT ![n] = s] /\ gen' = gen
         /\ \A marks : Acquire(n, marks) =>
              /\ gen' = gen
              /\ status' = status \/ status' = [status EXCEPT ![n] = "queued"]
BY DEF Look, Set, SetInRun, SetAnew, Publish, Acquire, IsReady

(* A gate is passed when every dependency has its result.                  *)
LEMMA GateResult ==
  ASSUME TypeOK, NEW n \in Nodes, NEW m, Gate(n, m)
  PROVE  /\ gen' = gen
         /\ \/ /\ \A d \in Deps(n) : IsReady(status[d])
               /\ status' = status /\ Mail(n, "none")
               /\ phase' = [phase EXCEPT ![n] = IF stopSent[n] THEN "halting" ELSE "draining"]
            \/ /\ \E d \in Deps(n) : ~IsReady(status[d])
               /\ \E d \in Nodes \ Kinds : status' = [status EXCEPT ![n] = d]
               /\ phase' = [phase EXCEPT ![n] = "waiting"] /\ Mail(n, m)
<1>1. CASE Unready(n) # {}
  <2>1. FirstUnready(n) \in Nodes \ Kinds
    BY <1>1, FirstUnreadyIsDep, StatusNamesApart
  <2>2. ~IsReady(FirstUnready(n))
    BY <2>1 DEF IsReady, Kinds
  <2>3. \E d \in Deps(n) : ~IsReady(status[d])
    BY <1>1 DEF Unready, Deps
  <2> QED BY <1>1, <2>1, <2>2, <2>3, PassResult DEF Gate, To
<1>2. CASE Unready(n) = {}
  <2>1. \A d \in Deps(n) : IsReady(status[d])
    BY <1>2 DEF Unready, Deps
  <2> QED BY <1>2, <2>1, PassResult DEF Gate, To, Drain
<1> QED BY <1>1, <1>2

(* Without an edit or a fault a step is one of these, and no other node's. *)
LEMMA FaultlessStep ==
  ASSUME TypeOK, NEW n \in Nodes, budget' = budget,
         Supervise(n) \/ Environment(n) \/ JobExits(n)
  PROVE  \/ Supervise(n) \/ LivenessDue(n) \/ JobFails(n) \/ JobExits(n)
BY DEF Environment, MissesCheck, ProbeFails, SpawnFails, Exits, JobErrs, AskRestart, TypeOK

(* What is true of n's own first run, once it is of the others' too.       *)
LEMMA OthersFirst ==
  ASSUME TypeOK, NEW n \in Nodes, \A m \in Nodes : FirstRun(m), OthersKept(n),
         gen'[n] = gen[n] \/ (gen[n] = 0 /\ gen'[n] = 1), FirstRun(n)'
  PROVE  \A m \in Nodes : FirstRun(m)'
<1> SUFFICES ASSUME NEW m \in Nodes, m # n PROVE FirstRun(m)'
  OBVIOUS
<1>0. Deps(m) \subseteq Nodes
  BY PlanIsDag DEF Deps
<1>1. \A d \in Deps(m) : gen[d] = 1 => gen'[d] = 1
  BY <1>0 DEF OthersKept
<1> QED BY <1>1 DEF FirstRun, OthersKept

FirstMove(n) == /\ OthersKept(n) /\ FirstRun(n)'
                /\ gen'[n] = gen[n] \/ (gen[n] = 0 /\ gen'[n] = 1)

(* Nothing but a dependency taken back by the shutdown ends a first run,   *)
(* and then the node was told to stop before.                              *)
LEMMA NothingMoved ==
  ASSUME TypeOK, StopsInOrder, \A m \in Nodes : FirstRun(m), NEW n \in Nodes, NEW m,
         Woken(n, m), phase[n] # "waiting"
  PROVE  phase[n] \in {"starting", "running"} /\ stopSent[n]
<1>0. /\ restart[n] = "none" /\ unseen[n] /\ phase[n] \in PastGate
      /\ Deps(n) \subseteq Nodes
  BY PlanIsDag DEF Deps, Woken, FirstRun, TakesRestart, TakesBoard, Awaiting, PastGate
<1>1. ~MovedSince(n)
  BY <1>0 DEF MovedSince, FirstRun
<1>2. phase[n] \in {"starting", "running"} /\ Unready(n) # {}
  BY <1>0, <1>1 DEF Woken, HeedsBoard, DependencyMoved, TakesRestart
<1>3. PICK d \in Deps(n) : ~IsReady(status[d])
  BY <1>2 DEF Unready, Deps
<1>4. d \in Nodes /\ stopSent[d] /\ n \in Dependents(d)
  BY <1>0, <1>3 DEF FirstRun, Dependents
<1>5. Gone(n)
  BY <1>4, DependentsStopFirst DEF StopsInOrder
<1> QED BY <1>2, <1>5 DEF StopsInOrder, Gone

(* A node at its gate for the first time, or after it was told to stop.    *)
LEMMA GateFirst ==
  ASSUME TypeOK, \A m \in Nodes : FirstRun(m), NEW n \in Nodes,
         phase[n] \in {"begin", "waiting", "stopCycle"},
         NEW m \in {"none"}, Gate(n, m), UNCHANGED <<seen, misses, stopSent>>,
         proc' = proc \/ proc' = [proc EXCEPT ![n] = "none"]
  PROVE  FirstMove(n)
<1> USE DEF FirstMove, OthersKept, Mail
<1>0. /\ phase \in [Nodes -> Phases] /\ status \in [Nodes -> Statuses] /\ gen \in [Nodes -> Nat]
      /\ restart \in [Nodes -> {"none", "queued", "woke"}]
      /\ proc \in [Nodes -> {"none", "alive", "exited"}] /\ Deps(n) \subseteq Nodes
  BY PlanIsDag DEF TypeOK, Deps
<1>1. CASE /\ \A d \in Deps(n) : IsReady(status[d])
           /\ status' = status /\ gen' = gen /\ Mail(n, "none")
           /\ phase' = [phase EXCEPT ![n] = IF stopSent[n] THEN "halting" ELSE "draining"]
  BY <1>0, <1>1 DEF FirstRun, BeforeResult, PastGate
<1>2. CASE /\ \E d \in Nodes \ Kinds : status' = [status EXCEPT ![n] = d]
           /\ gen' = gen /\ phase' = [phase EXCEPT ![n] = "waiting"] /\ Mail(n, m)
  BY <1>0, <1>2 DEF FirstRun, BeforeResult, PastGate, IsReady, Kinds
<1> QED BY <1>1, <1>2, GateResult

(* Without an edit or a fault a node's step is a move of its first run.    *)
LEMMA FirstMoves ==
  ASSUME TypeOK, Modes, StopsInOrder, \A m \in Nodes : FirstRun(m), NEW n \in Nodes,
         Supervise(n) \/ LivenessDue(n) \/ JobFails(n) \/ JobExits(n), budget' = budget
  PROVE  FirstMove(n)
<1> USE DEF To, Mail, Kept, board, life, slots, down
<1>0. /\ phase \in [Nodes -> Phases] /\ status \in [Nodes -> Statuses] /\ gen \in [Nodes -> Nat]
      /\ seen \in [Nodes -> [Nodes -> Nat]] /\ misses \in [Nodes -> 0..Misses]
      /\ restart \in [Nodes -> {"none", "queued", "woke"}] /\ stopSent \in [Nodes -> BOOLEAN]
      /\ proc \in [Nodes -> {"none", "alive", "exited"}] /\ Deps(n) \subseteq Nodes
      /\ Misses \in Nat \ {0} /\ Faults \in Nat /\ budget \in 0..Faults
      /\ FirstRun(n) /\ Mode(n) /\ Tasks \subseteq Nodes /\ Services = Nodes \ Tasks
  BY PlanIsDag, EngineAssumption DEF TypeOK, Deps, Modes, Services
<1>1. CASE Begin(n)
  BY <1>0, <1>1, GateFirst DEF Begin, FirstRun
<1>2. CASE Cycles(n)
  <2>1. PICK m \in {"none", "queued"} : Woken(n, m) /\ Gate(n, m)
    BY <1>2 DEF Cycles
  <2>2. phase[n] = "waiting" /\ m = "none"
    BY <1>0, <1>2, <2>1, NothingMoved DEF Cycles, Woken, FirstRun
  <2> QED BY <1>2, <2>1, <2>2, GateFirst DEF Cycles
<1>3. CASE InterruptStartup(n) \/ RunningRestarts(n)
  <2>1. stopSent[n] /\ \E m \in {"none", "queued"} : Woken(n, m) /\ Mail(n, m)
    BY <1>3, NothingMoved DEF InterruptStartup, RunningRestarts
  <2>2. restart'[n] = "none" /\ \A m \in Nodes \ {n} : restart'[m] = restart[m]
    BY <1>0, <2>1 DEF Woken, TakesRestart, FirstRun
  <2>3. /\ phase' = [phase EXCEPT ![n] = "stopCycle"] /\ Set(n, "stopping")
        /\ UNCHANGED <<seen, misses, proc, stopSent>>
    BY <1>3 DEF InterruptStartup, RunningRestarts, RestartRunning, Stopping
  <2>4. status' = [status EXCEPT ![n] = "stopping"] /\ gen' = gen
    BY <2>3, PassResult DEF IsReady
  <2>5. OthersKept(n)
    BY <1>0, <2>2, <2>3, <2>4 DEF OthersKept
  <2>6. FirstRun(n)'
    BY <1>0, <2>1, <2>2, <2>3, <2>4, SMTT(30) DEF FirstRun, BeforeResult, PastGate, IsReady
  <2> QED BY <2>4, <2>5, <2>6 DEF FirstMove
<1>4. CASE ChildStopped(n)
  <2>1. CASE phase[n] = "stopCycle"
    <3>1. /\ Gate(n, restart[n]) /\ proc' = [proc EXCEPT ![n] = "none"]
          /\ UNCHANGED <<seen, misses, stopSent>>
      BY <1>4, <2>1 DEF ChildStopped
    <3>2. FirstRun(n) /\ restart[n] = "none" /\ stopSent[n]
      BY <1>0, <2>1 DEF FirstRun
    <3> QED BY <1>0, <2>1, <3>1, <3>2, GateFirst
  <2>2. CASE phase[n] = "stopExit"
    BY <1>0, <1>4, <2>2, PassResult
       DEF ChildStopped, FirstMove, OthersKept, FirstRun, BeforeResult, PastGate
  <2> QED BY <1>4, <2>1, <2>2 DEF ChildStopped
<1>5. CASE BackoffOver(n) \/ Exited(n)
  BY <1>0, <1>5 DEF BackoffOver, Exited, FirstRun, Mode, ServicePhases
<1>6. CASE ServiceOpens(n)
  BY <1>0, <1>6, PassResult
     DEF ServiceOpens, Open, Generations, FirstMove, OthersKept, FirstRun, BeforeResult, PastGate, IsReady, Mode
<1>7. CASE PortReclaimed(n)
  BY <1>0, <1>7, PassResult
     DEF PortReclaimed, FirstMove, OthersKept, FirstRun, BeforeResult, PastGate, IsReady, Mode
<1>8. CASE Spawn(n)
  BY <1>0, <1>8, PassResult
     DEF Spawn, Release, FirstMove, OthersKept, FirstRun, BeforeResult, PastGate, IsReady, Mode
<1>9. CASE ProbePasses(n)
  BY <1>0, <1>9, PassResult
     DEF ProbePasses, BecameReady, Release, FirstMove, OthersKept, FirstRun, BeforeResult, PastGate, IsReady, Mode
<1>10. CASE ProbeAgain(n)
  BY <1>0, <1>10, PassResult
     DEF ProbeAgain, FirstMove, OthersKept, FirstRun, BeforeResult, PastGate, IsReady, Mode
<1>11. CASE Answers(n)
  BY <1>0, <1>11, PassResult
     DEF Answers, TookDown, FirstMove, OthersKept, FirstRun, BeforeResult, PastGate, IsReady, Mode
<1>12. CASE TakeStop(n)
  BY <1>0, <1>12, PassResult
     DEF TakeStop, StopAlive, TakesStop, FirstMove, OthersKept, FirstRun, BeforeResult, PastGate, IsReady, Mode
<1>13. CASE LeaveParked(n)
  BY <1>0, <1>13, PassResult
     DEF LeaveParked, FirstMove, OthersKept, FirstRun, BeforeResult, PastGate, IsReady, Mode
<1>14. CASE TaskOpens(n)
  BY <1>0, <1>14, PassResult
     DEF TaskOpens, Open, Generations, FirstMove, OthersKept, FirstRun, BeforeResult, PastGate, IsReady, Mode
<1>15. CASE Hits(n)
  BY <1>0, <1>15, PassResult
     DEF Hits, FirstMove, OthersKept, FirstRun, BeforeResult, PastGate, IsReady, Mode
<1>16. CASE MissesCache(n)
  BY <1>0, <1>16, PassResult
     DEF MissesCache, FirstMove, OthersKept, FirstRun, BeforeResult, PastGate, IsReady, Mode
<1>17. CASE JobSpawns(n)
  BY <1>0, <1>17, PassResult
     DEF JobSpawns, FirstMove, OthersKept, FirstRun, BeforeResult, PastGate, IsReady, Mode
<1>18. CASE JobSucceeds(n)
  BY <1>0, <1>18, PassResult
     DEF JobSucceeds, FirstMove, OthersKept, FirstRun, BeforeResult, PastGate, IsReady, Mode
<1>19. CASE JobStores(n)
  BY <1>0, <1>19, PassResult
     DEF JobStores, Release, FirstMove, OthersKept, FirstRun, BeforeResult, PastGate, IsReady, Mode
<1>20. CASE Rechecked(n)
  BY <1>0, <1>20, PassResult
     DEF Rechecked, FirstMove, OthersKept, FirstRun, BeforeResult, PastGate, IsReady, Mode
<1>21. CASE JobDone(n)
  BY <1>0, <1>21, PassResult
     DEF JobDone, FirstMove, OthersKept, FirstRun, BeforeResult, PastGate, IsReady, Mode
<1>22. CASE LivenessDue(n)
  BY <1>0, <1>22, PassResult
     DEF LivenessDue, FirstMove, OthersKept, FirstRun, BeforeResult, PastGate, IsReady, Mode
<1>23. CASE JobFails(n)
  BY <1>0, <1>23, PassResult
     DEF JobFails, Release, FirstMove, OthersKept, FirstRun, BeforeResult, PastGate, IsReady, Mode
<1>24. CASE JobExits(n)
  BY <1>0, <1>24, PassResult
     DEF JobExits, FirstMove, OthersKept, FirstRun, BeforeResult, PastGate, IsReady, Mode
<1>25. CASE Ignores(n)
  BY <1>0, <1>25, PassResult
     DEF Ignores, FirstMove, OthersKept, FirstRun, BeforeResult, PastGate, IsReady, Mode
<1>26. CASE Halts(n)
  BY <1>0, <1>26, PassResult
     DEF Halts, TakesStop, Kept, FirstMove, OthersKept, FirstRun, BeforeResult, PastGate, IsReady, Mode
<1> QED
  BY <1>1, <1>2, <1>3, <1>4, <1>5, <1>6, <1>7, <1>8, <1>9, <1>10, <1>11, <1>12, <1>13, <1>14, <1>15, <1>16, <1>17, <1>18, <1>19, <1>20, <1>21, <1>22, <1>23, <1>24, <1>25, <1>26 DEF Supervise

(* Without an edit or a fault no step takes a first run back.              *)
LEMMA FirstStep ==
  TypeOK /\ Modes /\ StopsInOrder /\ FirstRuns /\ [Next]_vars => FirstRuns'
<1> SUFFICES ASSUME TypeOK, Modes, StopsInOrder, FirstRuns, [Next]_vars, budget' = Faults
             PROVE  \A n \in Nodes : FirstRun(n)'
  BY DEF FirstRuns
<1>0. /\ Faults \in Nat /\ budget \in 0..Faults /\ stopSent \in [Nodes -> BOOLEAN]
      /\ proc \in [Nodes -> {"none", "alive", "exited"}]
  BY EngineAssumption DEF TypeOK
<1>1. budget' = budget \/ budget' = budget - 1
  <2>1. ASSUME NEW n \in Nodes, Supervise(n) \/ Environment(n) \/ JobExits(n)
        PROVE  budget' = budget \/ budget' = budget - 1
    BY <2>1 DEF Supervise, Environment, Begin, Cycles, Halts, Ignores, ServiceOpens,
       PortReclaimed, Spawn, ProbePasses, ProbeAgain, Exited, InterruptStartup,
       RunningRestarts, Answers, TakeStop, ChildStopped, BackoffOver, LeaveParked,
       TaskOpens, Hits, MissesCache, JobSpawns, JobSucceeds, JobStores, Rechecked,
       JobDone, LivenessDue, MissesCheck, ProbeFails, SpawnFails, Exits, JobErrs,
       JobFails, AskRestart, JobExits
  <2> QED BY <2>1 DEF Next, Step, Stopper, SendStop, StopJob, Join, Overrun, FilesChange, ShutDown, vars
<1>2. budget = Faults /\ budget' = budget /\ \A n \in Nodes : FirstRun(n)
  BY <1>0, <1>1 DEF FirstRuns
<1>3. ASSUME NEW n \in Nodes, Supervise(n) \/ Environment(n) \/ JobExits(n)
      PROVE  \A m \in Nodes : FirstRun(m)'
  <2>1. FirstMove(n)
    BY <1>2, <1>3, FaultlessStep, FirstMoves
  <2> QED BY <1>2, <2>1, OthersFirst DEF FirstMove
<1>4. ASSUME NEW n \in Nodes, Stopper(n) PROVE \A m \in Nodes : FirstRun(m)'
  <2>1. \A m \in Nodes : stopSent[m] => stopSent'[m]
    BY <1>0, <1>4 DEF Stopper, SendStop, StopJob, Join, Overrun
  <2>2. UNCHANGED <<board, life, restart>>
    BY <1>4 DEF Stopper, SendStop, StopJob, Join, Overrun
  <2>3. \A m \in Services : proc'[m] = proc[m]
    BY <1>0, <1>4 DEF Stopper, SendStop, StopJob, Join, Overrun, StopsInOrder, Services
  <2> QED BY <1>2, <2>1, <2>2, <2>3 DEF FirstRun, board, life
<1>5. CASE FilesChange
  BY <1>0, <1>2, <1>5 DEF FilesChange
<1>6. CASE ShutDown \/ UNCHANGED vars
  BY <1>2, <1>6 DEF ShutDown, vars, board, life, FirstRun
<1> QED BY <1>3, <1>4, <1>5, <1>6 DEF Next, Step

(***************************************************************************)
(* The theorems.                                                           *)
(***************************************************************************)

(* The invariant holds when the supervisors are spawned.                  *)
LEMMA InitIInv == EngineInit => IInv
<1> SUFFICES ASSUME EngineInit PROVE IInv
  OBVIOUS
<1> USE DEF EngineInit, BoardInit
<1>1. TypeOK
  <2>1. BoardOK /\ SlotsOK
    BY DEF BoardOK, SlotsOK, Statuses, Kinds
  <2>2. LifeOK
    <3>1. \A n \in Nodes : crashes[n] = 0 /\ crashes[n] <= MaxRestarts[n]
      BY EngineAssumption
    <3>2. crashes \in [Nodes -> Nat] /\ misses \in [Nodes -> 0..Misses]
      BY EngineAssumption
    <3> QED BY <3>1, <3>2 DEF LifeOK, Phases, SharedPhases
  <2>3. MailOK
    <3>1. Faults \in Nat
      BY EngineAssumption
    <3>2. budget \in 0..Faults
      BY <3>1
    <3> QED BY <3>2 DEF MailOK
  <2> QED BY <2>1, <2>2, <2>3, TypeParts
<1>2. Modes
  BY DEF Modes, Mode, WithChild, ServicePhases, TaskPhases
<1>3. SlotsInOrder
  <2>1. Cardinality(holders) = 0
    BY FS_EmptySet
  <2> QED BY <2>1, EngineAssumption DEF SlotsInOrder, SlotPhases, QueuePhases, SlotNeeded
<1>4. StopsInOrder
  BY DEF StopsInOrder
<1>5. NoLostWakeup
  BY DEF NoLostWakeup, Overdue, Attentive, Services
<1>6. FirstRuns
  BY EngineAssumption DEF FirstRuns, FirstRun, IsReady, BeforeResult, PastGate
<1> QED BY <1>1, <1>2, <1>3, <1>4, <1>5, <1>6 DEF IInv

(* The invariant holds in every reachable state of Engine.                 *)
THEOREM Invariance == Spec => []IInv
<1>1. IInv /\ [Next]_vars => IInv'
  BY TypeStep, ModesStep, SlotsStep, StopsStep, WakeupStep, FirstStep DEF IInv
<1> QED BY InitIInv, <1>1, PTL DEF Spec

(* Type correctness of the supervision tree (every handler of the engine   *)
(* leaves its state well formed, and no crash count exceeds its limit).    *)
THEOREM TypeCorrect == Spec => []TypeOK
<1>1. IInv => TypeOK
  BY DEF IInv
<1> QED BY <1>1, Invariance, PTL

(* Readiness is read from status alone, and it is never left behind by a   *)
(* service that went down or a task that runs again (Status::is_ready).    *)
THEOREM ReadinessIsTrue == Spec => []ReadyIsTrue
<1>1. IInv => ReadyIsTrue
  BY DEF IInv, Modes, Mode, WithChild, ReadyIsTrue
<1> QED BY <1>1, Invariance, PTL

(* A service whose passes all look at the board never misses what it has   *)
(* to act on (supervise_service marks the board before its snapshot).      *)
THEOREM WakeupsAreKept == Spec => []NoLostWakeup
<1>1. IInv => NoLostWakeup
  BY DEF IInv
<1> QED BY <1>1, Invariance, PTL

(* Starting up, no tick for what it already ran against makes a node       *)
(* produce a second result, in whatever order the supervisors run (cairn   *)
(* 0036, 0038; Deps::moved_since).                                         *)
THEOREM OneResultForEach == Spec => []OneResultEach
<1>1. IInv => OneResultEach
  BY DEF IInv, FirstRuns, FirstRun, OneResultEach
<1> QED BY <1>1, Invariance, PTL

(* A supervisor that shutdown has joined left no process, no slot and no   *)
(* place in the queue behind (shutdown awaits join handles).               *)
THEOREM JoinedAreGone == Spec => []JoinedIsGone
<1>1. IInv => JoinedIsGone
  <2> SUFFICES ASSUME IInv, NEW n \in Nodes, stopper[n] = "joined"
               PROVE  /\ proc[n] = "none" /\ n \notin holders
                      /\ \A i \in DOMAIN slotQ : slotQ[i] # n
    BY DEF JoinedIsGone
  <2>1. phase[n] = "done"
    BY DEF IInv, StopsInOrder
  <2> QED BY <2>1 DEF IInv, Modes, Mode, WithChild, SlotsInOrder, SlotPhases, QueuePhases
<1> QED BY <1>1, Invariance, PTL

(* Reverse dependency order: a node is told to stop when every dependent's *)
(* process is gone or has outlasted its stop timeout (shutdown, by waves). *)
THEOREM StopsAreOrdered == Spec => []StopOrder
<1>1. IInv => StopOrder
  <2> SUFFICES ASSUME IInv, NEW n \in Nodes, NEW d \in Dependents(n), stopSent[n]
               PROVE  proc[d] = "none" \/ stopper[d] = "overran"
    BY DEF StopOrder
  <2>1. d \in Nodes /\ Gone(d)
    BY DependentsStopFirst DEF IInv, StopsInOrder, Dependents
  <2> QED BY <2>1 DEF IInv, StopsInOrder, Modes, Mode, WithChild, Gone
<1> QED BY <1>1, Invariance, PTL

(* Without verified cache hits, whose re-run takes no slot, never more     *)
(* children build than there are slots (acquire_slot).                     *)
THEOREM BuildsAreLimited ==
  ASSUME Verified = {}
  PROVE  Spec => []BuildLimit
<1>1. IInv => BuildLimit
  <2> SUFFICES ASSUME IInv PROVE BuildLimit
    OBVIOUS
  <2>1. Building \in SUBSET holders
    BY DEF IInv, Modes, Mode, SlotsInOrder, SlotNeeded, Building
  <2>2. /\ IsFiniteSet(holders) /\ Cardinality(holders) \in Nat
        /\ Cardinality(holders) <= Slots /\ Slots \in Nat
    BY PlanIsDag, FS_Subset, FS_CardinalityType, EngineAssumption
       DEF IInv, TypeOK, SlotsInOrder
  <2>3. IsFiniteSet(Building) /\ Cardinality(Building) <= Cardinality(holders)
    BY <2>1, <2>2, FS_Subset
  <2>4. Cardinality(Building) \in Nat
    BY <2>3, FS_CardinalityType
  <2> QED BY <2>2, <2>3, <2>4 DEF BuildLimit
<1> QED BY <1>1, Invariance, PTL
=============================================================================
