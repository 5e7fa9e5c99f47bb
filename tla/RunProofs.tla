----------------------------- MODULE RunProofs -----------------------------
(***************************************************************************)
(* Proofs about RunOnce, for every plan, configuration, number of slots    *)
(* and number of faults. A one-shot run takes only steps of the tree, so   *)
(* what EngineProofs shows of the tree holds here too; what a task does in *)
(* a run without a second start of a service makes the answer stand.       *)
(***************************************************************************)
EXTENDS RunOnce, EngineProofs

(* A task succeeds once and rests on it, for what it ran against is the    *)
(* only result each of its dependencies ever has.                          *)
TaskRun(t) ==
  /\ gen[t] <= 1 /\ status[t] # "exited"
  /\ gen[t] = 1 => status[t] = "done" /\ phase[t] \in {"saving", "settled", "parked", "done"}
  /\ phase[t] \in PastGate \cup {"draining"} => \A d \in Deps(t) : gen[d] = 1
  /\ phase[t] \in PastGate => \A d \in Deps(t) : seen[t][d] = 1

(* What a run adds to IInv: nobody asks for restarts, what is ready has a  *)
(* result, each task runs once, the shutdown waits for the answer, and a   *)
(* success is the success of every task, which no stop then overruns.      *)
RunInv ==
  /\ \A n \in Nodes : restart[n] = "none"
  /\ \A n \in Nodes : IsReady(status[n]) => gen[n] >= 1
  /\ OnceEach => \A t \in Tasks : TaskRun(t)
  /\ verdict = "none" => ~shuttingDown
  /\ ~shuttingDown => \A n \in Nodes : stopper[n] = "idle"
  /\ verdict = "ok" /\ OnceEach => \A t \in Tasks : gen[t] = 1 /\ stopper[t] # "overran"

(***************************************************************************)
(* A run is an execution of the tree.                                      *)
(***************************************************************************)

(* One of the tree's own steps, with nobody to ask for a restart.          *)
Unasked(n) == \/ Supervise(n) \/ JobExits(n)
              \/ LivenessDue(n) \/ MissesCheck(n) \/ ProbeFails(n) \/ SpawnFails(n)
              \/ Exits(n) \/ JobErrs(n) \/ JobFails(n)

(* What a step of a run is.                                                *)
LEMMA RunMoves ==
  ASSUME [RunNext]_runVars
  PROVE  \/ (\E n \in Nodes : Unasked(n)) /\ UNCHANGED verdict
         \/ (\E n \in Nodes : Stopper(n)) /\ shuttingDown' = shuttingDown /\ UNCHANGED verdict
         \/ ShutDown /\ verdict # "none" /\ UNCHANGED verdict
         \/ UNCHANGED vars /\ verdict = "none" /\ verdict' \in {Answer, "interrupted"}
         \/ UNCHANGED vars /\ UNCHANGED verdict
BY DEF RunNext, Ticks, RunStep, RunEnds, Wait, Interrupt, runVars, Unasked, vars,
       Stopper, SendStop, StopJob, Join, Overrun

(* Every step of a run is one of the tree, or leaves the tree alone.       *)
LEMMA RunStepIsStep == [RunNext]_runVars => [Next]_vars
BY DEF RunNext, Ticks, RunStep, RunEnds, Wait, Interrupt, runVars, Next, Step, Environment

(* `turborust run` is the tree of `turborust up` without a watcher and     *)
(* without anyone to ask for restarts: whatever is true of every execution *)
(* of the tree is true of every run (run_once_until).                      *)
THEOREM RunIsTree == RunSpec => Spec
<1>1. RunInit => EngineInit
  BY DEF RunInit
<1> QED BY <1>1, RunStepIsStep, PTL DEF RunSpec, Spec

(***************************************************************************)
(* How a supervisor's step moves what a run is about.                      *)
(***************************************************************************)

(* At most one status is written, n's, and it counts a result if it is one. *)
ResultMove(n) ==
  \/ status' = status /\ gen' = gen
  \/ \E s \in Statuses : /\ status' = [status EXCEPT ![n] = s]
                         /\ gen' = IF IsReady(s) THEN [gen EXCEPT ![n] = @ + 1] ELSE gen

(* Writing a status by whichever way, with no result in it, is such a move. *)
LEMMA WritesMove ==
  ASSUME TypeOK, NEW n \in Nodes
  PROVE  /\ Look(n) => ResultMove(n)
         /\ \A s \in Statuses : Set(n, s) \/ SetInRun(n, s) => ResultMove(n)
         /\ \A s \in Statuses : SetAnew(n, s) /\ ~IsReady(s) => ResultMove(n)
         /\ \A marks : Acquire(n, marks) => ResultMove(n)
         /\ \A m : Gate(n, m) => ResultMove(n)
<1>1. \A m : Gate(n, m) => Look(n) \/ \E s \in Statuses : Set(n, s)
  BY FirstUnreadyIsDep DEF Gate, Statuses
<1>2. Look(n) => ResultMove(n)
  BY PassResult DEF ResultMove
<1>3. \A s \in Statuses : Set(n, s) \/ SetInRun(n, s) => ResultMove(n)
  BY PassResult DEF ResultMove
<1>4. \A s \in Statuses : SetAnew(n, s) /\ ~IsReady(s) => ResultMove(n)
  BY PassResult DEF ResultMove
<1>5. \A marks : Acquire(n, marks) => ResultMove(n)
  BY PassResult DEF ResultMove, Statuses, Kinds, IsReady
<1> QED BY <1>1, <1>2, <1>3, <1>4, <1>5

LEMMA ResultMoves ==
  ASSUME TypeOK, NEW n \in Nodes, Unasked(n)
  PROVE  ResultMove(n)
<1>0. Kinds \subseteq Statuses /\ "backoff" \notin {"healthy", "done"}
  BY DEF Statuses
<1>1. UNCHANGED board => ResultMove(n)
  BY DEF board, ResultMove
<1>2. CASE Spawn(n)
  BY <1>0, <1>2, WritesMove DEF Spawn, ResultMove, IsReady, Kinds
<1>3. CASE Exited(n)
  BY <1>0, <1>3, WritesMove DEF Exited, CrashLoop, IsReady, Kinds
<1>4. CASE SpawnFails(n)
  BY <1>0, <1>4, WritesMove DEF SpawnFails, CrashLoop, IsReady, Kinds
<1>5. CASE Begin(n) \/ Cycles(n) \/ BackoffOver(n) \/ ChildStopped(n)
  BY <1>5, WritesMove DEF Begin, Cycles, BackoffOver, ChildStopped
<1>6. CASE \/ Halts(n) \/ Ignores(n) \/ ServiceOpens(n) \/ PortReclaimed(n)
           \/ ProbePasses(n) \/ ProbeAgain(n) \/ InterruptStartup(n) \/ RunningRestarts(n)
           \/ Answers(n) \/ TakeStop(n) \/ LeaveParked(n) \/ TaskOpens(n)
  BY <1>0, <1>6, WritesMove DEF Halts, Ignores, ServiceOpens, PortReclaimed, ProbePasses,
     BecameReady, ProbeAgain, InterruptStartup, Stopping, RunningRestarts, RestartRunning,
     Answers, TakeStop, StopAlive, LeaveParked, TaskOpens, Kinds
<1>7. CASE \/ Hits(n) \/ MissesCache(n) \/ JobSpawns(n) \/ JobSucceeds(n) \/ JobStores(n)
           \/ Rechecked(n) \/ JobDone(n) \/ JobExits(n) \/ LivenessDue(n) \/ MissesCheck(n)
           \/ ProbeFails(n) \/ Exits(n) \/ JobErrs(n) \/ JobFails(n)
  BY <1>0, <1>1, <1>7, WritesMove DEF Hits, MissesCache, JobSpawns, JobSucceeds, JobStores,
     Rechecked, JobDone, JobExits, LivenessDue, MissesCheck, RestartRunning, Stopping,
     ProbeFails, BecameReady, Exits, JobErrs, JobFails, Kinds
<1> QED BY <1>2, <1>3, <1>4, <1>5, <1>6, <1>7 DEF Unasked, Supervise

(* What a step of n leaves as it is: the other supervisors, the mail that  *)
(* nobody sends, the stops.                                                *)
LEMMA OthersStand ==
  ASSUME TypeOK, NEW n \in Nodes, Unasked(n), \A m \in Nodes : restart[m] = "none"
  PROVE  /\ \A m \in Nodes \ {n} : phase'[m] = phase[m] /\ seen'[m] = seen[m]
         /\ \A m \in Nodes : restart'[m] = "none"
         /\ UNCHANGED <<stopSent, stopper, shuttingDown>>
<1>0. /\ phase \in [Nodes -> Phases] /\ seen \in [Nodes -> [Nodes -> Nat]]
      /\ restart \in [Nodes -> {"none", "queued", "woke"}]
  BY DEF TypeOK
<1>1. Supervise(n) \/ Environment(n) \/ JobExits(n)
  BY DEF Unasked, Environment
<1>2. \A m \in Nodes \ {n} : phase'[m] = phase[m]
  BY <1>0, <1>1, PhaseMoves, GatePhase DEF To
<1>3. \A m \in Nodes \ {n} : seen'[m] = seen[m]
  <2>1. seen' = seen \/ Open(n)
    BY DEF Unasked, Supervise, Begin, Cycles, Halts, Ignores, ServiceOpens,
       PortReclaimed, Spawn, ProbePasses, ProbeAgain, Exited, InterruptStartup,
       RunningRestarts, Answers, TakeStop, ChildStopped, BackoffOver, LeaveParked,
       TaskOpens, Hits, MissesCache, JobSpawns, JobSucceeds, JobStores, Rechecked,
       JobDone, LivenessDue, MissesCheck, ProbeFails, SpawnFails, Exits, JobErrs,
       JobFails, JobExits, life
  <2> QED BY <1>0, <2>1 DEF Open
<1>4. \A m \in Nodes : restart'[m] = "none"
  <2>1. \A m : Gate(n, m) => restart' = [restart EXCEPT ![n] = m] \/ restart' = [restart EXCEPT ![n] = "none"]
    BY DEF Gate, Mail
  <2>2. restart' = restart \/ restart' = [restart EXCEPT ![n] = "none"]
    BY <1>0, <2>1 DEF Unasked, Supervise, Begin, Cycles, Halts, Ignores, ServiceOpens,
       PortReclaimed, Spawn, ProbePasses, ProbeAgain, Exited, InterruptStartup,
       RunningRestarts, Answers, TakeStop, ChildStopped, BackoffOver, LeaveParked,
       TaskOpens, Hits, MissesCache, JobSpawns, JobSucceeds, JobStores, Rechecked,
       JobDone, LivenessDue, MissesCheck, ProbeFails, SpawnFails, Exits, JobErrs,
       JobFails, JobExits, Mail, Kept, Woken
  <2> QED BY <1>0, <2>2
<1>5. UNCHANGED shuttingDown
  BY DEF Unasked, Supervise, Begin, Cycles, Halts, Ignores, ServiceOpens,
     PortReclaimed, Spawn, ProbePasses, ProbeAgain, Exited, InterruptStartup,
     RunningRestarts, Answers, TakeStop, ChildStopped, BackoffOver, LeaveParked,
     TaskOpens, Hits, MissesCache, JobSpawns, JobSucceeds, JobStores, Rechecked,
     JobDone, LivenessDue, MissesCheck, ProbeFails, SpawnFails, Exits, JobErrs,
     JobFails, JobExits, down
<1> QED BY <1>1, <1>2, <1>3, <1>4, <1>5, StopsUnchanged

(***************************************************************************)
(* A task in a run.                                                        *)
(***************************************************************************)

(* What the step of a task makes of its one run.                           *)
LEMMA TaskMoves ==
  ASSUME TypeOK, Modes, NEW t \in Tasks, Unasked(t), TaskRun(t), restart[t] = "none",
         \A d \in Deps(t) : gen[d] <= 1 /\ (IsReady(status[d]) => gen[d] >= 1)
  PROVE  TaskRun(t)'
<1> USE DEF To, TaskRun, board, life, slots, down
<1>0. /\ phase \in [Nodes -> Phases] /\ status \in [Nodes -> Statuses] /\ gen \in [Nodes -> Nat]
      /\ seen \in [Nodes -> [Nodes -> Nat]] /\ Deps(t) \subseteq Nodes
      /\ t \in Nodes /\ t \notin Services /\ Mode(t) /\ t \notin Deps(t)
  BY PlanIsDag, EngineAssumption DEF TypeOK, Deps, Modes, Services
<1>1. \A m \in {"none"} : Gate(t, m) /\ phase[t] \in {"begin", "waiting"} /\ seen' = seen => TaskRun(t)'
  <2> SUFFICES ASSUME NEW m \in {"none"}, Gate(t, m), phase[t] \in {"begin", "waiting"}, seen' = seen
               PROVE  TaskRun(t)'
    OBVIOUS
  <2>1. CASE /\ \A d \in Deps(t) : IsReady(status[d])
             /\ status' = status /\ gen' = gen /\ Mail(t, "none")
             /\ phase' = [phase EXCEPT ![t] = IF stopSent[t] THEN "halting" ELSE "draining"]
    BY <1>0, <2>1 DEF PastGate
  <2>2. CASE /\ \E d \in Nodes \ Kinds : status' = [status EXCEPT ![t] = d]
             /\ gen' = gen /\ phase' = [phase EXCEPT ![t] = "waiting"] /\ Mail(t, m)
    BY <1>0, <2>2 DEF PastGate, Kinds
  <2> QED BY <1>0, <2>1, <2>2, GateResult
<1>a. gen[t] \in {0, 1} /\ (phase[t] \in BeforeResult => gen[t] = 0)
  <2>1. gen[t] \in Nat /\ gen[t] <= 1
    BY <1>0
  <2>2. gen[t] \in {0, 1}
    BY <2>1
  <2> QED BY <2>2 DEF BeforeResult
<1>b. SetInRun(t, "done") /\ gen[t] = 0 =>
         /\ status' = [status EXCEPT ![t] = "done"]
         /\ gen'[t] = 1 /\ \A d \in Deps(t) : gen'[d] = gen[d]
  BY <1>0, PassResult DEF IsReady
<1>2. CASE Begin(t)
  BY <1>1, <1>2 DEF Begin
<1>3. CASE Cycles(t)
  <2>1. PICK m \in {"none", "queued"} : Woken(t, m) /\ Gate(t, m)
    BY <1>3 DEF Cycles
  <2>2. m = "none"
    BY <2>1 DEF Woken, Kept
  <2>3. phase[t] # "parked"
    BY <1>0, <2>1 DEF Woken, TakesRestart, HeedsBoard, MovedSince, PastGate
  <2>4. phase[t] = "waiting"
    BY <1>0, <1>3, <2>3 DEF Cycles, Mode, ServicePhases
  <2> QED BY <1>1, <1>3, <2>1, <2>2, <2>4 DEF Cycles
<1>4. CASE Halts(t)
  BY <1>0, <1>4, PassResult DEF Halts, PastGate, IsReady
<1>5. CASE Ignores(t)
  BY <1>0, <1>5, PassResult DEF Ignores
<1>6. CASE LeaveParked(t)
  BY <1>0, <1>6, PassResult DEF LeaveParked, PastGate
<1>7. CASE TaskOpens(t)
  BY <1>0, <1>7, PassResult DEF TaskOpens, Open, Generations, PastGate, IsReady
<1>8. CASE Hits(t)
  <2>1. gen[t] = 0
    BY <1>a, <1>8 DEF Hits, BeforeResult
  <2> QED BY <1>0, <1>b, <1>8, <2>1, PassResult DEF Hits, PastGate, IsReady
<1>9. CASE MissesCache(t)
  BY <1>0, <1>9, PassResult DEF MissesCache, PastGate
<1>10. CASE JobSpawns(t)
  BY <1>0, <1>10, PassResult DEF JobSpawns, PastGate, IsReady
<1>11. CASE JobSucceeds(t)
  <2>1. gen[t] = 0
    BY <1>a, <1>11 DEF JobSucceeds, BeforeResult
  <2> QED BY <1>0, <1>b, <1>11, <2>1, PassResult DEF JobSucceeds, PastGate, IsReady
<1>12. CASE JobStores(t)
  BY <1>0, <1>12 DEF JobStores, PastGate
<1>13. CASE Rechecked(t)
  <2>1. gen[t] = 0
    BY <1>a, <1>13 DEF Rechecked, BeforeResult
  <2> QED BY <1>0, <1>b, <1>13, <2>1, PassResult DEF Rechecked, PastGate, IsReady
<1>14. CASE JobDone(t)
  BY <1>0, <1>14, PassResult DEF JobDone, PastGate
<1>15. CASE JobErrs(t)
  BY <1>0, <1>15, PassResult DEF JobErrs, PastGate, IsReady
<1>16. CASE JobFails(t)
  BY <1>0, <1>16, PassResult DEF JobFails, PastGate, IsReady
<1>17. CASE JobExits(t)
  BY <1>0, <1>17 DEF JobExits
<1> QED
  BY <1>0, <1>2, <1>3, <1>4, <1>5, <1>6, <1>7, <1>8, <1>9, <1>10, <1>11, <1>12, <1>13, <1>14, <1>15, <1>16, <1>17
     DEF Unasked, Supervise, Mode, ServicePhases, ServiceOpens, PortReclaimed, Spawn, ProbePasses,
         ProbeAgain, Exited, InterruptStartup, RunningRestarts, Answers, TakeStop, ChildStopped,
         BackoffOver, LivenessDue, MissesCheck, ProbeFails, SpawnFails, Exits

(***************************************************************************)
(* The invariant of a run.                                                 *)
(***************************************************************************)

(* A step of the tree never takes a result away, and nobody else's task    *)
(* notices it.                                                             *)
LEMMA RunsStep ==
  ASSUME TypeOK, TypeOK', Modes, RunInv, NEW n \in Nodes, Unasked(n)
  PROVE  /\ \A m \in Nodes : gen'[m] >= gen[m] /\ (IsReady(status'[m]) => gen'[m] >= 1)
         /\ OnceEach' => OnceEach /\ \A t \in Tasks : TaskRun(t)'
<1>0. /\ status \in [Nodes -> Statuses] /\ gen \in [Nodes -> Nat] /\ gen' \in [Nodes -> Nat]
      /\ Tasks \subseteq Nodes /\ Services = Nodes \ Tasks
  BY EngineAssumption DEF TypeOK, Services
<1>1. ResultMove(n)
  BY ResultMoves
<1>2. \A m \in Nodes : IsReady(status[m]) => gen[m] >= 1
  BY DEF RunInv
<1>3. \A m \in Nodes : gen'[m] >= gen[m] /\ (IsReady(status'[m]) => gen'[m] >= 1)
  BY <1>0, <1>1, <1>2 DEF ResultMove
<1>4. OnceEach' => OnceEach
  BY <1>0, <1>3 DEF OnceEach
<1>5. ASSUME OnceEach', NEW t \in Tasks PROVE TaskRun(t)'
  <2>1. OnceEach /\ (\A u \in Tasks : TaskRun(u)) /\ \A m \in Nodes : restart[m] = "none"
    BY <1>4, <1>5 DEF RunInv
  <2>2. t \in Nodes /\ Deps(t) \subseteq Nodes
    BY <1>0, PlanIsDag DEF Deps
  <2>3. \A m \in Nodes : gen[m] <= 1
    BY <1>0, <2>1 DEF OnceEach, TaskRun
  <2>4. CASE n = t
    BY <1>2, <2>1, <2>2, <2>3, <2>4, TaskMoves
  <2>5. CASE n # t
    <3>1. phase'[t] = phase[t] /\ seen'[t] = seen[t] /\ status'[t] = status[t] /\ gen'[t] = gen[t]
      BY <1>0, <1>1, <2>1, <2>2, <2>5, OthersStand DEF ResultMove
    <3>2. \A d \in Deps(t) : gen[d] = 1 => gen'[d] = 1
      <4>1. \A d \in Deps(t) : gen'[d] <= 1 \/ d = n
        BY <1>0, <1>1, <2>2, <2>3 DEF ResultMove
      <4>2. n \in Services => gen'[n] <= 1
        BY <1>5 DEF OnceEach
      <4>3. n \in Tasks => gen'[n] <= 1
        <5>1. n \in Tasks => TaskRun(n)'
          <6>1. Deps(n) \subseteq Nodes
            BY PlanIsDag DEF Deps
          <6> QED BY <1>2, <2>1, <2>3, <6>1, TaskMoves
        <5> QED BY <5>1 DEF TaskRun
      <4> QED BY <1>0, <1>3, <2>2, <4>1, <4>2, <4>3
    <3> QED BY <2>1, <3>1, <3>2 DEF TaskRun
  <2> QED BY <2>4, <2>5
<1> QED BY <1>3, <1>4, <1>5

(* The waiter answers ok only when every task has succeeded.               *)
LEMMA OkIsAll ==
  ASSUME TypeOK, RunInv, OnceEach, Answer = "ok"
  PROVE  \A t \in Tasks : gen[t] = 1
<1>0. gen \in [Nodes -> Nat] /\ Tasks \subseteq Nodes
  BY EngineAssumption DEF TypeOK
<1>1. \A t \in Tasks : status[t] = "done"
  <2>1. CASE KeepGoing
    <3>1. AllSettled /\ FailedTasks = {}
      BY <2>1 DEF Answer, AwaitAllTasks
    <3>2. Blocked = {}
      BY <3>1 DEF Blocked
    <3>3. \A t \in Tasks : status[t] # "failed"
      BY <3>1 DEF FailedTasks
    <3> QED BY <3>1, <3>2, <3>3 DEF AllSettled, RunInv, TaskRun
  <2>2. CASE ~KeepGoing
    BY <2>2 DEF Answer, AwaitTasks, AllDone
  <2> QED BY <2>1, <2>2
<1> QED BY <1>0, <1>1 DEF RunInv, TaskRun, IsReady

LEMMA InitRunInv == RunInit => RunInv
BY EngineAssumption
   DEF RunInit, EngineInit, BoardInit, RunInv, IsReady, TaskRun, PastGate, Services

(* Every step of a run keeps the invariant.                                *)
LEMMA RunInvStep == IInv /\ IInv' /\ RunInv /\ [RunNext]_runVars => RunInv'
<1> SUFFICES ASSUME IInv, IInv', RunInv, [RunNext]_runVars PROVE RunInv'
  OBVIOUS
<1>0. /\ TypeOK /\ TypeOK' /\ Modes /\ Tasks \subseteq Nodes /\ gen \in [Nodes -> Nat]
      /\ stopper \in [Nodes -> {"idle", "check", "join", "joined", "overran"}]
  BY EngineAssumption DEF IInv, TypeOK
<1>1. ASSUME NEW n \in Nodes, Unasked(n), UNCHANGED verdict PROVE RunInv'
  <2>1. /\ \A m \in Nodes : restart'[m] = "none"
        /\ UNCHANGED <<stopper, shuttingDown>>
    BY <1>0, <1>1, OthersStand DEF RunInv
  <2>2. /\ \A m \in Nodes : gen'[m] >= gen[m] /\ (IsReady(status'[m]) => gen'[m] >= 1)
        /\ OnceEach' => OnceEach /\ \A t \in Tasks : TaskRun(t)'
    BY <1>0, <1>1, RunsStep
  <2>3. verdict' = "ok" /\ OnceEach' => \A t \in Tasks : gen'[t] = 1 /\ stopper'[t] # "overran"
    <3> SUFFICES ASSUME verdict = "ok", OnceEach', NEW t \in Tasks
                 PROVE  gen'[t] = 1 /\ stopper'[t] # "overran"
      BY <1>1
    <3>1. gen[t] = 1 /\ stopper[t] # "overran"
      BY <2>2 DEF RunInv
    <3>2. gen'[t] >= 1 /\ gen'[t] <= 1 /\ gen'[t] \in Nat
      BY <1>0, <2>2, <3>1 DEF TypeOK, TaskRun
    <3> QED BY <2>1, <3>1, <3>2
  <2> QED BY <1>1, <2>1, <2>2, <2>3 DEF RunInv
<1>2. ASSUME NEW n \in Nodes, Stopper(n), shuttingDown' = shuttingDown, UNCHANGED verdict
      PROVE  RunInv'
  <2>1. UNCHANGED <<board, life, restart>>
    BY <1>2 DEF Stopper, SendStop, StopJob, Join, Overrun
  <2>2. stopper[n] # "idle" \/ shuttingDown
    BY <1>2 DEF Stopper, SendStop, StopJob, Join, Overrun
  <2>3. \A m \in Nodes \ {n} : stopper'[m] = stopper[m]
    BY <1>0, <1>2 DEF Stopper, SendStop, StopJob, Join, Overrun
  <2>4. shuttingDown
    BY <2>2 DEF RunInv
  <2>5. ASSUME verdict = "ok", OnceEach, NEW t \in Tasks
        PROVE  gen[t] = 1 /\ stopper'[t] # "overran"
    <3>1. gen[t] = 1 /\ stopper[t] # "overran" /\ TaskRun(t)
      BY <2>5 DEF RunInv
    <3>2. ~Overrun(t)
      BY <3>1 DEF Overrun, TaskRun
    <3> QED BY <1>0, <1>2, <2>3, <3>1, <3>2 DEF Stopper, SendStop, StopJob, Join
  <2>6. /\ (\A m \in Nodes : restart'[m] = "none")
        /\ OnceEach' <=> OnceEach
        /\ \A t \in Tasks : TaskRun(t)' <=> TaskRun(t)
    BY <2>1 DEF board, life, OnceEach, TaskRun, RunInv
  <2> QED BY <1>2, <2>1, <2>4, <2>5, <2>6 DEF RunInv, board
<1>3. CASE ShutDown /\ verdict # "none" /\ UNCHANGED verdict
  BY <1>3 DEF ShutDown, RunInv, OnceEach, TaskRun, board, life
<1>4. CASE UNCHANGED vars /\ verdict = "none" /\ verdict' \in {Answer, "interrupted"}
  <2>1. /\ OnceEach' <=> OnceEach
        /\ \A t \in Tasks : TaskRun(t)' <=> TaskRun(t)
        /\ UNCHANGED <<restart, status, gen, stopper, shuttingDown>>
    BY <1>4 DEF vars, board, life, down, OnceEach, TaskRun
  <2>2. ~shuttingDown /\ \A m \in Nodes : stopper[m] = "idle"
    BY <1>4 DEF RunInv
  <2>3. verdict' = "ok" /\ OnceEach => \A t \in Tasks : gen[t] = 1
    BY <1>0, <1>4, OkIsAll
  <2> QED BY <1>0, <2>1, <2>2, <2>3 DEF RunInv
<1>5. CASE UNCHANGED vars /\ UNCHANGED verdict
  BY <1>5 DEF vars, board, life, down, RunInv, OnceEach, TaskRun
<1> QED BY <1>1, <1>2, <1>3, <1>4, <1>5, RunMoves

(* The invariant of a run, and with it the invariant of the tree.          *)
THEOREM RunInvariance == RunSpec => [](IInv /\ RunInv)
<1>1. RunSpec => []IInv
  BY RunIsTree, Invariance, PTL
<1> QED BY <1>1, InitRunInv, RunInvStep, PTL DEF RunSpec

(* A run that reports success and in which no service had to be started    *)
(* twice left every task done, joined and stored, and nothing running that *)
(* did not outlast its stop timeout (run_once_until, shutdown).            *)
THEOREM SuccessesStand == RunSpec => []SuccessStands
<1>1. IInv /\ RunInv => SuccessStands
  <2> SUFFICES ASSUME IInv, RunInv, Returned, verdict = "ok", OnceEach
               PROVE  /\ \A t \in Tasks : status[t] = "done" /\ stopper[t] = "joined"
                      /\ \A n \in Nodes : proc[n] = "none" \/ stopper[n] = "overran"
    BY DEF SuccessStands, OnceEach
  <2>1. \A n \in Nodes : stopper[n] \in {"joined", "overran"}
    BY DEF Returned, Gone
  <2>2. \A n \in Nodes : stopper[n] = "joined" => proc[n] = "none"
    BY DEF IInv, StopsInOrder, Modes, Mode, WithChild
  <2> QED BY <2>1, <2>2, EngineAssumption DEF RunInv, TaskRun
<1> QED BY <1>1, RunInvariance, PTL

(***************************************************************************)
(* What a failure blocks.                                                  *)
(***************************************************************************)

(* A node past its gate, and one with a result, has a result below it; and *)
(* a task that failed rests on that.                                       *)
QuietInv ==
  /\ \A n \in Nodes :
       gen[n] >= 1 \/ phase[n] \in PastGate \cup {"draining"} => \A d \in Deps(n) : gen[d] >= 1
  /\ OnceEach => \A t \in Tasks : status[t] = "failed" => phase[t] \in {"settled", "parked", "done"}

(* A result comes from behind the gate.                                    *)
LEMMA ResultsPastGate ==
  ASSUME TypeOK, Modes, NEW n \in Nodes, Unasked(n)
  PROVE  gen' = gen \/ phase[n] \in PastGate \cup {"draining"}
<1>0. gen \in [Nodes -> Nat] /\ \A m : Gate(n, m) => gen' = gen
  BY GateResult DEF TypeOK
<1>1. Look(n) => gen' = gen
  BY PassResult
<1>2. Begin(n) \/ Cycles(n) \/ Halts(n) => gen' = gen
  <2>1. \A s \in {"pending", "stopped", "failed"} :
          ~IsReady(s) /\ (Set(n, s) => gen' = gen)
    BY PassResult DEF IsReady
  <2>2. Begin(n) => gen' = gen
    BY <1>0, <2>1, SMTT(30) DEF Begin, board
  <2>3. Cycles(n) => gen' = gen
    BY <1>0, <2>1, SMTT(30) DEF Cycles, board
  <2>4. Halts(n) => gen' = gen
    BY <2>1, SMTT(30) DEF Halts
  <2> QED BY <2>2, <2>3, <2>4
<1>3. Ignores(n) \/ Exits(n) \/ JobExits(n) => gen' = gen
  BY <1>0, <1>1, SMTT(30) DEF Ignores, Exits, JobExits, board
<1>4. ChildStopped(n) \/ BackoffOver(n) \/ LeaveParked(n) => gen' = gen
  BY <1>0, <1>1, SMTT(30) DEF ChildStopped, BackoffOver, LeaveParked
<1>5. \/ ServiceOpens(n) \/ PortReclaimed(n) \/ Spawn(n) \/ ProbePasses(n) \/ ProbeAgain(n)
      \/ Exited(n) \/ InterruptStartup(n) \/ RunningRestarts(n) \/ Answers(n) \/ TakeStop(n)
      => phase[n] \in PastGate \cup {"draining"}
  BY SMTT(30) DEF PastGate, ServiceOpens, PortReclaimed, Spawn, ProbePasses, ProbeAgain, Exited,
     InterruptStartup, RunningRestarts, Answers, TakeStop
<1>6. \/ TaskOpens(n) \/ Hits(n) \/ MissesCache(n) \/ JobSpawns(n) \/ JobSucceeds(n)
      \/ JobStores(n) \/ Rechecked(n) \/ JobDone(n)
      => phase[n] \in PastGate \cup {"draining"}
  BY SMTT(30) DEF PastGate, TaskOpens, Hits, MissesCache, JobSpawns, JobSucceeds, JobStores,
     Rechecked, JobDone
<1>7. \/ LivenessDue(n) \/ MissesCheck(n) \/ ProbeFails(n) \/ SpawnFails(n)
      \/ JobErrs(n) \/ JobFails(n)
      => phase[n] \in PastGate \cup {"draining"}
  BY SMTT(30) DEF PastGate, LivenessDue, MissesCheck, ProbeFails, SpawnFails, JobErrs, JobFails
<1> QED BY <1>2, <1>3, <1>4, <1>5, <1>6, <1>7 DEF Unasked, Supervise

(* Nobody gets past a gate but through it, and it opens on results.        *)
LEMMA GatesOpenOnResults ==
  ASSUME TypeOK, RunInv, NEW n \in Nodes, Unasked(n),
         phase'[n] \in PastGate \cup {"draining"}, phase[n] \notin PastGate \cup {"draining"}
  PROVE  \A d \in Deps(n) : gen[d] >= 1
<1>0. /\ phase \in [Nodes -> Phases] /\ Deps(n) \subseteq Nodes
      /\ \A m \in Nodes : IsReady(status[m]) => gen[m] >= 1
  BY PlanIsDag DEF TypeOK, Deps, RunInv
<1>1. \E m : Gate(n, m)
  BY <1>0 DEF PastGate, To, Unasked, Supervise, Begin, Cycles, Halts, Ignores, ServiceOpens,
     PortReclaimed, Spawn, ProbePasses, ProbeAgain, Exited, InterruptStartup,
     RunningRestarts, Answers, TakeStop, ChildStopped, BackoffOver, LeaveParked,
     TaskOpens, Hits, MissesCache, JobSpawns, JobSucceeds, JobStores, Rechecked,
     JobDone, LivenessDue, MissesCheck, ProbeFails, SpawnFails, Exits, JobErrs,
     JobFails, JobExits, CrashLoop, life, Awaiting, TakesStop
<1>2. PICK m : Gate(n, m)
  BY <1>1
<1>3. (\A d \in Deps(n) : IsReady(status[d])) \/ phase' = [phase EXCEPT ![n] = "waiting"]
  BY <1>2, GateResult
<1> QED BY <1>0, <1>3 DEF PastGate

(* A task that failed leaves it at that, while nothing started twice.      *)
LEMMA FailuresRest ==
  ASSUME TypeOK, Modes, NEW t \in Tasks, Unasked(t), TaskRun(t), restart[t] = "none",
         \A d \in Deps(t) : gen[d] <= 1 /\ (IsReady(status[d]) => gen[d] >= 1),
         status[t] = "failed" => phase[t] \in {"settled", "parked", "done"},
         status'[t] = "failed"
  PROVE  phase'[t] \in {"settled", "parked", "done"}
<1> USE DEF To, board, life
<1>0. /\ phase \in [Nodes -> Phases] /\ status \in [Nodes -> Statuses]
      /\ t \in Nodes /\ t \notin Services /\ Mode(t) /\ "failed" \in Kinds
  BY EngineAssumption DEF TypeOK, Modes, Services, Kinds
<1>1. ASSUME NEW m, Gate(t, m) PROVE phase[t] \in {"settled", "parked", "done"}
  <2>1. \/ status' = status
        \/ \E d \in Nodes \ Kinds : status' = [status EXCEPT ![t] = d]
    BY <1>1, <1>0, GateResult
  <2> QED BY <1>0, <2>1
<1>2. ~(\E m : phase[t] = "parked" /\ Woken(t, m))
  BY <1>0 DEF Woken, TakesRestart, HeedsBoard, MovedSince, TaskRun, PastGate
<1>3. phase[t] \notin ServicePhases
  BY <1>0 DEF Mode
<1>4. \/ phase'[t] \in {"settled", "parked", "done"}
      \/ phase'[t] = phase[t] /\ status' = status
      \/ phase[t] \in {"begin", "waiting"} /\ \E m : Gate(t, m)
      \/ phase[t] \in {"draining", "keying", "jobQueued", "jobRunning"}
  BY <1>0, <1>2, <1>3 DEF Unasked, Supervise, Begin, Cycles, Halts, Ignores, ServiceOpens,
     PortReclaimed, Spawn, ProbePasses, ProbeAgain, Exited, InterruptStartup,
     RunningRestarts, Answers, TakeStop, ChildStopped, BackoffOver, LeaveParked,
     TaskOpens, Hits, MissesCache, JobSpawns, JobSucceeds, JobStores, Rechecked,
     JobDone, LivenessDue, MissesCheck, ProbeFails, SpawnFails, Exits, JobErrs,
     JobFails, JobExits, Look, ServicePhases
<1>5. CASE phase[t] \in {"draining", "keying", "jobQueued", "jobRunning"}
  <2>1. status[t] # "failed" /\ status' # status
    BY <1>5
  <2>2. \A s : Set(t, s) \/ SetInRun(t, s) => s = "failed"
    BY <1>0, PassResult
  <2>3. ASSUME NEW marks, Acquire(t, marks) PROVE FALSE
    <3>1. status' = status \/ status' = [status EXCEPT ![t] = "queued"]
      BY <1>0, <2>3, PassResult
    <3> QED BY <1>0, <2>1, <3>1
  <2>4. ~Look(t)
    BY <2>1 DEF Look
  <2> QED BY <1>0, <1>3, <1>5, <2>1, <2>2, <2>3, <2>4 DEF Unasked, Supervise, Begin, Cycles, Halts, Ignores,
     ServiceOpens, PortReclaimed, Spawn, ProbePasses, ProbeAgain, Exited, InterruptStartup,
     RunningRestarts, Answers, TakeStop, ChildStopped, BackoffOver, LeaveParked,
     TaskOpens, Hits, MissesCache, JobSpawns, JobSucceeds, JobStores, Rechecked,
     JobDone, LivenessDue, MissesCheck, ProbeFails, SpawnFails, Exits, JobErrs,
     JobFails, JobExits, TakesStop, Awaiting
<1> QED BY <1>0, <1>1, <1>4, <1>5

LEMMA InitQuiet == RunInit => QuietInv
BY EngineAssumption DEF RunInit, EngineInit, BoardInit, QuietInv, PastGate

(* Every step of a run keeps it.                                           *)
LEMMA QuietStep == IInv /\ IInv' /\ RunInv /\ RunInv' /\ QuietInv /\ [RunNext]_runVars => QuietInv'
<1> SUFFICES ASSUME IInv, IInv', RunInv, RunInv', QuietInv, [RunNext]_runVars PROVE QuietInv'
  OBVIOUS
<1>0. /\ TypeOK /\ TypeOK' /\ Modes
      /\ Tasks \subseteq Nodes /\ gen \in [Nodes -> Nat] /\ gen' \in [Nodes -> Nat]
      /\ status \in [Nodes -> Statuses] /\ Services = Nodes \ Tasks
      /\ \A n \in Nodes : Deps(n) \subseteq Nodes
  <2>1. TypeOK /\ TypeOK' /\ Modes
    BY DEF IInv
  <2>2. \A n \in Nodes : Deps(n) \subseteq Nodes
    BY PlanIsDag DEF Deps
  <2>3. /\ Tasks \subseteq Nodes /\ gen \in [Nodes -> Nat] /\ gen' \in [Nodes -> Nat]
        /\ status \in [Nodes -> Statuses] /\ Services = Nodes \ Tasks
    BY <2>1, EngineAssumption DEF TypeOK, Services
  <2> QED BY <2>1, <2>2, <2>3
<1>1. ASSUME NEW n \in Nodes, Unasked(n), UNCHANGED verdict PROVE QuietInv'
  <2>1. /\ \A m \in Nodes : gen'[m] >= gen[m]
        /\ OnceEach' => OnceEach
    BY <1>0, <1>1, RunsStep
  <2>2. /\ \A m \in Nodes \ {n} : phase'[m] = phase[m] /\ status'[m] = status[m] /\ gen'[m] = gen[m]
        /\ \A m \in Nodes : restart[m] = "none"
    BY <1>0, <1>1, OthersStand, ResultMoves DEF RunInv, ResultMove
  <2>3. ASSUME NEW m \in Nodes, gen'[m] >= 1 \/ phase'[m] \in PastGate \cup {"draining"}, NEW d \in Deps(m)
        PROVE  gen'[d] >= 1
    <3>1. gen[m] >= 1 \/ phase[m] \in PastGate \cup {"draining"} => gen[d] >= 1
      BY DEF QuietInv
    <3>2. CASE m # n
      BY <1>0, <2>1, <2>2, <2>3, <3>1, <3>2
    <3>3. CASE m = n
      <4>1. gen[n] >= 1 \/ phase[n] \in PastGate \cup {"draining"}
                        \/ phase'[n] \in PastGate \cup {"draining"}
        BY <1>0, <1>1, <2>3, <3>3, ResultsPastGate
      <4>2. gen[d] >= 1
        BY <1>0, <1>1, <2>3, <3>1, <3>3, <4>1, GatesOpenOnResults
      <4> QED BY <1>0, <2>1, <4>2
    <3> QED BY <3>2, <3>3
  <2>4. ASSUME OnceEach', NEW t \in Tasks, status'[t] = "failed"
        PROVE  phase'[t] \in {"settled", "parked", "done"}
    <3>1. OnceEach /\ \A u \in Tasks : TaskRun(u)
      BY <2>1, <2>4 DEF RunInv
    <3>2. status[t] = "failed" => phase[t] \in {"settled", "parked", "done"}
      BY <3>1 DEF QuietInv
    <3>3. \A d \in Deps(t) : gen[d] <= 1 /\ (IsReady(status[d]) => gen[d] >= 1)
      BY <1>0, <3>1 DEF OnceEach, TaskRun, RunInv
    <3>4. CASE t = n
      BY <1>0, <1>1, <2>2, <2>4, <3>1, <3>2, <3>3, <3>4, FailuresRest
    <3>5. CASE t # n
      BY <1>0, <2>2, <2>4, <3>2, <3>5
    <3> QED BY <3>4, <3>5
  <2> QED BY <2>3, <2>4 DEF QuietInv
<1>2. CASE UNCHANGED <<board, life>>
  BY <1>2 DEF QuietInv, OnceEach, board, life
<1>3. \/ \E n \in Nodes : Unasked(n) /\ UNCHANGED verdict
      \/ UNCHANGED <<board, life>>
  <2>1. \A n \in Nodes : Stopper(n) => UNCHANGED <<board, life>>
    BY DEF Stopper, SendStop, StopJob, Join, Overrun
  <2>2. ShutDown \/ UNCHANGED vars => UNCHANGED <<board, life>>
    BY DEF ShutDown, vars
  <2> QED BY <2>1, <2>2, RunMoves
<1> QED BY <1>1, <1>2, <1>3

(* What is below a node that has results below it has results all the way. *)
LEMMA ResultsAllTheWay ==
  ASSUME IInv, QuietInv, NEW t \in Nodes, \A d \in Deps(t) : gen[d] >= 1
  PROVE  \A d \in TransitiveDeps(t) : d \in Nodes /\ gen[d] >= 1
<1> DEFINE Have == {n \in Nodes : gen[n] >= 1}
<1>1. \A n \in Nodes : Deps(n) \subseteq Nodes
  BY PlanIsDag DEF Deps
<1>2. \A n \in Have \cap Nodes : Deps(n) \subseteq Have
  BY <1>1 DEF QuietInv
<1>3. Deps(t) \subseteq Have
  BY <1>1
<1>4. TransitiveDeps(t) \subseteq Have
  <2> HIDE DEF Have
  <2> QED BY <1>2, <1>3, AboveWithin
<1> QED BY <1>4

(* When `--continue` has its answer, no command of a task is running, and  *)
(* what it reports as skipped never ran, provided no service had to be     *)
(* started twice (await_all_tasks).                                        *)
THEOREM SettledRunsAreQuiet == ASSUME KeepGoing PROVE RunSpec => SettledIsQuiet
<1>1. RunSpec => [](IInv /\ RunInv /\ QuietInv)
  <2>1. RunSpec => [](IInv /\ RunInv)
    BY RunInvariance
  <2> QED BY <2>1, InitQuiet, QuietStep, PTL DEF RunSpec
<1>2. IInv /\ RunInv /\ QuietInv /\ [RunNext]_runVars =>
        [verdict = "none" /\ verdict' \in {"ok", "failed"} /\ OnceEach =>
           \A t \in Tasks : proc[t] = "none"]_runVars
  <2> SUFFICES ASSUME IInv, RunInv, QuietInv, RunNext, KeepGoing,
                      verdict = "none", verdict' \in {"ok", "failed"}, OnceEach,
                      NEW t \in Tasks, proc[t] # "none"
               PROVE  FALSE
    OBVIOUS
  <2>0. t \in Nodes /\ Mode(t) /\ TaskRun(t) /\ t \notin Services
    BY EngineAssumption DEF IInv, Modes, RunInv, Services
  <2>1. phase[t] \in {"jobRunning", "rechecking"}
    BY <2>0 DEF Mode, WithChild, ServicePhases
  <2>2. AllSettled
    BY DEF RunNext, Ticks, Wait, Interrupt, Answer, AwaitAllTasks, runVars
  <2>3. status[t] \notin {"done", "failed", "exited"}
    BY <2>0, <2>1 DEF Mode, TaskRun, QuietInv
  <2>4. PICK f \in TransitiveDeps(t) : f \in Tasks /\ status[f] = "failed"
    BY <2>2, <2>3 DEF AllSettled, Blocked, FailedTasks
  <2>5. \A d \in Deps(t) : gen[d] >= 1
    BY <2>0, <2>1 DEF QuietInv, PastGate
  <2>6. gen[f] >= 1 /\ TaskRun(f) /\ gen[f] \in Nat
    BY <2>0, <2>4, <2>5, ResultsAllTheWay DEF RunInv, IInv, TypeOK
  <2>7. gen[f] = 1
    BY <2>6 DEF TaskRun
  <2> QED BY <2>4, <2>6, <2>7 DEF TaskRun
<1> QED BY <1>1, <1>2, PTL DEF RunSpec, SettledIsQuiet
=============================================================================
