------------------------------ MODULE Engine ------------------------------
(***************************************************************************)
(* The supervision tree of `turborust up`: one supervisor per node, the    *)
(* build slots they share, and the orderly shutdown.                       *)
(*                                                                         *)
(* A supervisor is a loop (supervise_service and supervise_task in         *)
(* src/engine.rs): take one event, mark the board seen, snapshot the       *)
(* dependencies, let the machine of src/lifecycle.rs decide, carry out its *)
(* actions. One TLA+ action is one such pass, from an event to the next    *)
(* await; `phase` is the machine's phase, refined by where an await inside *)
(* an action (a slot, a probe, a child being stopped, a task's run) leaves *)
(* the supervisor. Several status writes of one pass are the last of them. *)
(*                                                                         *)
(* Left out here: following a self-reloading process, the lengths of       *)
(* backoffs and timeouts (a timer may fire at any moment), the contents of *)
(* the cache (a hit or a miss is a choice), the forced second stop.        *)
(***************************************************************************)
EXTENDS Board

CONSTANTS
  Tasks,         \* nodes that run to completion; the others are services
  Served,        \* services without a command, hosted in-process
  Ported,        \* services that reclaim a port before starting
  Probed,        \* services with a readiness probe
  Live,          \* services with a liveness probe
  Misses,        \* `failures` of every liveness probe
  Cacheable,     \* tasks that can be served from the cache
  Verified,      \* tasks whose hits are re-run to check them
  OnChange,      \* OnChange[n]: restart, queue, signal or ignore
  Policy,        \* Policy[n]: always, on-change or never
  MaxRestarts,   \* MaxRestarts[n]; unlimited is any number above Faults
  Slots,         \* `concurrency`
  Faults         \* bound on edits, crashes, failures and probe retries

Services == Nodes \ Tasks

ASSUME EngineAssumption ==
  /\ Tasks \subseteq Nodes
  /\ Served \subseteq Services
  /\ Ported \subseteq Services /\ Probed \subseteq Services
  /\ Live \subseteq Services
  /\ Misses \in Nat \ {0}
  /\ Verified \subseteq Cacheable /\ Cacheable \subseteq Tasks
  /\ OnChange \in [Nodes -> {"restart", "queue", "signal", "ignore"}]
  /\ Policy \in [Nodes -> {"always", "on-change", "never"}]
  /\ MaxRestarts \in [Nodes -> Nat]
  /\ Slots \in Nat \ {0}
  /\ Faults \in Nat

VARIABLES
  phase,         \* phase[n]: where n's supervisor stands
  seen,          \* seen[n]: the generations n's current cycle runs against
  crashes,       \* crashes[n]: crash restarts in a row
  misses,        \* misses[n]: liveness checks missed in a row
  proc,          \* proc[n]: n's child process
  holders,       \* nodes that hold a build slot
  slotQ,         \* nodes waiting for a build slot, first come first served
  restart,       \* restart[n]: Restart messages waiting in n's control queue
  stopSent,      \* stopSent[n]: a Stop was sent to n
  shuttingDown,  \* shutdown() has begun
  stopper,       \* stopper[n]: where stop_one(n) stands
  budget         \* faults and edits still to come

life     == <<phase, seen, crashes, misses>>
slots    == <<holders, slotQ>>
down     == <<shuttingDown, stopper>>
vars     == <<board, life, proc, slots, restart, stopSent, down, budget>>

ServicePhases == {"reclaiming", "queued", "probing", "starting", "running",
                  "checking", "stopExit", "stopCycle", "backoff", "gaveup",
                  "served"}
TaskPhases == {"keying", "jobQueued", "jobRunning", "rechecking", "saving",
               "settled"}
SharedPhases == {"begin", "waiting", "draining", "halting", "parked", "done"}
Phases == ServicePhases \cup TaskPhases \cup SharedPhases

EngineInit ==
  /\ BoardInit
  /\ phase = [n \in Nodes |-> "begin"]
  /\ seen = [n \in Nodes |-> [d \in Nodes |-> 0]]
  /\ crashes = [n \in Nodes |-> 0]
  /\ misses = [n \in Nodes |-> 0]
  /\ proc = [n \in Nodes |-> "none"]
  /\ holders = {}
  /\ slotQ = <<>>
  /\ restart = [n \in Nodes |-> "none"]
  /\ stopSent = [n \in Nodes |-> FALSE]
  /\ shuttingDown = FALSE
  /\ stopper = [n \in Nodes |-> "idle"]
  /\ budget = Faults

(***************************************************************************)
(* One pass: marking the board, writing a status, reading the mail.        *)
(***************************************************************************)

(* The pass writes s; the board was marked seen before.                    *)
Set(n, s) == Publish(n, s, Looked(n))

(* The pass ends on s, which no dependency can use, after it showed another *)
(* status or a different one: that ticks, and after the mark.              *)
SetAnew(n, s) ==
  /\ status' = [status EXCEPT ![n] = s]
  /\ unseen' = Ticked
  /\ UNCHANGED gen

(* A status written from inside run_task, between two passes.              *)
SetInRun(n, s) == Publish(n, s, unseen)

(* The pass writes no status.                                              *)
Look(n) == unseen' = Looked(n) /\ UNCHANGED <<status, gen>>

To(n, p) == phase' = [phase EXCEPT ![n] = p]

(* The phases in which the supervisor sits in next_event.                  *)
Awaiting(n) == phase[n] \in {"waiting", "starting", "running", "backoff",
                             "parked", "gaveup", "served"}

(* recv takes what is queued in priority order, so a Stop first; but a     *)
(* Restart that woke a parked recv races a Stop that follows it.           *)
TakesStop(n)    == Awaiting(n) /\ stopSent[n]
TakesRestart(n) == /\ Awaiting(n)
                   /\ restart[n] = "woke" \/ (restart[n] = "queued" /\ ~stopSent[n])
TakesBoard(n)   == Awaiting(n) /\ unseen[n]

(* Deps::moved_since and Service::dependency_moved.                        *)
MovedSince(n) == \E d \in Deps(n) : gen[d] # seen[n][d]

DependencyMoved(n) == Unready(n) # {} \/ MovedSince(n)

(* The policy a Restart meets: `queue` protects a startup only, `ignore`   *)
(* and `signal` leave the process alone; so does reload = "self", which    *)
(* to a Restart is the same as ignore. Anywhere else it starts a cycle.    *)
HeedsRestart(n) ==
  CASE phase[n] = "starting" -> OnChange[n] = "restart"
    [] phase[n] = "running"  -> OnChange[n] \in {"restart", "queue"}
    [] OTHER                 -> TRUE

HeedsBoard(n) ==
  \/ phase[n] = "waiting"
  \/ phase[n] \in {"starting", "running"} /\ DependencyMoved(n)
  \/ phase[n] \in {"parked", "gaveup", "served"} /\ MovedSince(n)

(* Restart messages of one node are alike: those queued count as one.      *)
Kept(n)     == IF restart[n] = "woke" THEN "queued" ELSE restart[n]
Mail(n, m)  == restart' = [restart EXCEPT ![n] = m]

(* What makes a waiting supervisor move; m is the mail that remains.       *)
Woken(n, m) == \/ TakesRestart(n) /\ HeedsRestart(n) /\ m = "none"
               \/ TakesBoard(n) /\ HeedsBoard(n) /\ m = Kept(n)

(* An event that changes nothing but has the board marked seen.            *)
Ignores(n) ==
  /\ \/ TakesRestart(n) /\ ~HeedsRestart(n) /\ Mail(n, "none")
     \/ TakesBoard(n) /\ ~HeedsBoard(n) /\ Mail(n, Kept(n))
  /\ Look(n)
  /\ UNCHANGED <<life, proc, slots, stopSent, down, budget>>

(***************************************************************************)
(* Build slots: a fair semaphore.                                          *)
(***************************************************************************)

Bug_SlotFree == Cardinality(holders) <= Slots   \* one permit too many

SlotFree == Cardinality(holders) < Slots

(* Engine::acquire_slot, called by n at the end of a pass (marks: the      *)
(* unseen marks before it). Without a free permit n shows as queued.       *)
Acquire(n, marks) ==
  IF SlotFree
  THEN /\ holders' = holders \cup {n}
       /\ unseen' = marks
       /\ UNCHANGED <<slotQ, status, gen>>
  ELSE /\ slotQ' = Append(slotQ, n)
       /\ Publish(n, "queued", marks)
       /\ UNCHANGED holders

Bug_Release(n) ==   \* the permit is lost when somebody waits for it
  /\ holders' = holders \ {n}
  /\ slotQ' = slotQ

(* Dropping n's permit, if it has one: the first waiter gets it.           *)
Release(n) ==
  IF n \in holders /\ slotQ # <<>>
  THEN /\ holders' = (holders \ {n}) \cup {Head(slotQ)}
       /\ slotQ' = Tail(slotQ)
  ELSE /\ holders' = holders \ {n}
       /\ UNCHANGED slotQ

(***************************************************************************)
(* The start of a cycle, shared by services and tasks (Gate).              *)
(***************************************************************************)

(* DrainControl: what was queued is dropped, and a Stop is not missed.     *)
Drain(n) == IF stopSent[n] THEN "halting" ELSE "draining"

(* Gate::Waiting on any event but a Stop; m is the mail it was left with.  *)
Gate(n, m) ==
  IF Unready(n) # {}
  THEN Set(n, FirstUnready(n)) /\ To(n, "waiting") /\ Mail(n, m)
  ELSE Look(n) /\ To(n, Drain(n)) /\ Mail(n, "none")

(* The first pass of a supervisor, on Event::Begin.                        *)
Begin(n) ==
  /\ phase[n] = "begin"
  /\ Gate(n, restart[n])
  /\ UNCHANGED <<seen, crashes, misses, proc, slots, stopSent, down, budget>>

(* A node without a process looks at its gate again: one that waits, is    *)
(* parked, gave up, is hosted in-process or backs off. Asking afresh       *)
(* forgives the crashes behind a backoff or a give-up.                     *)
Cycles(n) ==
  /\ phase[n] \in {"waiting", "parked", "gaveup", "served", "backoff"}
  /\ \E m \in {"none", "queued"} : Woken(n, m) /\ Gate(n, m)
  /\ crashes' = IF phase[n] \in {"gaveup", "backoff"}
                THEN [crashes EXCEPT ![n] = 0] ELSE crashes
  /\ UNCHANGED <<seen, misses, proc, slots, stopSent, down, budget>>

(* A Stop found by the drain, or read while waiting or backing off.        *)
Halts(n) ==
  /\ \/ phase[n] = "halting"
     \/ phase[n] \in {"waiting", "backoff"} /\ TakesStop(n)
  /\ Set(n, "stopped")
  /\ To(n, "done")
  /\ Mail(n, Kept(n))
  /\ UNCHANGED <<seen, crashes, misses, proc, slots, stopSent, down, budget>>

Bug_Open(n) == seen' = seen   \* the generations are not noted

(* Gate::Open: the cycle runs against the generations of this snapshot,    *)
(* whether or not every dependency is still ready in it.                   *)
Open(n) == seen' = [seen EXCEPT ![n] = Generations(n)]

(* Service::after_gate.                                                    *)
ServiceOpens(n) ==
  /\ phase[n] = "draining" /\ n \in Services
  /\ Open(n)
  /\ \/ /\ n \in Served
        /\ To(n, "served") /\ Set(n, "healthy") /\ UNCHANGED slots
     \/ /\ n \in Ported \ Served
        /\ To(n, "reclaiming") /\ Look(n) /\ UNCHANGED slots
     \/ /\ n \notin Ported \cup Served
        /\ To(n, "queued") /\ Acquire(n, Looked(n))
  /\ UNCHANGED <<crashes, misses, proc, restart, stopSent, down, budget>>

(***************************************************************************)
(* A service from its slot to its exit.                                    *)
(***************************************************************************)

PortReclaimed(n) ==
  /\ phase[n] = "reclaiming"
  /\ To(n, "queued")
  /\ Acquire(n, Looked(n))
  /\ UNCHANGED <<seen, crashes, misses, proc, restart, stopSent, down, budget>>

(* SlotAcquired and Spawned, two passes with no await between them. A      *)
(* probed service goes straight into its first probe.                      *)
Spawn(n) ==
  /\ phase[n] = "queued" /\ n \in holders
  /\ proc' = [proc EXCEPT ![n] = "alive"]
  /\ misses' = [misses EXCEPT ![n] = 0]
  /\ IF n \in Probed
     THEN /\ status' = [status EXCEPT ![n] = "starting"]
          /\ unseen' = [Ticked EXCEPT ![n] = FALSE]
          /\ To(n, "probing")
          /\ UNCHANGED <<gen, slots>>
     ELSE Set(n, "healthy") /\ To(n, "running") /\ Release(n)
  /\ UNCHANGED <<seen, crashes, restart, stopSent, down, budget>>

Bug_Exhausted(n, restarts) == restarts > MaxRestarts[n]

(* Crashes::exhausted.                                                     *)
Exhausted(n, restarts) == restarts >= MaxRestarts[n]

(* Gives up, or backs off: what a crash after `restarts` in a row earns.   *)
CrashLoop(n, restarts, shown) ==
  IF Exhausted(n, restarts)
  THEN /\ To(n, "gaveup") /\ SetAnew(n, "failed")
       /\ crashes' = [crashes EXCEPT ![n] = restarts]
  ELSE /\ To(n, "backoff") /\ SetAnew(n, shown)
       /\ crashes' = [crashes EXCEPT ![n] = restarts + 1]

(* Service::spawn_failed, after the pass that showed Starting.             *)
SpawnFails(n) ==
  /\ phase[n] = "queued" /\ n \in holders
  /\ budget > 0 /\ budget' = budget - 1
  /\ IF Policy[n] = "never"
     THEN To(n, "done") /\ SetAnew(n, "failed") /\ UNCHANGED crashes
     ELSE CrashLoop(n, crashes[n], "failed")
  /\ Release(n)
  /\ UNCHANGED <<seen, misses, proc, restart, stopSent, down>>

(* Readiness reached (Healthy) or given up on (Unhealthy); the slot is free *)
(* either way.                                                             *)
BecameReady(n, s) ==
  /\ Set(n, s)
  /\ To(n, "running")
  /\ Release(n)

ProbePasses(n) ==
  /\ phase[n] = "probing"
  /\ BecameReady(n, "healthy")
  /\ UNCHANGED <<seen, crashes, misses, proc, restart, stopSent, down, budget>>

(* A failed probe is tried again until the deadline.                       *)
ProbeFails(n) ==
  /\ phase[n] = "probing"
  /\ budget > 0 /\ budget' = budget - 1
  /\ \/ To(n, "starting") /\ Look(n) /\ UNCHANGED slots
     \/ BecameReady(n, "unhealthy")
  /\ UNCHANGED <<seen, crashes, misses, proc, restart, stopSent, down>>

ProbeAgain(n) ==
  /\ phase[n] = "starting"
  /\ To(n, "probing")
  /\ Look(n) /\ Mail(n, Kept(n))
  /\ UNCHANGED <<seen, crashes, misses, proc, slots, stopSent, down, budget>>

(* The child of a service ends by itself. *)
Exits(n) ==
  /\ n \in Services /\ proc[n] = "alive"
  /\ budget > 0 /\ budget' = budget - 1
  /\ proc' = [proc EXCEPT ![n] = "exited"]
  /\ UNCHANGED <<board, life, slots, restart, stopSent, down>>

(* Service::exited, and before readiness also not_ready, which frees the   *)
(* slot first. A run longer than backoff_max was not part of a crash loop. *)
Exited(n) ==
  /\ phase[n] \in {"starting", "running"} /\ proc[n] = "exited"
  /\ proc' = [proc EXCEPT ![n] = "none"]
  /\ IF Policy[n] = "always"
     THEN \E settled \in BOOLEAN :
            CrashLoop(n, IF settled THEN 0 ELSE crashes[n], "backoff")
     ELSE /\ \E s \in {"exited", "failed"} : Set(n, s)
          /\ To(n, "parked")
          /\ UNCHANGED crashes
  /\ Release(n)
  /\ Mail(n, Kept(n))
  /\ UNCHANGED <<seen, misses, stopSent, down, budget>>

(***************************************************************************)
(* A living service: its dependencies, its mail, its liveness probe.       *)
(***************************************************************************)

Bug_Stopping(n) == Look(n)   \* the status it had stays while it is stopped

(* A node being stopped for a restart says so first.                       *)
Stopping(n) == Set(n, "stopping")

(* Service::interrupt_startup.                                             *)
InterruptStartup(n) ==
  /\ phase[n] = "starting"
  /\ \E m \in {"none", "queued"} : Woken(n, m) /\ Mail(n, m)
  /\ Stopping(n)
  /\ To(n, "stopCycle")
  /\ Release(n)
  /\ UNCHANGED <<seen, crashes, misses, proc, stopSent, down, budget>>

RestartRunning(n) ==
  /\ Stopping(n)
  /\ To(n, "stopCycle")
  /\ crashes' = [crashes EXCEPT ![n] = 0]

RunningRestarts(n) ==
  /\ phase[n] = "running"
  /\ \E m \in {"none", "queued"} : Woken(n, m) /\ Mail(n, m)
  /\ RestartRunning(n)
  /\ UNCHANGED <<seen, misses, proc, slots, stopSent, down, budget>>

(* The liveness timer: the probe runs inside the pass.                     *)
LivenessDue(n) ==
  /\ phase[n] = "running" /\ n \in Live
  /\ To(n, "checking")
  /\ Look(n) /\ Mail(n, Kept(n))
  /\ UNCHANGED <<seen, crashes, misses, proc, slots, stopSent, down, budget>>

(* It put the node out of ready, so it may put it back.                    *)
TookDown(n) == misses[n] = Misses

Answers(n) ==
  /\ phase[n] = "checking"
  /\ To(n, "running")
  /\ misses' = [misses EXCEPT ![n] = 0]
  /\ IF TookDown(n) THEN Set(n, "healthy") ELSE Look(n)
  /\ UNCHANGED <<seen, crashes, proc, slots, restart, stopSent, down, budget>>

(* Misses beyond the limit change nothing and are not counted.             *)
MissesCheck(n) ==
  /\ phase[n] = "checking"
  /\ budget > 0 /\ budget' = budget - 1
  /\ misses' = [misses EXCEPT ![n] = IF TookDown(n) THEN @ ELSE @ + 1]
  /\ IF misses[n] + 1 # Misses
     THEN To(n, "running") /\ Look(n) /\ UNCHANGED crashes
     ELSE IF Policy[n] = "always"
          THEN RestartRunning(n)
          ELSE To(n, "running") /\ Set(n, "unhealthy") /\ UNCHANGED crashes
  /\ UNCHANGED <<seen, proc, slots, restart, stopSent, down>>

Bug_StopAlive(n) == /\ To(n, "done")   \* leaves without stopping its child
                    /\ Set(n, "stopped")

(* Event::Stop of a service with a child. *)
StopAlive(n) == /\ To(n, "stopExit")
                /\ Set(n, "stopped")

TakeStop(n) ==
  /\ phase[n] \in {"starting", "running"} /\ TakesStop(n)
  /\ StopAlive(n)
  /\ Mail(n, Kept(n))
  /\ UNCHANGED <<seen, crashes, misses, proc, slots, stopSent, down, budget>>

(* The child and its group are gone. A supervisor that ends drops its slot. *)
ChildStopped(n) ==
  /\ phase[n] \in {"stopExit", "stopCycle"}
  /\ proc' = [proc EXCEPT ![n] = "none"]
  /\ \/ /\ phase[n] = "stopExit"
        /\ To(n, "done") /\ Look(n) /\ Release(n) /\ UNCHANGED restart
     \/ /\ phase[n] = "stopCycle"
        /\ Gate(n, restart[n]) /\ UNCHANGED slots
  /\ UNCHANGED <<seen, crashes, misses, stopSent, down, budget>>

BackoffOver(n) ==
  /\ phase[n] = "backoff"
  /\ Gate(n, Kept(n))
  /\ UNCHANGED <<seen, crashes, misses, proc, slots, stopSent, down, budget>>

(* Parked, given up or hosted in-process, a Stop ends the supervisor and   *)
(* leaves the status as it was.                                            *)
LeaveParked(n) ==
  /\ phase[n] \in {"parked", "gaveup", "served"} /\ TakesStop(n)
  /\ To(n, "done")
  /\ Look(n) /\ Mail(n, Kept(n))
  /\ UNCHANGED <<seen, crashes, misses, proc, slots, stopSent, down, budget>>

(***************************************************************************)
(* A task: its run is one action of one pass, awaited to the end.          *)
(***************************************************************************)

(* Running is shown before the cache is asked, so that dependents stop.    *)
TaskOpens(n) ==
  /\ phase[n] = "draining" /\ n \in Tasks
  /\ Open(n)
  /\ Set(n, "running")
  /\ To(n, "keying")
  /\ UNCHANGED <<crashes, misses, proc, slots, restart, stopSent, down, budget>>

(* run_task up to its cache: a hit is replayed, or re-run to verify it.    *)
Hits(n) ==
  /\ phase[n] = "keying" /\ n \in Cacheable
  /\ \/ /\ SetInRun(n, "done") /\ To(n, "settled") /\ UNCHANGED proc
     \/ /\ n \in Verified
        /\ proc' = [proc EXCEPT ![n] = "alive"]
        /\ To(n, "rechecking") /\ UNCHANGED board
  /\ UNCHANGED <<seen, crashes, misses, slots, restart, stopSent, down, budget>>

MissesCache(n) ==
  /\ phase[n] = "keying"
  /\ To(n, "jobQueued")
  /\ Acquire(n, unseen)
  /\ UNCHANGED <<seen, crashes, misses, proc, restart, stopSent, down, budget>>

JobSpawns(n) ==
  /\ phase[n] = "jobQueued" /\ n \in holders
  /\ SetInRun(n, "running")
  /\ proc' = [proc EXCEPT ![n] = "alive"]
  /\ To(n, "jobRunning")
  /\ UNCHANGED <<seen, crashes, misses, slots, restart, stopSent, down, budget>>

(* No key can be taken, or the command cannot be spawned: run_task returns *)
(* an error, dropping its slot, and the supervisor marks the task failed.  *)
JobErrs(n) ==
  /\ \/ phase[n] = "keying"
     \/ phase[n] = "jobQueued" /\ n \in holders
  /\ budget > 0 /\ budget' = budget - 1
  /\ SetInRun(n, "failed")
  /\ To(n, "settled")
  /\ Release(n)
  /\ UNCHANGED <<seen, crashes, misses, proc, restart, stopSent, down>>

(* The child of a task ends, by itself or at its `timeout`.                *)
JobExits(n) ==
  /\ n \in Tasks /\ proc[n] = "alive"
  /\ proc' = [proc EXCEPT ![n] = "exited"]
  /\ UNCHANGED <<board, life, slots, restart, stopSent, down, budget>>

(* Done is shown while the slot is held and the result is not yet stored.  *)
JobSucceeds(n) ==
  /\ phase[n] = "jobRunning" /\ proc[n] = "exited"
  /\ SetInRun(n, "done")
  /\ proc' = [proc EXCEPT ![n] = "none"]
  /\ To(n, "saving")
  /\ UNCHANGED <<seen, crashes, misses, slots, restart, stopSent, down, budget>>

JobStores(n) ==
  /\ phase[n] = "saving"
  /\ To(n, "settled")
  /\ Release(n)
  /\ UNCHANGED <<board, seen, crashes, misses, proc, restart, stopSent, down, budget>>

(* A job ended by the shutdown is not a failure of its own; one that hit   *)
(* its time limit always is.                                               *)
JobFails(n) ==
  /\ phase[n] = "jobRunning" /\ proc[n] = "exited"
  /\ \/ shuttingDown /\ SetInRun(n, "stopped") /\ UNCHANGED budget
     \/ /\ SetInRun(n, "failed")
        /\ budget > 0 /\ budget' = budget - 1
  /\ proc' = [proc EXCEPT ![n] = "none"]
  /\ To(n, "settled")
  /\ Release(n)
  /\ UNCHANGED <<seen, crashes, misses, restart, stopSent, down>>

(* The re-run of a verified hit reproduces the outputs, or it does not.    *)
Rechecked(n) ==
  /\ phase[n] = "rechecking" /\ proc[n] = "exited"
  /\ \/ SetInRun(n, "done") /\ UNCHANGED budget
     \/ /\ SetInRun(n, "failed")
        /\ IF shuttingDown THEN UNCHANGED budget
           ELSE budget > 0 /\ budget' = budget - 1
  /\ proc' = [proc EXCEPT ![n] = "none"]
  /\ To(n, "settled")
  /\ UNCHANGED <<seen, crashes, misses, slots, restart, stopSent, down>>

(* Event::JobDone: the board is marked seen, and the task parks.           *)
JobDone(n) ==
  /\ phase[n] = "settled"
  /\ To(n, "parked")
  /\ Look(n)
  /\ UNCHANGED <<seen, crashes, misses, proc, slots, restart, stopSent, down, budget>>

(***************************************************************************)
(* Restarts from outside, and the shutdown.                                *)
(***************************************************************************)

(* Sender::send of a Restart: refused once a Stop is in flight.            *)
SendRestart(ns) ==
  restart' = [n \in Nodes |->
                IF n \notin ns \/ stopSent[n] \/ phase[n] = "done" THEN restart[n]
                ELSE IF Awaiting(n) THEN "woke" ELSE "queued"]

(* A change on disk that matched `hits`, or a restart asked for one node.  *)
FilesChange ==
  /\ ~shuttingDown
  /\ budget > 0 /\ budget' = budget - 1
  /\ \E hits \in SUBSET Nodes : hits # {} /\ SendRestart(DispatchRoots(hits))
  /\ UNCHANGED <<board, life, proc, slots, stopSent, down>>

AskRestart(n) ==
  /\ budget > 0 /\ budget' = budget - 1
  /\ SendRestart({n})
  /\ UNCHANGED <<board, life, proc, slots, stopSent, down>>

ShutDown ==
  /\ ~shuttingDown
  /\ shuttingDown' = TRUE
  /\ UNCHANGED <<board, life, proc, slots, restart, stopSent, stopper, budget>>

Gone(n) == stopper[n] \in {"joined", "overran"}

(* shutdown: a wave is stopped once all earlier waves are gone.            *)
SendStop(n) ==
  /\ shuttingDown /\ stopper[n] = "idle"
  /\ \A m \in Nodes : StopsBefore(m, n) => Gone(m)
  /\ stopSent' = [stopSent EXCEPT ![n] = TRUE]
  /\ stopper' = [stopper EXCEPT ![n] = IF n \in Tasks THEN "check" ELSE "join"]
  /\ UNCHANGED <<board, life, proc, slots, restart, shuttingDown, budget>>

(* stop_one looks once for a task's published child, and ends it.          *)
StopJob(n) ==
  /\ stopper[n] = "check"
  /\ stopper' = [stopper EXCEPT ![n] = "join"]
  /\ proc' = IF proc[n] = "alive" THEN [proc EXCEPT ![n] = "exited"] ELSE proc
  /\ UNCHANGED <<board, life, slots, restart, stopSent, shuttingDown, budget>>

(* The supervisor's join handle, not a status that looks final.            *)
Finished(n) == phase[n] = "done"

Join(n) ==
  /\ stopper[n] = "join" /\ Finished(n)
  /\ stopper' = [stopper EXCEPT ![n] = "joined"]
  /\ UNCHANGED <<board, life, proc, slots, restart, stopSent, shuttingDown, budget>>

Bug_Overrun(n) ==   \* no limit on a command that started after the check
  /\ stopper[n] = "join"
  /\ phase[n] \in {"queued", "jobQueued"} /\ n \notin holders
  /\ stopper' = [stopper EXCEPT ![n] = "overran"]
  /\ UNCHANGED <<board, life, proc, slots, restart, stopSent, shuttingDown, budget>>

(* A supervisor that waits for what has no time limit (a slot, a task's    *)
(* child) can outlast its node's stop timeout; anything else it waits for  *)
(* is taken to end in time.                                                *)
Overrun(n) ==
  /\ stopper[n] = "join"
  /\ \/ phase[n] \in {"queued", "jobQueued"} /\ n \notin holders
     \/ phase[n] \in {"jobRunning", "rechecking"} /\ proc[n] = "alive"
  /\ stopper' = [stopper EXCEPT ![n] = "overran"]
  /\ UNCHANGED <<board, life, proc, slots, restart, stopSent, shuttingDown, budget>>

(* shutdown has returned, and the program exits.                           *)
Returned == shuttingDown /\ \A n \in Nodes : Gone(n)

(***************************************************************************)
(* The whole.                                                              *)
(***************************************************************************)

(* What n's supervisor does when nothing goes wrong. *)
Supervise(n) ==
  \/ Begin(n) \/ Cycles(n) \/ Halts(n) \/ Ignores(n)
  \/ ServiceOpens(n) \/ PortReclaimed(n) \/ Spawn(n)
  \/ ProbePasses(n) \/ ProbeAgain(n) \/ Exited(n)
  \/ InterruptStartup(n) \/ RunningRestarts(n) \/ Answers(n)
  \/ TakeStop(n) \/ ChildStopped(n) \/ BackoffOver(n) \/ LeaveParked(n)
  \/ TaskOpens(n) \/ Hits(n) \/ MissesCache(n) \/ JobSpawns(n)
  \/ JobSucceeds(n) \/ JobStores(n) \/ Rechecked(n) \/ JobDone(n)

Stopper(n) == SendStop(n) \/ StopJob(n) \/ Join(n) \/ Overrun(n)

(* What nobody promises will happen. *)
Environment(n) ==
  \/ LivenessDue(n) \/ MissesCheck(n) \/ ProbeFails(n) \/ SpawnFails(n)
  \/ Exits(n) \/ JobErrs(n) \/ JobFails(n) \/ AskRestart(n)

Step == \/ \E n \in Nodes : Supervise(n) \/ Stopper(n) \/ Environment(n) \/ JobExits(n)
        \/ FilesChange
        \/ ShutDown

Next == \/ ~Returned /\ Step
        \/ Returned /\ UNCHANGED vars

Spec == EngineInit /\ [][Next]_vars

(* The runtime polls every supervisor that can move, probes and port waits *)
(* end, a stopped child dies, and stop_one's timeout fires. recv looks for *)
(* a Stop first each time it is called, so liveness checks that keep       *)
(* coming cannot keep a Stop from being read.                              *)
FairSpec ==
  /\ Spec
  /\ \A n \in Nodes : /\ WF_vars(Supervise(n)) /\ WF_vars(Stopper(n))
                      /\ SF_vars(TakeStop(n))

(* And every task's command ends. *)
SettlingSpec == FairSpec /\ \A n \in Nodes : WF_vars(JobExits(n))

(***************************************************************************)
(* Properties.                                                             *)
(***************************************************************************)

TypeOK ==
  /\ status \in [Nodes -> Statuses]
  /\ gen \in [Nodes -> Nat]
  /\ unseen \in [Nodes -> BOOLEAN]
  /\ phase \in [Nodes -> Phases]
  /\ seen \in [Nodes -> [Nodes -> Nat]]
  /\ crashes \in [Nodes -> Nat] /\ \A n \in Nodes : crashes[n] <= MaxRestarts[n]
  /\ misses \in [Nodes -> 0..Misses]
  /\ proc \in [Nodes -> {"none", "alive", "exited"}]
  /\ holders \subseteq Nodes
  /\ slotQ \in Seq(Nodes)
  /\ restart \in [Nodes -> {"none", "queued", "woke"}]
  /\ stopSent \in [Nodes -> BOOLEAN]
  /\ shuttingDown \in BOOLEAN
  /\ stopper \in [Nodes -> {"idle", "check", "join", "joined", "overran"}]
  /\ budget \in 0..Faults

(* Nodes whose child is building: a service until it is ready, a task's    *)
(* command, a hit being re-run to verify it.                               *)
Building == {n \in Nodes : /\ proc[n] = "alive"
                           /\ phase[n] \in {"probing", "starting", "jobRunning",
                                            "rechecking"}}

(* "Concurrency" is a limit on building (README, Build parallelism): never *)
(* more children build than there are slots, whatever is restarted,        *)
(* interrupted, stopped or given up on meanwhile.                          *)
BuildLimit == Cardinality(Building) <= Slots

(* Readiness is read from status alone (Status::is_ready), so a status     *)
(* that reads ready must never be left behind: a healthy service has its   *)
(* process and is not on its way down, a done task is not running again.   *)
ReadyIsTrue ==
  \A n \in Nodes :
    /\ status[n] = "healthy" =>
         n \in Served \/ (phase[n] \in {"running", "checking"} /\ proc[n] # "none")
    /\ status[n] = "done" =>
         /\ proc[n] = "none"
         /\ phase[n] \in {"draining", "halting", "saving", "settled", "parked", "done"}

(* What n waits for has come: a gate that would open, a process run        *)
(* against a dependency that is gone or has a newer result.                *)
Overdue(n) ==
  LET ready == \A d \in Deps(n) : status[d] \in {"healthy", "done"}
      old   == \E d \in Deps(n) : gen[d] # seen[n][d]
  IN  \/ phase[n] = "waiting" /\ ready
      \/ phase[n] \in {"running", "checking"} /\ (old \/ ~ready)
      \/ phase[n] \in {"parked", "gaveup", "served"} /\ old

(* Services whose passes while running all look at their dependencies: no  *)
(* liveness probe, and no Restart is passed over.                          *)
Attentive == {n \in Services \ Live : OnChange[n] \in {"restart", "queue"}}

(* Level-triggered supervision (engine.rs, module comment): a service that *)
(* has something to do about its dependencies has a tick to wake it. The   *)
(* mark taken before each snapshot never swallows the last one.            *)
NoLostWakeup == \A n \in Attentive : Overdue(n) => unseen[n]

(* shutdown waits for supervisors, not for statuses: one that was joined   *)
(* left no process, no slot and no place in the queue behind.              *)
JoinedIsGone ==
  \A n \in Nodes : stopper[n] = "joined" =>
    /\ proc[n] = "none" /\ n \notin holders
    /\ \A i \in DOMAIN slotQ : slotQ[i] # n

(* Reverse dependency order: when a node is told to stop, the process of   *)
(* each of its dependents is gone, unless that one outlasted its timeout.  *)
StopOrder ==
  \A n \in Nodes : \A d \in Dependents(n) :
    stopSent[n] => proc[d] = "none" \/ stopper[d] = "overran"

(* No edit, no fault, no run but the first: starting up, in whatever order *)
(* the supervisors get to run, no node produces a second result because of *)
(* a tick for what it already ran against (cairn 0036, 0038).              *)
OneResultEach == budget = Faults => \A n \in Nodes : gen[n] <= 1

(* One edit is one restart (engine.rs, spawn_watch_dispatch): each edit or *)
(* fault costs a node at most one more result.                             *)
OneEditOneRun == \A n \in Nodes : gen[n] <= 1 + (Faults - budget)

(* on_change = "queue" lets a startup finish before acting (config.rs): a  *)
(* change that arrives meanwhile is still there afterwards.                *)
QueuedChangeKept ==
  [][\A n \in Services :
       /\ OnChange[n] = "queue" /\ restart[n] # "none"
       /\ phase[n] = "starting" /\ phase'[n] = "starting"
       => restart'[n] # "none"]_vars

(* "Stop every node": nothing runs when shutdown has returned (README,     *)
(* Stopping).                                                              *)
NothingLeft == Returned => \A n \in Nodes : proc[n] = "none"

(* A shutdown ends, whatever its nodes are doing.                          *)
ShutdownEnds == shuttingDown ~> Returned

(* n has come to rest, on current dependencies. *)
Settled(n) ==
  /\ phase[n] \in {"waiting", "running", "checking", "parked", "gaveup", "served", "done"}
  /\ phase[n] # "done" => ~Overdue(n)

(* Once edits and faults stop, the tree settles: nobody waits for a slot,  *)
(* a probe or an edge that never comes, and nothing runs against an old    *)
(* result.                                                                 *)
Converges == <>[](shuttingDown \/ \A n \in Nodes : Settled(n))

(* The same where commands need not end, if they do.                       *)
CommandsEnd == \A n \in Nodes : WF_vars(JobExits(n))

ConvergesOnceCommandsEnd == CommandsEnd => Converges
=============================================================================
