----------------------------- MODULE EngineInv -----------------------------
(***************************************************************************)
(* What is true of Engine in every reachable state: the inductive          *)
(* strengthening from which EngineProofs derives the safety properties.    *)
(* It ties each supervisor's phase to what is seen of it from outside: its *)
(* child, the status on the board, its build slot.                         *)
(***************************************************************************)
EXTENDS Engine

WithChild == {"probing", "starting", "running", "checking", "stopExit",
              "stopCycle", "jobRunning", "rechecking"}

(* n's phase fits its kind, its child and its status.                      *)
Mode(n) ==
  /\ phase[n] \in ServicePhases => n \in Services
  /\ phase[n] \in TaskPhases => n \in Tasks
  /\ proc[n] # "none" <=> phase[n] \in WithChild
  /\ phase[n] = "waiting" => Watches(n)
  /\ phase[n] = "checking" => n \in Live
  /\ phase[n] = "rechecking" => n \in Verified
  /\ phase[n] \in {"probing", "starting"} => status[n] = "starting"
  /\ phase[n] \in {"running", "checking"} => status[n] \in {"healthy", "unhealthy"}
  /\ status[n] = "healthy" => n \in Served \/ phase[n] \in {"running", "checking"}
  /\ status[n] = "done" =>
       /\ n \in Tasks
       /\ phase[n] \in {"draining", "halting", "saving", "settled", "parked", "done"}

Modes == \A n \in Nodes : Mode(n)

QueuePhases == {"queued", "jobQueued"}
SlotPhases  == QueuePhases \cup {"probing", "starting", "stopExit", "jobRunning", "saving"}
SlotNeeded  == {"probing", "starting", "jobRunning"}

(* Who has a build slot, who waits for one, and that nobody is both or     *)
(* waits twice.                                                            *)
SlotsInOrder ==
  /\ \A n \in Nodes : /\ n \in holders => phase[n] \in SlotPhases
                      /\ phase[n] \in SlotNeeded => n \in holders
  /\ \A i \in DOMAIN slotQ : phase[slotQ[i]] \in QueuePhases /\ slotQ[i] \notin holders
  /\ \A i, j \in DOMAIN slotQ : slotQ[i] = slotQ[j] => i = j
  /\ Cardinality(holders) <= Slots

(* A wave is stopped after the waves before it, whoever is waited for was   *)
(* told to stop, and who was joined is done.                               *)
StopsInOrder ==
  /\ \A n \in Nodes : stopper[n] = "joined" => phase[n] = "done"
  /\ \A n \in Nodes : stopSent[n] => \A m \in Nodes : StopsBefore(m, n) => Gone(m)
  /\ \A n \in Nodes : /\ stopper[n] # "idle" => stopSent[n]
                      /\ stopper[n] = "check" => n \in Tasks

BeforeResult == {"begin", "draining", "reclaiming", "queued", "probing", "starting",
                 "keying", "jobQueued", "jobRunning", "rechecking"}
PastGate     == {"reclaiming", "queued", "probing", "starting", "running", "checking",
                 "served", "keying", "jobQueued", "jobRunning", "rechecking", "saving",
                 "settled", "parked"}

(* Before the first edit or fault n makes its result once, against the one *)
(* result of each dependency. Afterwards only the shutdown takes it back,  *)
(* and who is told to stop produces nothing any more.                      *)
FirstRun(n) ==
  /\ gen[n] <= 1 /\ misses[n] = 0 /\ restart[n] = "none"
  /\ phase[n] \notin {"backoff", "gaveup"}
  /\ n \in Services => proc[n] # "exited"
  /\ IsReady(status[n]) => gen[n] = 1
  /\ phase[n] \in BeforeResult => gen[n] = 0
  /\ phase[n] \in PastGate \cup {"draining"} => \A d \in Deps(n) : gen[d] = 1
  /\ phase[n] \in PastGate => \A d \in Deps(n) : seen[n][d] = 1
  /\ phase[n] \in {"stopCycle", "halting"} => stopSent[n]
  /\ gen[n] = 1 /\ (phase[n] = "waiting" \/ ~IsReady(status[n])) => stopSent[n]

FirstRuns == budget = Faults => \A n \in Nodes : FirstRun(n)

IInv == TypeOK /\ Modes /\ SlotsInOrder /\ StopsInOrder /\ NoLostWakeup /\ FirstRuns
=============================================================================
