------------------------------ MODULE RunOnce ------------------------------
(***************************************************************************)
(* The one-shot run of `turborust run` (run_once_until in src/engine.rs):  *)
(* the supervision tree without a watcher or anyone to ask for restarts,   *)
(* and a waiter that reads the board until it can answer. An answer, or a  *)
(* stop signal, is followed by the orderly shutdown.                       *)
(*                                                                         *)
(* Every node is the dependency of some task asked for, or is that task.   *)
(***************************************************************************)
EXTENDS EngineInv

CONSTANTS
  KeepGoing,   \* `--continue`
  Signals      \* whether a stop signal may come

ASSUME RunAssumption == KeepGoing \in BOOLEAN /\ Signals \in BOOLEAN

VARIABLES
  news,     \* the board ticked since the waiter marked it
  verdict   \* what the run will exit with: none yet, ok, failed, interrupted

runVars == <<vars, news, verdict>>

RunInit == EngineInit /\ news = TRUE /\ verdict = "none"

FailedTasks == {t \in Tasks : status[t] = "failed"}

(* The services that are not worth waiting for. *)
Dead == {s \in Services : status[s] \in {"failed", "backoff", "unhealthy"}}

Bug_AllDone == \A t \in Tasks : status[t] # "running"   \* a task yet to begin counts as done

AllDone == \A t \in Tasks : status[t] = "done"

(* One look of await_tasks. *)
AwaitTasks ==
  IF FailedTasks # {} \/ Dead # {} THEN "failed" ELSE IF AllDone THEN "ok" ELSE "none"

Bug_Blocked == {t \in Tasks : Deps(t) \cap FailedTasks # {}}   \* direct dependents only

(* What is downstream of a failure, and so counts as skipped.              *)
Blocked == {t \in Tasks : TransitiveDeps(t) \cap FailedTasks # {}}

Bug_AllSettled ==   \* the first failure ends the run
  FailedTasks # {} \/ \A t \in Tasks : status[t] \in {"done", "exited"}

AllSettled == \A t \in Tasks : t \in Blocked \/ status[t] \in {"done", "failed", "exited"}

(* One look of await_all_tasks. *)
AwaitAllTasks ==
  IF ~AllSettled THEN "none" ELSE IF FailedTasks = {} THEN "ok" ELSE "failed"

Answer == IF KeepGoing THEN AwaitAllTasks ELSE AwaitTasks

(* The waiter marks the board, looks, and answers or waits for a tick.     *)
Wait ==
  /\ verdict = "none" /\ news
  /\ news' = FALSE
  /\ verdict' = Answer
  /\ UNCHANGED vars

(* A stop signal, raced against the waiter. *)
Interrupt ==
  /\ Signals /\ verdict = "none"
  /\ verdict' = "interrupted"
  /\ UNCHANGED <<vars, news>>

(* What the waiter does not do leaves its answer, and ticks it by writing  *)
(* the board.                                                              *)
Ticks(A) == A /\ news' = (news \/ <<status, gen>>' # <<status, gen>>) /\ UNCHANGED verdict

Bug_RunEnds == verdict \in {"ok", "failed"} /\ ShutDown   \* an interrupted run just waits

(* run_once_until goes through the full shutdown, whatever ended it.       *)
RunEnds == verdict # "none" /\ ShutDown

(* No watcher, no control socket, no terminal to ask for restarts.         *)
RunStep ==
  \/ \E n \in Nodes :
       \/ Supervise(n) \/ Stopper(n) \/ JobExits(n)
       \/ LivenessDue(n) \/ MissesCheck(n) \/ ProbeFails(n) \/ SpawnFails(n)
       \/ Exits(n) \/ JobErrs(n) \/ JobFails(n)
  \/ RunEnds

RunNext == \/ ~Returned /\ Ticks(RunStep)
           \/ Wait
           \/ Interrupt
           \/ Returned /\ UNCHANGED runVars

RunSpec == RunInit /\ [][RunNext]_runVars

(* As SettlingSpec; and the waiter is polled when the board ticks, and the *)
(* run goes on once it has an answer.                                      *)
FairRunSpec ==
  /\ RunSpec
  /\ \A n \in Nodes : /\ WF_runVars(Ticks(Supervise(n))) /\ WF_runVars(Ticks(Stopper(n)))
                      /\ SF_runVars(Ticks(TakeStop(n)))
                      /\ WF_runVars(Ticks(JobExits(n)))
  /\ WF_runVars(Wait) /\ WF_runVars(Ticks(RunEnds))

RunTypeOK ==
  /\ TypeOK
  /\ news \in BOOLEAN
  /\ verdict \in {"none", "ok", "failed", "interrupted"}

(* No service has had to be started twice so far.                          *)
OnceEach == \A s \in Services : gen[s] <= 1

(* A run that reports success is over, provided no service had to be       *)
(* started twice: by the time it exits each task is done and joined, its    *)
(* result stored and not cut short by the shutdown, and nothing runs but    *)
(* what outlasted its stop timeout.                                        *)
SuccessStands ==
  Returned /\ verdict = "ok" /\ OnceEach =>
    /\ \A t \in Tasks : status[t] = "done" /\ stopper[t] = "joined"
    /\ \A n \in Nodes : proc[n] = "none" \/ stopper[n] = "overran"

(* `--continue` reports once every task has settled (await_all_tasks: a    *)
(* task whose dependency failed will never run): no command of a task is   *)
(* running at that moment, provided no service had to be started twice.    *)
SettledIsQuiet ==
  [][verdict = "none" /\ verdict' \in {"ok", "failed"} /\ OnceEach =>
       \A t \in Tasks : proc[t] = "none"]_runVars

(* A run ends by itself: it never waits for what cannot come any more      *)
(* (await_tasks and await_all_tasks, on what would hang forever).          *)
RunAnswers == <>(verdict # "none")

(* Whatever ended the run, and something does, the tree is taken down and  *)
(* the program exits.                                                      *)
RunReturns == <>Returned
-----------------------------------------------------------------------------
(* src/engine.rs, await_all_tasks: "a task whose dependency failed will    *)
(* never run", and is reported as skipped.                                 *)
SkippedNeverRuns ==
  [][KeepGoing /\ verdict = "none" /\ verdict' = "failed" =>
       \A t \in Blocked : proc[t] = "none"]_runVars
=============================================================================
