------------------------------- MODULE Procs -------------------------------
(***************************************************************************)
(* The process group of one task's child, and those who end it             *)
(* (src/proc.rs: spawn_with, stop, kill_now, group_alive; src/engine.rs:   *)
(* wait_limited, kill_all, stop_one; src/signals.rs: watch; src/main.rs:   *)
(* stop_requests).                                                         *)
(*                                                                         *)
(* The leader is the shell turborust starts; the rest of the group is what *)
(* it starts. A run over its limit and a shutdown each stop the group      *)
(* politely; a second stop request kills it and exits.                     *)
(***************************************************************************)
EXTENDS Naturals, FiniteSets

CONSTANTS
  Kids,         \* what the leader may start, and they in turn
  MaxRequests   \* bounds the stop requests that arrive

Leader == "leader"
Members == Kids \cup {Leader}
Stoppers == {"limit", "shutdown"}

VARIABLES
  group,     \* group[m]: "none", "runs", "zombie" (the leader, unreaped), "gone"
  deaf,      \* the members that ignore SIGTERM
  termed,    \* the members SIGTERM has reached and that have not died of it yet
  reaped,    \* the exit code is known: `exited` resolves
  run,       \* of the task: "idle", "spawned" (not yet published), "waiting", "over"
  published, \* the handle is in Engine.handles
  stop,      \* stop[s]: "idle", "asked", "group", "done"
  graceOver, \* graceOver[s]: the grace of that stop has passed
  requests,  \* how many stop requests have arrived
  begun,     \* Stop.begun: a shutdown has begun
  told,      \* the first request has been handed on
  force,     \* "no", "kills", "exits", "gone": turborust on a further request
  caught     \* the forced kill found the handle published

groupVars  == <<group, deaf, termed, reaped>>
signalVars == <<requests, begun, told, force, caught>>
procVars   == <<groupVars, run, published, stop, graceOver, signalVars>>

ProcInit ==
  /\ group = [m \in Members |-> "none"] /\ deaf \in SUBSET Members
  /\ termed = {} /\ reaped = FALSE /\ run = "idle" /\ published = FALSE
  /\ stop = [s \in Stoppers |-> "idle"] /\ graceOver = [s \in Stoppers |-> FALSE]
  /\ requests = 0 /\ begun = FALSE /\ told = FALSE /\ force = "no" /\ caught = FALSE

(* group_alive: a zombie does not count.                                   *)
Alive(g) == {m \in Members : g[m] = "runs"}
DeadAs(m) == IF m = Leader THEN "zombie" ELSE "gone"

-----------------------------------------------------------------------------
(* The processes: they start others, end by themselves, or of a SIGTERM.   *)
Forks(m, k) ==
  /\ group[m] = "runs" /\ m \notin termed /\ group[k] = "none"
  /\ group' = [group EXCEPT ![k] = "runs"]
  /\ UNCHANGED <<deaf, termed, reaped, run, published, stop, graceOver, signalVars>>

Exits(m) ==
  /\ group[m] = "runs"
  /\ group' = [group EXCEPT ![m] = DeadAs(m)]
  /\ termed' = termed \ {m}
  /\ UNCHANGED <<deaf, reaped, run, published, stop, graceOver, signalVars>>

Reaps ==
  /\ group[Leader] = "zombie" /\ ~reaped
  /\ reaped' = TRUE /\ group' = [group EXCEPT ![Leader] = "gone"]
  /\ UNCHANGED <<deaf, termed, run, published, stop, graceOver, signalVars>>

-----------------------------------------------------------------------------
(* run_task: the child is started, then published, then waited for, with a *)
(* limit; when it is over the handle is forgotten.                         *)
Spawns ==
  /\ run = "idle" /\ run' = "spawned"
  /\ group' = [group EXCEPT ![Leader] = "runs"]
  /\ UNCHANGED <<deaf, termed, reaped, published, stop, graceOver, signalVars>>

Registers ==
  /\ run = "spawned" /\ run' = "waiting" /\ published' = TRUE
  /\ UNCHANGED <<groupVars, stop, graceOver, signalVars>>

SeesExit ==
  /\ run = "waiting" /\ reaped /\ stop["limit"] \in {"idle", "done"}
  /\ run' = "over" /\ published' = FALSE
  /\ UNCHANGED <<groupVars, stop, graceOver, signalVars>>

-----------------------------------------------------------------------------
(* Handle::stop, and who calls it: wait_limited when the limit passes, and *)
(* stop_one, for a task, if it finds a handle.                             *)
May(s) == IF s = "limit" THEN run = "waiting" ELSE begun /\ published

AsksToStop(s) ==
  /\ stop[s] = "idle" /\ May(s)
  /\ stop' = [stop EXCEPT ![s] = "asked"]
  /\ termed' = termed \cup (Alive(group) \ deaf)
  /\ UNCHANGED <<group, deaf, reaped, run, published, graceOver, signalVars>>

GracePasses(s) ==
  /\ stop[s] \in {"asked", "group"} /\ ~graceOver[s]
  /\ graceOver' = [graceOver EXCEPT ![s] = TRUE]
  /\ UNCHANGED <<groupVars, run, published, stop, signalVars>>

(* kill_now: the whole group, at once.                                     *)
Bug_KillNow ==   \* Child::kill, which reaches the shell only
  /\ group' = [group EXCEPT ![Leader] = IF @ = "runs" THEN "zombie" ELSE @]
  /\ termed' = termed \ {Leader}

KillNow ==
  /\ group' = [m \in Members |-> IF group[m] = "runs" THEN DeadAs(m) ELSE group[m]]
  /\ termed' = {}

LeaderGone(s) ==
  /\ stop[s] = "asked" /\ reaped
  /\ stop' = [stop EXCEPT ![s] = "group"]
  /\ UNCHANGED <<groupVars, run, published, graceOver, signalVars>>

GroupGone(s) ==
  /\ stop[s] = "group" /\ Alive(group) = {}
  /\ stop' = [stop EXCEPT ![s] = "done"]
  /\ UNCHANGED <<groupVars, run, published, graceOver, signalVars>>

Bug_Escalates(s) ==   \* the loop that waits for the group has no deadline
  /\ graceOver[s] /\ stop[s] = "asked" /\ ~reaped
  /\ stop' = [stop EXCEPT ![s] = "done"]
  /\ KillNow
  /\ UNCHANGED <<deaf, reaped, run, published, graceOver, signalVars>>

Escalates(s) ==
  /\ graceOver[s] /\ ((stop[s] = "asked" /\ ~reaped) \/ (stop[s] = "group" /\ Alive(group) # {}))
  /\ stop' = [stop EXCEPT ![s] = "done"]
  /\ KillNow
  /\ UNCHANGED <<deaf, reaped, run, published, graceOver, signalVars>>

-----------------------------------------------------------------------------
(* signals::watch: the first request goes to whoever waits for it; any     *)
(* after a shutdown has begun is forced. Quitting the dashboard, or a run  *)
(* that finishes, begins one too.                                          *)
Requested ==
  /\ requests < MaxRequests /\ force = "no"
  /\ requests' = requests + 1
  /\ IF begun THEN force' = "kills" /\ UNCHANGED <<begun, told>>
              ELSE begun' = TRUE /\ told' = TRUE /\ UNCHANGED force
  /\ UNCHANGED <<groupVars, run, published, stop, graceOver, caught>>

Quits ==
  /\ ~begun /\ begun' = TRUE
  /\ UNCHANGED <<groupVars, run, published, stop, graceOver, requests, told, force, caught>>

(* kill_all, for the handles that are published; then exit.                *)
KillsAll ==
  /\ force = "kills" /\ force' = "exits" /\ caught' = published
  /\ IF published THEN KillNow ELSE UNCHANGED <<group, termed>>
  /\ UNCHANGED <<deaf, reaped, run, published, stop, graceOver, requests, begun, told>>

ProcessExits ==
  /\ force = "exits" /\ force' = "gone"
  /\ UNCHANGED <<groupVars, run, published, stop, graceOver, requests, begun, told, caught>>

StopStep(s) == LeaderGone(s) \/ GroupGone(s) \/ Escalates(s)

ProcNext ==
  \/ \E m \in Members : Exits(m) \/ \E k \in Kids : Forks(m, k)
  \/ /\ force # "gone"
     /\ \/ Reaps \/ Spawns \/ Registers \/ SeesExit
        \/ \E s \in Stoppers : AsksToStop(s) \/ GracePasses(s) \/ StopStep(s)
        \/ Requested \/ Quits \/ KillsAll \/ ProcessExits

(* Time passes, and turborust runs.                                        *)
ProcFair ==
  /\ WF_procVars(force # "gone" /\ Reaps)
  /\ \A s \in Stoppers : WF_procVars(force # "gone" /\ GracePasses(s))
                      /\ WF_procVars(force # "gone" /\ StopStep(s))

ProcSpec == ProcInit /\ [][ProcNext]_procVars /\ ProcFair

-----------------------------------------------------------------------------
(* Stopped means the whole group, whoever stopped it and whatever it       *)
(* ignores: so does killed, when the handle was there to be found.         *)
StoppedMeansGone ==
  (\E s \in Stoppers : stop[s] = "done") \/ (force \in {"exits", "gone"} /\ caught)
    => Alive(group) = {}

(* A stop comes back, unless turborust is killed meanwhile.                *)
StopReturns ==
  \A s \in Stoppers : stop[s] = "asked" ~> (stop[s] = "done" \/ force = "gone")

(* A forced exit leaves nothing running.                                   *)
ForcedLeavesNone == force = "gone" => Alive(group) = {}
=============================================================================
