# A verification project for turborust

turborust runs the services and tasks of a workspace under one supervision tree
(`turborust up`, `turborust run`): it starts nodes in dependency order, restarts
them when files or dependencies change, replays tasks from a build cache, limits
how many nodes build at once, and stops everything in reverse dependency order.
The modules here model that tree and the parts around it in TLA+. TLC checks them
on small instances and TLAPS proves the main safety properties for every value of
the constants. `PROJECT.json` maps each definition to the lines it models. Files
named below are those of `src/`.

## 1. The system

| component | state | operations | interacts with | modules |
|---|---|---|---|---|
| Configuration, selection (`config.rs`, `plan.rs`, `filter.rs`, `affected.rs`, `cargo.rs`) | none once loaded | validate, resolve, order, filter | gives the plan | `Resolve`, `Select` |
| Plan (`plan.rs`) | nodes, `depends_on`, dependents | `transitive_deps`, `dispatch_roots`, `stop_waves` | read by supervisors, watcher, shutdown | `Plan` |
| Board (`engine.rs` `set`, `dep_view`; `state.rs` `apply`) | status and generation of each node, a version counter | `set`, `dep_view`, a receiver's mark | written by supervisors and `run_task`, read by dependents, `run` and every view | `Board`, `BoardTicks`, `Notices` |
| Lifecycle machines (`lifecycle.rs`) | phase, generations seen, crashes, backoff, liveness misses, reload counters | `Service::on`, `Task::on` | pure: events in, actions out | `Engine`, `SelfReload`, `CrashLoop` |
| Supervisors and build slots (`engine.rs`) | child, slot, timers, queued events | `supervise_service`, `supervise_task`, `next_event`, `acquire_slot` | one tokio task per node around its machine | `Engine` |
| Control queue (`ctl.rs`) | an urgent and a normal channel, the `stopping` flag | `send`, `recv`, `drain_stale` | watcher, socket, TUI and shutdown to supervisors | `Ctl`, `Mailbox` |
| Cache (`cache.rs`, `run_task`) | records and archives by key, markers of use, stamps, a shared store | `fingerprint`, `load`, `restore`, `archive`, `store`, `sweep`, `recheck`, push and pull | tasks; other processes on the same stores | `TaskCache`, `ChildEnv` |
| Shutdown (`engine.rs` `shutdown`, `stop_one`; `signals.rs`) | waves, join handles | first request: orderly stop; next: `kill_all` and exit | Stops to supervisors, ends children | `Engine`, `Procs`, `Up` |
| One-shot run (`run_once_until`) | none of its own | `await_tasks`, `await_all_tasks` | watches the board, then shuts down | `RunOnce` |
| Watcher (`watch.rs`, `spawn_watch_dispatch`) | a debounced batch, a poller's snapshot | debounce, match, dispatch | Restarts to the dispatch roots | `Watch` |
| Processes (`proc.rs`) | child, group, pty, reader threads | spawn, stop, kill, exited | supervisors, signals | `Procs`, `Session`, `OutputLog` |
| Output (`proc.rs` pump, `state.rs` `LogStore`, `output.rs`, `serve.rs`) | event queue, bounded lines, held-back groups | emit, report, follow, drain | every reader of a log | `OutputLog` |
| History (`state.rs`) | bounded facts over a base | `record`, `push`, `project` | every view of a run | `History` |
| Control socket (`control.rs`) | one socket file per workspace, one attach slot per node | serve, reclaim, attach | clients, other `up`s | `Up`, `Session` |
| Proxy, TUI, MCP, reports | presentation | rendering | read the state, ask for restarts | not modelled |

What is hard here is concurrency without messages. A dependency is not announced
to its dependents; each supervisor marks the board seen, reads a snapshot and
decides, and sleeps until the board ticks again. Much of a supervisor's work
happens inside a pass that awaits (a slot, a probe, a port, a stopping child, a
whole task run), during which it hears nothing. Around the tree, several
processes share directories without locks: task caches, a socket path, a process
group. Correctness means:

- *Board*: no dependent sleeps through what it has to act on; readiness is never
  shown by a node that is not ready.
- *Machines and supervisors*: a node runs only against results it has looked at,
  runs again once per change, restarts at most as often as allowed, and its
  status follows a rebuild it does by itself.
- *Slots*: never more builders than slots, nobody waits for ever, no slot lost.
- *Control queue and shutdown*: a Stop wins over any Restart, dependents go
  first, shutdown ends, and nothing of a stopped group is left running.
- *Watcher*: no edit is lost on its way to the runs it causes, and editing that
  stops is followed by runs that stop.
- *Cache*: a hit reproduces what the key stands for, whoever stored it and
  whatever is evicted, replaced, pulled or killed meanwhile; the key covers the
  environment the child sees.
- *Output and sessions*: every line and every key once, in order, none missing
  at the end.
- *History*: the summary and the kept entries are together the whole history.
- *Configuration*: what contradicts itself or would be ignored is refused.

`PROJECT.json` lists the hazards at their lines, with the properties aimed at
each.

## 2. The modules

| module | what it is |
|---|---|
| `Plan` | the graph: dependencies, dispatch roots, stop waves |
| `Board` | status, generation and unseen tick of each node; `Publish` is `Engine::set` |
| `Engine` | the supervision tree of `up`: one action per pass of a supervisor, the slots, the control mail, dispatch and shutdown |
| `RunOnce` | `turborust run`: `Engine` without a watcher, and the waiter that ends it |
| `Notices` | what the board promises those who read it: a write wakes at once, a look is one step |
| `BoardTicks` | the board one lock, one mark and one tick at a time; implements `Notices` |
| `Mailbox` | what a node's control queue promises |
| `Ctl` | one node's control queue, one channel or flag operation at a time; implements `Mailbox` |
| `CrashLoop` | the limit and the delays of a service that crashes |
| `SelfReload` | a service that rebuilds itself, followed by lines of its output |
| `Watch` | from an edit through backend, debouncer, handler and dispatcher to the runs |
| `Procs` | a task's process group and those who end it: limit, shutdown, forced kill, reaper |
| `Session` | terminals attached to a node's pty: broadcast, replay, frames, the detach keys |
| `OutputLog` | lines from a child's pty to the log store, the reporter and a follower; the end of a run |
| `History` | facts recorded and summarised |
| `TaskCache` | `run_task` over the local and the shared store, in several processes |
| `ChildEnv` | what a child finds in its environment, and what its task's key says of it |
| `Select` | order and cycles, filters, affected nodes, targets |
| `Resolve` | which declarations of a service are accepted, and what each setting does |
| `Up` | `turborust up` from start to end, and the socket file several of them share |
| `EngineInv`, `CtlInv` | the inductive invariants `IInv` and `CtlIInv` |
| `MCEngine`, `MCRunOnce`, `MCTaskCache`, `MCWatch` | instances for TLC |
| `MCParts`, `MCLive` | instances of the parts that share no state, one part per behaviour |
| `NaturalLemmas` | a set of naturals has a least member and a family of finite sets a smallest one, which stand in for induction; sums over finite sets |
| `PlanProofs` | proofs (TLAPS) about the graph |
| `EngineProofs`, `RunProofs` | proofs about the tree and about one-shot runs |
| `CacheProofs` | proofs about `TaskCache` |
| `CtlProofs` | proofs about `Ctl` and `BoardTicks`, which implement `Mailbox` and `Notices`, and about `Watch` |
| `LifecycleProofs` | proofs about `CrashLoop`, `SelfReload`, `Procs`, `ChildEnv` and `History` |
| `ControlProofs` | proofs about `Up`, `Session` and `OutputLog` |

`Plan`, `Board` and `Engine` extend one another: `Board` asks the graph for a
node's dependencies, `Engine` writes the board through `Publish` and nothing
else. `RunOnce` extends `Engine`: its steps are those of the supervisors, of the
processes and of the shutdown, each under `Ticks`, which tells the waiter that the
board was written. The other modules look inside what `Engine` does in one step
(`Ctl`: the mail; `BoardTicks`: the
board; `TaskCache`: `jobRunning` to `settled`; `Procs`: `stopExit`;
`SelfReload`: `running`; `CrashLoop`: `backoff`; `Watch`: a Restart), or stand at
its edges. They share no variable with one another, so a behaviour of several at
once shows nothing that behaviours of one do not, and `MCParts` and `MCLive`
choose the part in the initial state and leave the rest where it began.

### State and code

| variables | in the code |
|---|---|
| `status`, `gen` | `NodeState::status`, `NodeState::generation`; the status `Waiting(d)` is the node `d` itself |
| `unseen[n]` | the board's version differs from what n's `watch::Receiver` has marked |
| `phase[n]` | `Phase` / `TaskPhase` / `Gate`, refined by the await a pass is in (below) |
| `seen`, `crashes`, `misses` | `Service::seen` / `Task::seen`, `Crashes::restarts`, `Alive::misses` |
| `proc[n]` | n's child: none, alive, exited but not yet noticed |
| `holders`, `slotQ` | the permits out and the semaphore's waiters, in order |
| `restart[n]`, `stopSent[n]` | n's normal channel (alike messages count as one) and its urgent channel with the `stopping` flag |
| `shuttingDown`, `stopper[n]` | `shutdown`'s flag and the future `stop_one(n)` |
| `budget` | a bound of the model: edits, crashes, failures and failed probes still to come |

One action is one pass of a supervisor's loop: it takes an event, marks the board
(`Looked`), snapshots the dependencies, and does what the machine answers, up to
the next await. The events an action queues for itself (`Spawned`,
`SlotAcquired`) follow without an await when nothing has to be waited for, and are
part of it. The phases that only exist because of an await are `queued` and
`jobQueued` (`acquire_slot`), `reclaiming` (`reclaim_port`), `probing` and
`checking` (a probe), `stopExit` and `stopCycle` (`h.stop(grace)`), `keying`,
`jobRunning`, `rechecking`, `saving` and `settled` (inside `run_task`), and
`draining` / `halting` (the event `Drained` in the queue: other tasks may run in
between). Several statuses written in one pass are the last of them; where a pass
writes one and ends on another it ticks in any case (`SetAnew`). Two passes
without an await between them may be interleaved with other threads in the
program and are one action here only where the statuses they write are merged in
this way.

In `Engine` the control queue is abstract: `restart[n]` is `none`, `queued`, or `woke` for a
Restart that ended a parked `recv`. A parked `recv` is a `select!` between both
channels, so a Restart that woke it can still be taken after a Stop came in
(`TakesRestart`); every other `recv` prefers the Stop. `SendRestart` refuses once
a Stop is in flight.

`RunOnce` adds `news` (the waiter's unseen tick) and `verdict` (the exit code, as
none yet, ok, failed or interrupted). One look of `await_tasks` or
`await_all_tasks` is `Wait`: mark, snapshot under the state's lock, answer. Where
a pass shows two statuses, the waiter sees the last.

`Ctl` has the two channels (`urgent`, `normal`, as counts of like messages), the
flag (`stopping`), the sends under way (`stopSend`, `sender`) and the place in
`recv` or `drain_stale` (`rcv`), which follows the code load by load. Around them
is just enough of the supervisor to give both a meaning: a Restart or another
event ends the running cycle (`gated`), the gate of the next may wait, drains the
queue, and opens. `late` and `owed` are history.

`Ctl` implements `Mailbox` with `asked` as `owed`, `open` as `~gated`, and `stop`
read off the send's progress and the supervisor's exit; everything else a thread
does is a stutter.

`BoardTicks` has where each supervisor, and the waiter of a one-shot run, stands
between two waits (`step`): it has marked the board, has its snapshot (`view`), or
has written and given back the lock without having ticked yet. It implements
`Notices` with a look as owed from a write on, before its tick; a tick that is
late causes a look that finds nothing new, which `Engine` leaves out. That a pass
also acts in the step in which it looks is `Engine`'s own abstraction: for what
happens to the node in between there is the unseen tick.

`TaskCache` has one action per step of `run_task` that another process can come
between: key, load, pull, replay, spawn, success, clear, archive and stamp
(`Publishes`), record, each drop of a sweep, push. A directory of a store is a
function by key; a copy between the stores takes two steps, and what is under the
entry's own name between them is `Torn`. An archive that cannot be made, or is too
large, leaves a record that says so. `Edits`, `Ends` (a process killed anywhere),
`Fails`, a forced run and an archive of a `Flaky` task that is not made are the
faults. `ideal` is history: what the command would have made when the key was
taken.

`Watch` keeps an edit as a path through sets: `unscanned` (poller), `raw`
(debouncer's channel), `bundle`, `batches` (dispatcher's channel), `noted`, and
what each node has yet to run for (`stale`, history). `SelfReload` has the
`ReloadCounters` (`cnt`) that the reader writes, and the supervisor's `rebuild`,
which is judged with the counters it read before its probe (`looked`). `Procs`
has each process of the group, who asked for a stop and how far each is.
`Session` and `OutputLog` number chunks and lines; the text is left out. In
`Session` the reader thread sends a chunk and keeps it in two steps, a session
listens and takes its replay in two, and a frame crosses the socket in three
pieces. Both ends drop a read that loses its `select!`: `torn` and `smeared` say
that the session, or the client, no longer begins where a frame does. What it
makes of the rest is `Misreads`, or left open. `sent` is what the client has sent
of what was `typed`. In
`Select`, `ChildEnv` and `Resolve` nothing moves: every question is an initial
state, and the code's functions are compared with definitions that do not share
their structure.

Data left out: the text of reasons and logs, exit codes, the lengths of time (any
timer may fire while it is set; only `CrashLoop` counts delays), and in `Engine`
what is in the cache (a hit is a choice).

## 3. The runs

Deadlock is checked where a state without a successor would be wrong: in `core`,
`settles` and `once` (other than "shutdown has returned"), and in `live` for the
control queue. `keepgoing` has no stop signals, so a run that waits for nothing is
a state without a successor; its `RunAnswers` says more than that there is none.
The parts of `parts` end when their bounds are reached.

| run | question | states |
|---|---|---|
| `core` | A task `t`, a probed service `a` on it, a port-reclaiming, queueing service `b` on both; one slot, two faults, a shutdown at any moment. Safety. | 406,250 |
| `settles` | A task `t`, a service `l` with both probes that changes leave alone, a port-reclaiming, queueing service `b` on both; one slot, one fault. A shutdown ends, although commands need not; if they do, the tree comes to rest on current dependencies. | 52,883 |
| `once` | `run` of two tasks, one verified, on a probed service with a liveness check that restarts without limit; one fault, a signal at any moment. | 83,506 |
| `keepgoing` | `run --continue` with two faults: a task, an in-process service on it, a task on that, and a task apart; two slots. | 11,126 |
| `live` | The parts that must make progress: `Ctl`, `Procs`, `SelfReload`, `Watch`, `BoardTicks`. | 76,955 |
| `parts` | `TaskCache`, `Session`, `OutputLog`, `History`, `CrashLoop`, `Select`, `ChildEnv`, `Up`, `Resolve`. | 931,237 |
| `stale_task`, `orphan`, `exits`, `poisoned`, `swallowed`, `half_copied` | each refutes one statement of the code's own documentation (section 5) | |

### Properties

The tree (`core`, `settles`):

- `BuildLimit`: children that build never outnumber the slots.
- `ReadyIsTrue`: `Healthy` and `Done` are never left behind by a node that went
  down or runs again.
- `NoLostWakeup`: a service with something to do about its dependencies has an
  unseen tick. It is stated for services whose passes while running all look at
  the board; the end of a task's run (run `stale_task`) and the return of a liveness
  probe are the passes that do not.
- `JoinedIsGone`: a joined supervisor left no child, slot or queue entry.
- `StopOrder`: when a node is told to stop, its dependents' processes are gone,
  unless one outlasted its timeout.
- `OneResultEach`: starting up, nobody runs twice for one result.
- `IInv`: the inductive invariant of section 4, types and crash limits included.
- `ShutdownEnds`: a shutdown, once begun, returns.
- `ConvergesOnceCommandsEnd`: without a shutdown, once edits and faults are over,
  every node is for ever at rest and none is overdue, provided that every
  command ends. `Converges`, its conclusion, is what `stale_task` refutes for a
  task on a task.

One-shot runs (`once`, `keepgoing`):

- `RunAnswers` (`keepgoing`), `RunReturns` (`once`): a one-shot run comes to an
  answer by itself, and whatever ended it the tree is taken down.
- `SuccessStands`: after a run that reported success, every task is done and
  joined and nothing runs but what outlasted its stop timeout. Its premise is that
  no service was started twice (`OnceEach`): a service that comes back makes its
  dependents run again, and the waiter may read their old `Done` just before. A
  service may outlast its timeout even then (section 5, after 2), a task may not.
- `SettledIsQuiet`: `--continue` reports when no task's command is running, under
  the same premise; without it, `SkippedNeverRuns` in `RunOnce` fails (section 5).

Parts with liveness (`live`):

- `CtlIInv`, with `StopIsThere` (until the supervisor exits, a queued Stop is in
  its channel or noted by the drain under way) and `RestartKept` (an accepted
  Restart is queued or covered by a cycle that has not opened yet) as conjuncts.
- `PassesAreAtomic`: `BoardTicks` implements `Notices!NoticeSpec`: to those who
  act on it, a write and its tick, a mark and its snapshot are one step each, and
  every write is looked at, if passes end. And who waits with nothing unseen acts
  on what is shown, but for nodes whose tick is on its way (`SleepsInformed`).
- `NothingInFront`: a receive begun with the Stop queued returns no Restart, and a
  drain begun then opens no cycle.
- `KeepsPromise`: `Ctl` implements `Mailbox!MailSpec`: no cycle opens after a
  heard Stop, a cycle answers every earlier Restart, and a Stop is heard though
  other events keep coming.
- `StoppedMeansGone`, `StopReturns`: after a stop, or a forced kill that found the
  handle, no member of the group runs, whatever it ignores or forks; and a stop
  comes back.
- `StatusAgrees`, `ReloadFollowed`: the status shows how a rebuild stands, and
  what the output said last is what the node becomes.
- `NoEditLost`, `EditsHeard`: an edit nobody has run for is somewhere on its way
  to a node that is coming; every edit is followed by a run begun after it; when
  editing stops, so do the runs.

Parts without (`parts`):

- `CopyReproduces`: a hit that restored a copy leaves what the command would have
  made of the inputs its key was taken from, with two processes, eviction,
  verification, the shared store and kills in between.
- `ArchivesWhole`: no archive a record vouches for is half written or another's.
- `StampTrue`: what a dependent folds into its key as a task's outputs is what it
  will read, though `Done` is shown before the outputs are archived.
- `OvershootCounted`: the store exceeds its budget by no more than what is still
  to be swept, was pulled, or was written by processes that ended unswept.
- `OneTerminal`: the attach slot is taken exactly while one session holds it.
- `InputIntact`: the child reads each key typed for it once, in order, however the
  reads of the keyboard divide what is typed, and nothing of a detach sequence. The
  one exception is a lead too many, where the read that detaches finds one pending:
  it was sent with the read before. It says nothing of a session from the drop of a
  read in the middle of a frame on.
- `OutputIntact`: a client is sent a replay and then what is broadcast, each in
  order and each chunk once, whatever the reader thread does while it attaches.
  The replay reaches what was kept when the session began to listen; what follows
  begins with the chunk after the last one that had been broadcast then, and has
  no gap unless the client lagged. So none is missing but a chunk the reader
  thread had sent and not kept at that moment, and none comes twice but those
  printed between listening and replay.
- `GroupWhole`, `FollowedOnce`, `RunShowsAll`: a process reported as exited has
  had all its lines shown, in order, and nothing after them but the notice of its
  death; a follower misses no line the store still has
  and gets none twice; a run that has ended has shown everything.
- `HistoryWhole`: a replay from base and kept facts gives every node's present
  life.
- `CrashLoopBounded`: delays double from the shortest to the longest, and a
  service is given up after exactly the restarts it is allowed.
- `SelectionRight`: a plan is refused exactly for a cycle, is ordered and
  complete; `--affected` covers exactly what was built from a change; no filter
  selects what none asks for, and each selects what it names and what that
  reaches, except by going on from nodes that earlier ones ask for. The selection
  is the union that the documentation promises where all dots are on one side and
  patterns without dots come last; elsewhere it need not be (section 5).
- `EnvKeyed`: two runs that share a key see the same variable, whichever of inline
  value, env files, target directory and ambient environment gives it.
- `UpAnswers`: an `up` that opened its socket alone is found at the path and is not
  turned away by what a killed one left.
- `SettingsHeard`: every setting of a service with a command either changes what
  the supervisor does or is refused.

### Bounds

Three nodes are the smallest graph with a diamond's hazard (a node that depends on
another both directly and through a third), with a chain of three, and with more
nodes than slots. One slot makes every slot wait happen; two are used where a wait
would hide the question. `Faults` bounds edits, restarts asked for, crashes, failed
probes, failed spawns and failed runs together: two allow a fault during the
recovery from another, which is what the safety properties are about; a temporal
run has one or two. Generations are bounded by it. No state constraint is used.
The one-shot runs need a dependent that is blocked without naming what failed, and
a task that has nothing to do with it.

| part | bound | why it suffices |
|---|---|---|
| `Ctl` | two senders, `MaxSends = 4` | one passes the flag while the other is refused; the queue fills again after a drain |
| `BoardTicks` | a service on a task, `MaxWrites = 3` | two writes between a mark and the next; the same result twice; the proof is for any number |
| `Procs` | a leader and one child of it, `MaxRequests = 2` | a group outlives its leader; the second request is the forced one |
| `SelfReload` | `MaxSaid = 3` lines, `MissLimit = 2` | reload, failure and ready in any order; misses below and at the limit |
| `Watch` | two files, one in a folder, two nodes, `QueueCap = 1` | a node hit with and without its dependency; a directory reported for a file; a full queue |
| `TaskCache` | two processes on one task whose archive may fail, a chain of two tasks, or an oversized task; two inputs; `Budget = 1`; `MaxFaults = 2` | eviction of another's entry; a stamp in a key; switching an input back; a kill during the recovery from an edit; a record without an archive |
| `Session` | two clients (alike), `Scrollback` and `Backlog` of 1, `MaxSteps = 3` chunks, reads and starts of the child together; a read is a lead, a `d`, a key and the sequence, or a doubled lead and a `d` | contention, a respawn under a session, lagging, a chunk between listening and replay, a sequence split after a key or after the lead; the proofs are for any reads and bounds |
| `OutputLog` | two processes, three lines, `LogCap = 2`, `LogPage = 1` | a store that drops while it is paged; lines out of order |
| `History` | two nodes, `HistoryCap = 2`, `MaxFacts = 4` | facts folded of both nodes |
| `CrashLoop` | delays 2 to 7, `MaxCrashes = 4` | the doubling meets its cap off a power of two before the limit |
| `Select` | all graphs of three nodes; two patterns of any names, three of one name each | cycles of each length, diamonds, overlapping filters, a walk that a third pattern finds cut off |
| `ChildEnv` | an optional and a required env file, two values, all roles | precedence, a missing file; values are only compared |
| `Up` | two terminals | one killed, one starting; the proof is for any number |
| `Resolve` | every declaration | finite |

### Assumptions that are switched on

Each is a constant, so that it can be taken away; what then breaks is in section 5.

- `Calm` (`TaskCache`): a task's inputs do not change from the taking of its key to
  the end of its command. `poisoned` has it off.
- `WholeCopies`: a copy between the stores neither fails nor is interrupted, and
  no other task is at the entry, or about to drop it, while it is made. The code has
  nothing that sees to this; `half_copied` has it off, without a single fault.
- `Patient` (`OutputLog`): `OUTPUT_GRACE` and `drain_output`'s bound do not cut a
  wait short.

### Fairness

`FairSpec` of `Engine` assumes that the runtime polls every supervisor that can
move, that probes and port waits end (they have timeouts), that a stopped child
dies (SIGKILL after the grace period) and that `stop_one`'s timeout fires: weak
fairness of `Supervise(n)` and `Stopper(n)`. `TakeStop(n)` has strong fairness:
`recv` tries the urgent channel first each time, and liveness checks that keep
coming leave `recv` only for a moment. Nothing is assumed about edits, crashes,
failures, liveness timers or how long a task's command runs. That commands end is
a premise of `ConvergesOnceCommandsEnd` (`CommandsEnd`), and of the specification
`SettlingSpec` of the run `stale_task`. `FairRunSpec` is the same for the
supervisors and adds that the waiter is polled when the board ticks; nothing is
assumed about stop signals.

`BoardTicks` has weak fairness of each step of a pass and of waking for an unseen
tick: a pass ends, its command included; nothing is assumed of writes.
`Ctl` has weak fairness of the supervisor as a whole: which of several ready
branches a `select!` takes is left open. `Procs` assumes that the reaper thread
runs, the grace passes and `stop` is polled, as long as turborust lives; nothing
of the processes. `Watch` assumes that its threads run, that `LONGEST_BATCH`
passes, that commands end, and that no event waits in the channel for ever
(strong fairness, since the channel is a queue and the model keeps it as a set).
`SelfReload` assumes that looks and checks come round, that the rebuild's
deadline passes, and that a probe which may pass again and again does so at some
time. `LiveSpec` asserts the fairness of all parts; those not chosen stand where
nothing of theirs that is fair is enabled, or are kept out by `part` in the
formula.

### Mutants

Each property of each passing run is broken by a plausible bug, which stands
before the definition it changes as `Bug_` and its name, with a comment that says
what is wrong: among them a permit too many (`Bug_SlotFree`), a tick only when
readiness flips (`Bug_Publish`), one wave for all (`Bug_StopsBefore`), a replay
that is taken before the session listens (`Bug_Listening`), a tick for those only who wait (`Bug_Sends`), an
interrupted run that is not taken down (`Bug_RunEnds`), the flag raised before the
Stop is queued (`Bug_SendStop`), a key without dependencies (`Bug_Fingerprint`),
an archive written in place (`Bug_Clears`), an exit reported before its output
(`Bug_Reports`), a kill of the leader alone (`Bug_KillNow`), a wait for the group
without a deadline (`Bug_Escalates`), reads taken for changes (`Bug_Read`), a file
taken for a running `up` (`Bug_Looks`), a key without env files (`Bug_EnvKey`).

## 4. The proofs

TLAPS checks these for all values of the constants that satisfy the named
assumptions of the modules (`PlanIsDag`, `StatusNamesApart`, `EngineAssumption`,
`RunAssumption`, `CtlAssumption`, `WatchAssumption`, `CacheAssumption`,
`CrashAssumption`, `HistoryAssumption`, `EnvAssumption`, `UpAssumption`,
`SessionAssumption`, `TickAssumption`). Where a theorem needs more, it says so
after `ASSUME`, and each such hypothesis is one of the switches of section 3 or is
explained below.

### The graph

`PlanProofs` shows that the recursions of the stop waves and of the transitive
dependencies are well defined on any finite graph without cycles (`WaveUnfolds`,
`AboveUnfolds`, from the ranking in `PlanIsDag`), that every dependent of a node
is in an earlier wave (`DependentsStopFirst`), and that a set closed under
dependencies contains all that its members reach (`AboveWithin`). The argument is
the least counterexample by rank (`LeastNatural`): the library's induction rules
cannot be instantiated here.

### The tree

| theorem of `EngineProofs` | property |
|---|---|
| `Invariance` | `Spec => []IInv` |
| `TypeCorrect` | `TypeOK`, which includes that no crash count exceeds its limit |
| `ReadinessIsTrue` | `ReadyIsTrue` |
| `WakeupsAreKept` | `NoLostWakeup` |
| `OneResultForEach` | `OneResultEach` |
| `JoinedAreGone` | `JoinedIsGone` |
| `StopsAreOrdered` | `StopOrder` |
| `BuildsAreLimited` | `BuildLimit`, assuming `Verified = {}`: the re-run of a verified cache hit takes no slot (section 5) |

None of the properties but the types is inductive: what is seen of a node from
outside (child, status, slot) says nothing about what its supervisor will do
next. `IInv` ties them to the phase:

- `Modes`: in which phases a node has a child, may read ready, may wait;
- `SlotsInOrder`: in which phases a node holds or waits for a slot, that nobody
  does both or waits twice, and that the slots suffice;
- `StopsInOrder`: a node was told to stop only after all earlier waves were
  gone, and who was joined is done;
- `NoLostWakeup`, which given `Modes` is inductive: a pass of one node that
  makes another overdue publishes a new status or a new result and so ticks
  (`OthersWoken`), and a pass that marks its own node seen leaves it not overdue;
- `FirstRuns`: before the first edit or fault, a node past its gate runs against
  the one result of each dependency and has made none of its own, so that no
  later look finds a dependency moved; what takes a result back is the shutdown,
  and who is told to stop opens no gate again.

The conjuncts are proved preserved one after the other (`TypeStep`, `ModesStep`,
`SlotsStep`, `StopsStep`, `WakeupStep`, `FirstStep`), one step per action.
`Building` children hold slots by `SlotsInOrder`, and a finite set with fewer
holders than slots gives `BuildLimit`; `StopOrder` combines `StopsInOrder` with
`DependentsStopFirst`.

### One-shot runs

`RunProofs` first shows that a run is an execution of the tree (`RunIsTree`), so
that `IInv` and everything above holds of it. `RunInv` (`RunInvariance`) adds what
the waiter relies on: nobody asks for restarts, what reads ready has a result, the
shutdown waits for the answer, and, while no service has been started twice, each
task has at most one result, rests on it, and ran against the only result of each
dependency (`TaskRun`). `SuccessesStand` proves `SuccessStands` from it.
`SettledRunsAreQuiet` proves `SettledIsQuiet`, assuming `KeepGoing`: with
`QuietInv`, a node past its gate has a result below it everywhere
(`ResultsAllTheWay`, by `AboveWithin`), and a task that failed has none, so no
task that a failure blocks can be running.

### The board

`TicksImplementNotices` is the refinement that lets `Engine` take a write with its
tick, and a mark with its snapshot, as one step, for any supervisors and any
dependencies: a look is owed from the write on (`TicksAreNotices`), and the tick
that follows changes nothing more. `SleepersAreInformed` proves `SleepsInformed`;
its invariant (`Informed`) says the same of every place in a pass but one, the
step between the mark and the snapshot, where a party is behind and has no tick.

### The control queue

`CtlProofs` proves, for any set of senders and any number of Restarts, that
`CtlIInv` is inductive (`CtlInvariance`) and from it `StopIsAlwaysThere`,
`RestartsAreKept` and `NothingGetsInFront`. What makes it inductive is to say what
a `late` receive or drain has found at each of its steps (`LateFindsStop`), that
nothing is found before it is sent and only a drain holds the Stop (`StopPlaced`)
and that only a gate drains (`GatesDrain`). `CtlImplementsMailbox` is the
refinement: the initial states map to Mailbox's, and under `CtlIInv` every step of
`Ctl` is one of Mailbox or a stutter (`StepKeepsPromise`).

### The cache

`CacheProofs` proves `CopiesReproduce`, `ArchivesAreWhole` and `StampsTrue` for any
processes, tasks, inputs, budget and number of edits, failures, kills and copies,
assuming `Sheltered`: `Calm`, `WholeCopies`, and that no task depends on one that
is oversized or `Flaky`. The last is needed because such a task may be on record
without an archive: a hit on it leaves whatever file is on the disk, and a
dependent reads that.

None of the three is inductive, nor is their conjunction, since they compare a
store or a file with what a command would make. The invariant (`CacheInv`) says
instead that there is a function `F` from keys to results such that a key that
names all its command reads makes `F` of it (`Determines`), and the records, the
archives, the files, the stamps and the copies under way are what `F` says of
their keys, in both stores (`Faithful`). `F` is not a variable: a step that takes
a new key extends it there, every other step keeps it (`CacheInvariance`), and no
induction over chains of dependencies is needed, since a dependent's key holds
the stamps of what it reads. `CopiesApart` says that no two processes copy the same entry at once.

`OvershootIsCounted` proves `OvershootCounted`, assuming `WholeCopies` only. An
archive is in the store before it is counted, and an entry that a sweep has listed
stays on record until it is dropped; both are set apart (`Waited`), and `Counted`
bounds what is left of the store (`Lasting`) by the budget and all that is counted
(`Total`), a sum over processes of which a step changes at most one term
(`SumMoves`). A sweep brings `Lasting` back to the budget because everything on
record has a use marker and so is seen by it (`Marked`). `CountedInv` is all this.
What sums over finite sets and the sizes of unions need is proved in
`NaturalLemmas`, from the smallest set for which it would fail.

### Edits on their way

`NoEditIsLost` proves `NoEditLost` for any tree of folders, plan and queue
capacity, assuming `Heeds = Watchers`, that is, no node ignores changes or takes
them as a signal; run `swallowed` is what happens otherwise. The first part
follows the path of an edit (`EditsInv`). The second needs that each hit node has
a dispatch root at or above it (`RootsCover`): of the hits at or above it take one
of least rank. `Upstream` is defined as the least closed set of dependencies, so
that this is a fact about sets and not about a recursion.

### A node's life

| theorem of `LifecycleProofs` | property | what makes the invariant inductive |
|---|---|---|
| `StoppedIsGone` | `StoppedMeansGone` | every stop, and a kill that finds the handle, comes after the spawn (`AfterSpawn`), and only a member that runs starts another |
| `StatusAlwaysAgrees` | `StatusAgrees` | no look was taken while the process starts (`FirstLookFirst`), and a check has no rebuild beside it and remembers who took the node down (`ChecksAreQuiet`) |
| `CrashLoopIsBounded` | `CrashLoopBounded`, and delays within their bounds | the code's count is the history's while there is a limit (`CountsRow`), and there is a sequence that doubles from the shortest delay and has reached this one (`DelayDoubled`) |
| `KeysCoverTheEnvironment` | `EnvKeyed` | a state formula; by cases over where the value comes from |
| `HistoryIsWhole` | `HistoryWhole` | there is a sequence of boards that starts at the summary, follows the kept entries and ends at the present one (`Replays`) |

The last two invariants say that a sequence *exists*, and a step extends it at its
end or drops its beginning. That it is the one the model's recursive function
computes (`Doublings`, `Replay`) follows once, outside the invariant, from the
least index at which they would differ.

### Around the tree

| theorem of `ControlProofs` | property | what makes the invariant inductive |
|---|---|---|
| `UpsAnswer` | `UpAnswers` | where an opener without rivals stands tells whose file is at the path and who listens |
| `OneTerminalAlways` | `OneTerminal` | the slot is taken by exactly the session in a holding phase (`SlotInv`) |
| `InputIntactAlways` | `InputIntact` | what was sent is what was typed until the client leaves, and then what was meant, or a lead more (`Sending`); and until a frame is dropped in its middle, what the child has not read of it is on its way in whole frames (`Frames`), whichever piece of one `read_frame` has taken (`Flowing`) |
| `OutputIntactAlways` | `OutputIntact` | what a client was sent and what is queued for it join into a stretch that begins where it began to listen and ends where the broadcast stands (`Relayed`); what was replayed is a stretch that reaches what was kept then (`Replayed`); the reader thread has sent at most one chunk more than it has kept (`PumpInv`) |
| `RunShowsEverything`, assuming `Patient` | `RunShowsAll` | in the queue an exit report is behind its process's lines and the Flush behind the reports (`ExitsLast`, `FlushLast`), and a reported child has nothing left to read |
| `GroupsAreWhole`, assuming `Patient` | `GroupWhole` | a process's lines that are shown, held back, queued, in the reader's hand and in the pty are numbered in this order without a gap (`Told`) |
| `FollowedOnceAlways` | `FollowedOnce` | the store has only lines that were handled and the cursor stands at one of them; while the store is in order, so is what was sent, none of it is ahead of the cursor, and all that is kept up to the cursor was sent (`FollowInv`) |

`ArmedAt`, `Page` and, in `TaskCache`, `Only` are recursions over a sequence,
written as recursive functions: that each is well defined follows from the least
index at which it would not be (`ArmedAtUnfolds`, `PageUnfolds`, `OnlyUnfolds`),
which none of the provers can do for `SelectSeq`.

### Only model-checked

- Everything about liveness, the fair parts of `KeepsPromise` and of
  `PassesAreAtomic` included, and ENABLED.
- `SelectionRight`: `detect_cycle` and `topo_closure` are RECURSIVE operators, as
  the code's functions call themselves with an accumulator, and the provers lose
  their SMT backend in a module that has one.
- `SettingsHeard` has no constant: TLC enumerates all that it quantifies over.

## 5. Where code and documentation disagree

Each of these is a run that TLC ends with a counterexample; the statement it
contradicts is quoted in `PROJECT.json`.

1. `stale_task`: a task marks the board seen when its run ends, without looking
   at its dependencies. A dependency that produced a newer result meanwhile is
   not noticed until something else ticks.
2. `orphan`: `stop_one` looks for a task's child once. A task that waits for
   its slot at that moment spawns later and is not stopped. A crashed service has
   the same gap without a run of its own: while it waits for its slot it can
   outlast its stop timeout, then get the slot of a task that is still saving, and
   spawn while `shutdown` returns (`SuccessStands` allows for it).
3. `exits`: `run` does not end when a service it needs exits with code 0 before
   it is ready; `await_tasks` gives up on failed services only.
4. `poisoned`: an input edited between the taking of a key and the command's
   reading of it leaves an entry under the old key that holds the new result; a
   later run of the old inputs takes it as a hit.
5. `swallowed`: a hit node is dropped from the roots because something it depends
   on was hit too, also when that one does not restart on a change; its own edit
   then starts nothing.
6. `half_copied`: an archive pulled from the shared store is copied under its final
   name, file by file. Another process can put its record to it meanwhile, which
   then vouches for half an archive, though a comment says that a half-written one
   under the entry's name cannot be.

What follows has no run of its own. Of the tree:

- one edit can run a node twice, when it depends on the edited node both directly
  and through another (`OneEditOneRun`);
- a change that reaches `on_change = "queue"` (or `"signal"`) during startup is
  dropped, not acted on afterwards (`QueuedChangeKept`);
- `run --continue` does not end behind a service that gave up: only what is
  downstream of a failed task counts as blocked; and it may report a task as
  skipped while its command runs, when a service that came back made its
  dependency run again and fail (`SkippedNeverRuns`, which TLC refutes on a task
  on a task on a service with two faults);
- a service whose liveness probe was in flight marks the board seen when the
  probe returns, as the task of 1 does (`NoLostWakeup` leaves such services out);
- the re-run of a verified cache hit takes no build slot (`BuildLimit` is stated
  where `Verified = {}`), and one that fails leaves the entry forgotten;
- a restart asked for in the TUI or a browser is the same message as an edit, so
  `on_change = "ignore"`, `"signal"` and `reload = "self"` pass it over; `restart
  = "never"`, "Never restarted automatically", restarts on file changes;
- `interrupt_startup` resets neither the crash count nor the delay, and
  `backoff_min > backoff_max` is accepted (`CrashLoopBounded` leaves it out);
- an answered liveness check puts a service back to `Healthy` whose rebuild had
  failed meanwhile (`FailureStands`).

Of processes, output and sessions:

- a child spawned and not yet registered is missed by a forced kill
  (`ForcedLeavesNone`), and what a crashed service left of its group is not killed;
- `read_frame` inside `select!` loses the head of a frame when output arrives
  between its parts, after which the session is out of step (`torn`); the client
  does the same with output when keys arrive (`smeared`). `InputIntact` stops at the
  first; of what the client's terminal shows nothing is claimed;
- a chunk printed between listening and replay comes twice, one that the reader
  thread has sent and not kept when a session begins to listen comes not at all
  (`OutputIntact` allows these and no others);
- a lead at the end of a read is sent, though a comment and a test say that the
  next read decides (`DetachUnseen`, which TLC refutes with a read of the lead and
  a read of the `d`); a session may outlive its child (`AttachEnds`);
- before the pty's ONLCR is off every line ends in "\r\n", which the log store
  takes for progress drawn in place and overwrites (`LinesKept` with
  `Cooked = TRUE`); a line's number is taken before it is queued, so numbers may
  be out of order (`FollowedOnce` is stated for stores in order); `Reporter::flush`
  has no caller; a queued line of the previous child counts as the ready line of
  the next.

Of caches and environments:

- a pull or push that fails half way leaves what it has copied under the final
  name, and a push writes its record all the same; archives without records are
  never evicted; a process that ends forgets what it wrote since its last sweep;
- a task whose outputs could not be archived is on record all the same, and a hit on
  it only looks whether the files are there (`HitReproduces`, which `poisoned`
  refutes without this; `CopyReproduces` is about results with a copy);
- a dry run takes keys without the stamps of dependencies, so it says of a task with
  a dependency that it would run though it then hits;
- a variable that is unset and one that is empty share a key (`Alike`); `TERM`
  and `FORCE_COLOR` of a task are overridden after they were keyed (`Masked`);
- `why` says HIT though outputs are missing; `--force --dry-run` ignores the
  force; a dry run marks entries used and may pull from the shared store.

Of the rest:

- the second of two `up`s, refused its socket, removes the first's when it ends
  (`robbed` in `UpAnswers`), and two that reclaim at once may both fail (`rivals`);
- several filters do not select the union of what each asks for: a walk stops at
  nodes that are selected, whose own dependencies nobody may have walked. With
  `web` on `api` on `check`, `--filter api --filter ...check` selects `api` and
  `check` and not `web` (`Filtered` says where the union is right);
- liveness and health of a service that is only served are ignored, and it is
  `Healthy` as soon as its gate opens, before its listener is bound or without
  one (`SettingsHeard` asks for a command); `signal` without `on_change =
  "signal"` is ignored, and the reverse only complains when it happens;
- in the poller, an edit that keeps length and time is not seen.

## 6. The plan

What is left, in the order of what it would add:

1. `TaskCache`: an abstract cache (a map from keys to results) that it implements
   under `Sheltered`, with the `F` of `CacheInv` as the witness.
2. `Session`: `DetachUnseen`, once the code keeps a lead that ends a read;
   `AttachEnds` under the fairness that holds.
3. `EngineProofs`: what `FirstRuns` says before the first edit, after one edit: one
   more result for each node that no two paths reach.
4. `Select` with its recursions as recursive functions, so that `SelectionRight`
   can be proved for any graph.
5. `Watch`: a backend that loses events and rescans.
6. `Engine` composed with `SelfReload`: what dependents do while a service
   rebuilds itself.

## 7. Not modelled

Parsing of configuration, env files and Procfiles and the overlay of files
(sequential data preparation: what the rest relies on is `PlanIsDag`); hashing and
the diff of fingerprints; registering directories with the operating system; how
a probe asks; the proxy, the static server and their network I/O; the terminal
UI, MCP's wording, diagnostics scraped from output, reports over the plan and the
cache, shell completion, the profile log, and the commands that wire parts
together or print. They hold no state that the tree depends on. The byte limits
of the log store and of archives stand as one limit each.
