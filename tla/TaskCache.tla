----------------------------- MODULE TaskCache -----------------------------
(***************************************************************************)
(* The task cache: Engine::run_task (src/engine.rs) over the stores of     *)
(* src/cache.rs, as several turborust processes use them at once.          *)
(*                                                                         *)
(* Each process works in a checkout of its own; all share the local store, *)
(* and read, and may push to, one shared store. A task has one input and   *)
(* one output file, and its command is a function of what it reads. The    *)
(* contents of a file is a value; "torn" is a file written half way.       *)
(***************************************************************************)
EXTENDS Naturals, Sequences, FiniteSets, FiniteSetsExt, SequencesExt

CONSTANTS
  Procs,        \* the processes, each in its own worktree
  Tasks,
  DependsOn,    \* DependsOn[t]: the tasks t reads from
  Requests,     \* what the processes may be asked for: functions from Procs to
                \* the tasks each runs, with all that those need
  Inputs,       \* Inputs[t]: the contents t's input may have
  Oversized,    \* tasks whose outputs are over MAX_ARCHIVE_BYTES
  Flaky,        \* tasks whose outputs may fail to be archived
  Budget,       \* max_size, in archives
  SweepEvery,   \* a sweep follows Budget / SweepEvery archives written
  Pushers,      \* the processes that contribute their results to the shared store
  Verify,       \* hits are re-run and compared
  Calm,         \* inputs change only while nothing that reads them runs
  WholeCopies,  \* a copy between the stores neither fails nor is interrupted,
                \* and nobody else is at the entry while it is made
  MaxFaults     \* bounds edits, failures and processes ended, together

ASSUME CacheAssumption ==
  /\ IsFiniteSet(Procs) /\ IsFiniteSet(Tasks)
  /\ DependsOn \in [Tasks -> SUBSET Tasks]
  /\ \A t \in Tasks : t \notin DependsOn[t]
  /\ Requests \subseteq [Procs -> SUBSET Tasks]
  /\ \A r \in Requests, p \in Procs : \A t \in r[p] : DependsOn[t] \subseteq r[p]
  /\ Oversized \subseteq Tasks /\ Flaky \subseteq Tasks
  /\ Budget \in Nat /\ SweepEvery \in Nat \ {0} /\ MaxFaults \in Nat
  /\ Pushers \subseteq Procs /\ {Verify, Calm, WholeCopies} \subseteq BOOLEAN

VARIABLES
  asked,      \* asked[p]: the tasks p runs
  input,      \* input[p][t]: the input of t in p's worktree
  disk,       \* disk[p][t]: the output of t in p's worktree
  stamp,      \* stamp[p][t]: what a dependent of t folds into its key
  job,        \* job[p][t]: p's run_task(t): how far it is (at), the fingerprint
              \* it took (key), the record it read or makes (loaded) and, as history,
              \* what the command would have produced at first (ideal)
  record,     \* the local store's records, by key
  archive,    \* the local store's archives, by key
  used,       \* the keys with a use marker, least recently used first
  written,    \* written[p]: archives p wrote since its last sweep
  doomed,     \* doomed[p][t]: what the sweep under way has yet to drop
  far,        \* the shared store: [record, archive]
  uncounted,  \* archives no process's `written` knows of (history)
  faults

work  == <<asked, input, disk, stamp>>
local == <<record, archive, used>>
sweep == <<written, doomed, uncounted>>
vars  == <<work, job, local, sweep, far, faults>>

(* The contents of a file that is not there, and of one half written.      *)
None == [is |-> "none"]
Torn == [is |-> "torn"]

(* Functions that grow and shrink a key at a time, as directories do.      *)
Put(f, k, v) == [x \in DOMAIN f \cup {k} |-> IF x = k THEN v ELSE f[x]]
Drop(f, k)   == [x \in DOMAIN f \ {k} |-> f[x]]
Has(f, k)    == k \in DOMAIN f

(* What is left of s when only `keys` are kept.                            *)
Only(s, keys) ==
  LET kept[i \in 0..Len(s)] == IF i = 0 THEN <<>>
                               ELSE IF s[i] \in keys THEN Append(kept[i - 1], s[i])
                               ELSE kept[i - 1]
  IN  kept[Len(s)]

NoJob(phase) == [at |-> phase, key |-> None, loaded |-> None, ideal |-> None]

At(p, t)  == job[p][t].at
Key(p, t) == job[p][t].key
Rec(p, t) == job[p][t].loaded

Step(p, t, phase) == job' = [job EXCEPT ![p][t].at = phase]
Rest(p, t, phase) == job' = [job EXCEPT ![p][t] = NoJob(phase)]

(* What the command of t produces from what p's worktree now holds.        *)
Product(p, t) ==
  [task |-> t, input |-> input[p][t], from |-> {disk[p][d] : d \in DependsOn[t]}]

(* Dependents key on what a task produced if it is known, or on its key.   *)
ByKey(k)    == <<"key", k>>
ByOutput(c) == <<"out", c>>

Bug_Fingerprint(p, t) ==   \* the dependencies are left out
  [task |-> t, input |-> input[p][t], deps |-> {}]

(* Engine::fingerprint. The input stands for all the config and files that *)
(* go in, and the stamps of the dependencies are those there at the time.  *)
Fingerprint(p, t) ==
  [task |-> t, input |-> input[p][t],
   deps |-> {stamp[p][d] : d \in DependsOn[t]} \ {<<>>}]

(* Done is shown as soon as the command has succeeded; all that follows is *)
(* still part of run_task.                                                 *)
Saving  == {"done", "cleared", "archived", "sweeping", "dropping", "pushing"}
Resting == {"idle", "hit", "built", "failed"}
Ready(p, t) == At(p, t) \in Saving \cup {"hit", "built"}

Dependents(t) == {u \in Tasks : t \in DependsOn[u]}
Idle(p, t)    == At(p, t) \in Resting

Init ==
  /\ asked \in Requests
  /\ input = [p \in Procs |-> [t \in Tasks |-> CHOOSE i \in Inputs[t] : TRUE]]
  /\ disk = [p \in Procs |-> [t \in Tasks |-> None]]
  /\ stamp = [p \in Procs |-> [t \in Tasks |-> <<>>]]
  /\ job = [p \in Procs |-> [t \in Tasks |-> NoJob("idle")]]
  /\ record = <<>> /\ archive = <<>> /\ used = <<>>
  /\ written = [p \in Procs |-> 0]
  /\ doomed = [p \in Procs |-> [t \in Tasks |-> <<>>]]
  /\ far = [record |-> <<>>, archive |-> <<>>]
  /\ uncounted = 0 /\ faults = 0

Fault == faults < MaxFaults /\ faults' = faults + 1

-----------------------------------------------------------------------------
Bug_Keys(p, t) ==   \* the stamp of the run before is left
  /\ t \in asked[p] /\ Idle(p, t)
  /\ \A d \in DependsOn[t] : Ready(p, d)
  /\ Calm => \A u \in Dependents(t) : Idle(p, u)
  /\ job' = [job EXCEPT ![p][t] = [at |-> "keyed", key |-> Fingerprint(p, t),
                                   loaded |-> None, ideal |-> Product(p, t)]]
  /\ UNCHANGED <<work, local, sweep, far, faults>>

(* The key is taken, and stands in for the outputs until they are known.   *)
Keys(p, t) ==
  /\ t \in asked[p] /\ Idle(p, t)
  /\ \A d \in DependsOn[t] : Ready(p, d)
  /\ Calm => \A u \in Dependents(t) : Idle(p, u)
  /\ LET k == Fingerprint(p, t) IN
       /\ stamp' = [stamp EXCEPT ![p][t] = ByKey(k)]
       /\ job' = [job EXCEPT ![p][t] =
                    [at |-> "keyed", key |-> k, loaded |-> None, ideal |-> Product(p, t)]]
  /\ UNCHANGED <<asked, input, disk, local, sweep, far, faults>>

Unmarked(k) == Only(used, ToSet(used) \ {k})
Touched(k)  == Append(Unmarked(k), k)

(* Cache::load from the local store: a hit marks the result used.          *)
Loads(p, t) ==
  /\ At(p, t) = "keyed" /\ Has(record, Key(p, t))
  /\ job' = [job EXCEPT ![p][t].at = "found", ![p][t].loaded = record[Key(p, t)]]
  /\ used' = Touched(Key(p, t))
  /\ UNCHANGED <<work, record, archive, sweep, far, faults>>

Held(keys) == Cardinality(keys \cap DOMAIN archive)

(* Cache::load from the shared store. The record is used whatever comes of *)
(* copying the result; one whose files are gone from there copies nothing. *)
Pulls(p, t) ==
  LET k == Key(p, t)
      copies == far.record[k].archived /\ Has(far.archive, k)
  IN
  /\ At(p, t) = "keyed" /\ ~Has(record, k) /\ Has(far.record, k)
  /\ job' = [job EXCEPT ![p][t].loaded = far.record[k],
                        ![p][t].at = IF copies THEN "pulling" ELSE "found"]
  /\ archive' = IF copies THEN Put(archive, k, Torn) ELSE archive
  /\ record' = IF copies THEN record ELSE Put(record, k, far.record[k])
  /\ used' = Touched(k)
  /\ uncounted' = uncounted + IF copies THEN 0 ELSE Held({k})
  /\ UNCHANGED <<work, written, doomed, far, faults>>

(* The copy ends, and is under the entry's name unless that was removed    *)
(* meanwhile; or it fails and leaves what it has written.                  *)
Pulled(p, t) ==
  LET k == Key(p, t) IN
  /\ At(p, t) = "pulling"
  /\ \/ /\ archive' = IF Has(archive, k) THEN Put(archive, k, far.archive[k]) ELSE archive
        /\ record' = Put(record, k, Rec(p, t))
        /\ uncounted' = uncounted + IF Has(record, k) THEN 0 ELSE Held({k})
        /\ UNCHANGED faults
     \/ ~WholeCopies /\ Fault /\ UNCHANGED <<archive, record, uncounted>>
  /\ Step(p, t, "found")
  /\ UNCHANGED <<work, used, written, doomed, far>>

(* Nothing is stored under the key, or the run is forced.                  *)
Misses(p, t) ==
  /\ At(p, t) = "keyed"
  /\ IF Has(record, Key(p, t)) \/ Has(far.record, Key(p, t))
     THEN Fault ELSE UNCHANGED faults
  /\ Step(p, t, "missed")
  /\ UNCHANGED <<work, local, sweep, far>>

(* Whether the files a record promises can be replayed. A result that was  *)
(* not archived is as good as its files, which need only be there.         *)
Servable(p, t) == IF Rec(p, t).archived THEN Has(archive, Key(p, t))
                  ELSE disk[p][t] # None

(* Cache::restore. *)
Restores(p, t) ==
  disk' = IF Rec(p, t).archived THEN [disk EXCEPT ![p][t] = archive[Key(p, t)]] ELSE disk

(* The files are back, and the answer is given: the task stands for what   *)
(* is on record, at once or once a re-run has shown it.                    *)
Replays(p, t) ==
  /\ At(p, t) = "found" /\ Servable(p, t)
  /\ Restores(p, t)
  /\ \/ /\ Step(p, t, "hit")
        /\ stamp' = [stamp EXCEPT ![p][t] = ByOutput(Rec(p, t).output)]
     \/ Verify /\ Step(p, t, "checking") /\ UNCHANGED stamp
  /\ UNCHANGED <<asked, input, local, sweep, far, faults>>

(* As good as a miss. *)
Unservable(p, t) ==
  /\ At(p, t) = "found" /\ ~Servable(p, t)
  /\ Step(p, t, "missed")
  /\ UNCHANGED <<work, local, sweep, far, faults>>

(* recheck: the outputs are removed and made again. If the command fails,  *)
(* or makes something else, the entry is forgotten and the task has failed. *)
Rechecks(p, t) ==
  LET k == Key(p, t) IN
  /\ At(p, t) = "checking"
  /\ \/ /\ disk' = [disk EXCEPT ![p][t] = Product(p, t)]
        /\ disk'[p][t] = Rec(p, t).output
        /\ Step(p, t, "hit")
        /\ stamp' = [stamp EXCEPT ![p][t] = ByOutput(Rec(p, t).output)]
        /\ UNCHANGED <<local, faults>>
     \/ /\ IF Product(p, t) # Rec(p, t).output
           THEN disk' = [disk EXCEPT ![p][t] = Product(p, t)] /\ UNCHANGED faults
           ELSE Fault /\ disk' = [disk EXCEPT ![p][t] = Torn]
        /\ Rest(p, t, "failed")
        /\ record' = Drop(record, k) /\ archive' = Drop(archive, k)
        /\ used' = Unmarked(k)
        /\ UNCHANGED stamp
  /\ UNCHANGED <<asked, input, sweep, far>>

-----------------------------------------------------------------------------
(* The command runs: until it ends its output is in the making.            *)
Spawns(p, t) ==
  /\ At(p, t) = "missed"
  /\ disk' = [disk EXCEPT ![p][t] = Torn]
  /\ Step(p, t, "running")
  /\ UNCHANGED <<asked, input, stamp, local, sweep, far, faults>>

(* Done is shown here, before the result is stamped and stored.            *)
Succeeds(p, t) ==
  /\ At(p, t) = "running"
  /\ disk' = [disk EXCEPT ![p][t] = Product(p, t)]
  /\ Step(p, t, "done")
  /\ UNCHANGED <<asked, input, stamp, local, sweep, far, faults>>

Fails(p, t) ==
  /\ At(p, t) = "running" /\ Fault
  /\ Rest(p, t, "failed")
  /\ UNCHANGED <<work, local, sweep, far>>

Bug_Clears(p, t) ==   \* archives in place
  /\ At(p, t) = "done" /\ t \notin Oversized
  /\ archive' = Put(archive, Key(p, t), Torn)
  /\ Step(p, t, "cleared")
  /\ UNCHANGED <<work, record, used, sweep, far, faults>>

(* Cache::archive: the outputs are staged under a name of the process's    *)
(* own, the old archive is removed, and the staged one is renamed.         *)
Clears(p, t) ==
  /\ At(p, t) = "done" /\ t \notin Oversized
  /\ archive' = Drop(archive, Key(p, t))
  /\ Step(p, t, "cleared")
  /\ UNCHANGED <<work, record, used, sweep, far, faults>>

(* What the record will say. *)
Says(p, t, kept) ==
  job' = [job EXCEPT ![p][t].at = "archived",
                     ![p][t].loaded = [archived |-> kept, output |-> disk[p][t]]]

(* A rename that finds another's archive in place leaves it there. Staging *)
(* may fail, and so may a rename that finds nothing.                       *)
Publishes(p, t) ==
  /\ \/ /\ At(p, t) = "cleared" /\ Says(p, t, TRUE)
        /\ archive' = Put(archive, Key(p, t),
             IF Has(archive, Key(p, t)) THEN archive[Key(p, t)] ELSE disk[p][t])
        /\ UNCHANGED faults
     \/ At(p, t) = "done" /\ t \in Oversized /\ Says(p, t, FALSE) /\ UNCHANGED <<archive, faults>>
     \/ /\ At(p, t) = "done" \/ (At(p, t) = "cleared" /\ ~Has(archive, Key(p, t)))
        /\ t \in Flaky \ Oversized /\ Fault
        /\ Says(p, t, FALSE) /\ UNCHANGED archive
  /\ UNCHANGED <<work, record, used, sweep, far>>

Bug_Doomed(s) ==   \* stops one entry early
  LET kept == {i \in 0..Len(s) : Held({s[j] : j \in i+1..Len(s)}) <= Budget}
  IN  SubSeq(s, 1, Min(kept) - 1)

(* Cache::sweep: the oldest entries, until what is left fits the budget.   *)
Doomed(s) ==
  LET kept == {i \in 0..Len(s) : Held({s[j] : j \in i+1..Len(s)}) <= Budget}
  IN  SubSeq(s, 1, Min(kept))

(* The outputs are hashed and stamped, the record is renamed into place    *)
(* and marked used, and a sweep follows when enough has been written.      *)
Stores(p, t) ==
  LET k == Key(p, t)
      n == written[p] + Held({k})
  IN
  /\ At(p, t) = "archived"
  /\ stamp' = [stamp EXCEPT ![p][t] = ByOutput(disk[p][t])]
  /\ record' = Put(record, k, Rec(p, t))
  /\ used' = Touched(k)
  /\ IF n >= Budget \div SweepEvery
     THEN /\ written' = [written EXCEPT ![p] = 0]
          /\ doomed' = [doomed EXCEPT ![p][t] =
                          Doomed(Only(used', DOMAIN record'))]
          /\ uncounted' = 0
     ELSE written' = [written EXCEPT ![p] = n] /\ UNCHANGED <<doomed, uncounted>>
  /\ Step(p, t, "sweeping")
  /\ UNCHANGED <<asked, input, disk, archive, far, faults>>

(* An entry is dropped: its record and marker, then its archive.           *)
DropsRecord(p, t) ==
  /\ At(p, t) = "sweeping" /\ doomed[p][t] # <<>>
  /\ LET k == Head(doomed[p][t]) IN
       /\ record' = Drop(record, k)
       /\ used' = Unmarked(k)
  /\ Step(p, t, "dropping")
  /\ UNCHANGED <<work, archive, sweep, far, faults>>

DropsArchive(p, t) ==
  /\ At(p, t) = "dropping"
  /\ archive' = Drop(archive, Head(doomed[p][t]))
  /\ doomed' = [doomed EXCEPT ![p][t] = Tail(@)]
  /\ Step(p, t, "sweeping")
  /\ UNCHANGED <<work, record, used, written, uncounted, far, faults>>

(* The end of Cache::store: with `push`, the archive is copied to the      *)
(* shared store and the record after it, whatever became of the copy: the  *)
(* archive is copied though it is removed meanwhile.                       *)
Pushes(p, t) ==
  LET k == Key(p, t)
      copies == Rec(p, t).archived /\ Has(archive, k)
  IN
  /\ At(p, t) = "sweeping" /\ doomed[p][t] = <<>>
  /\ \/ /\ p \in Pushers /\ copies /\ Step(p, t, "pushing")
        /\ far' = [far EXCEPT !.archive = Put(@, k, Torn)]
     \/ /\ p \in Pushers /\ ~copies /\ Rest(p, t, "built")
        /\ far' = [far EXCEPT !.record = Put(@, k, Rec(p, t))]
     \/ p \notin Pushers /\ Rest(p, t, "built") /\ UNCHANGED far
  /\ UNCHANGED <<work, local, sweep, faults>>

Pushed(p, t) ==
  LET k == Key(p, t) IN
  /\ At(p, t) = "pushing"
  /\ \/ /\ far' = [record  |-> Put(far.record, k, Rec(p, t)),
                   archive |-> Put(far.archive, k,
                     IF Has(archive, k) THEN archive[k] ELSE Rec(p, t).output)]
        /\ UNCHANGED faults
     \/ ~WholeCopies /\ Fault /\ far' = [far EXCEPT !.record = Put(@, k, Rec(p, t))]
  /\ Rest(p, t, "built")
  /\ UNCHANGED <<work, local, sweep>>

-----------------------------------------------------------------------------
(* What p has archived without a sweep, or has yet to drop in one.         *)
Unswept(p) == written[p] + Cardinality({t \in Tasks : At(p, t) = "archived"})
                + SumFunction([t \in Tasks |-> Len(doomed[p][t])])

(* A copy is made of an entry p is at, or about to drop.                    *)
Copying(p, t) == At(p, t) \in {"pulling", "pushing"}
Interferes(p, t) ==
  \E o \in Procs, x \in Tasks :
    /\ Copying(o, x) /\ <<o, x>> # <<p, t>>
    /\ Key(o, x) \in {Key(p, t)} \cup {Head(d) : d \in {doomed[p][t]} \ {<<>>}}

(* An input is edited, or a branch checked out.                            *)
Edits(p, t) ==
  /\ t \in asked[p] /\ Fault
  /\ Calm => Idle(p, t)
  /\ \E i \in Inputs[t] \ {input[p][t]} : input' = [input EXCEPT ![p][t] = i]
  /\ UNCHANGED <<asked, disk, stamp, job, local, sweep, far>>

(* The process ends, in the middle of anything, and another takes its      *)
(* place. What it has staged is never looked at; what it has counted is    *)
(* forgotten.                                                              *)
Ends(p) ==
  /\ Fault
  /\ WholeCopies => ~\E t \in Tasks : Copying(p, t)
  /\ job' = [job EXCEPT ![p] = [t \in Tasks |-> NoJob("idle")]]
  /\ stamp' = [stamp EXCEPT ![p] = [t \in Tasks |-> <<>>]]
  /\ doomed' = [doomed EXCEPT ![p] = [t \in Tasks |-> <<>>]]
  /\ uncounted' = uncounted + Unswept(p)
  /\ written' = [written EXCEPT ![p] = 0]
  /\ UNCHANGED <<asked, input, disk, local, far>>

Task(p, t) ==
  \/ Keys(p, t) \/ Loads(p, t) \/ Pulls(p, t) \/ Pulled(p, t) \/ Misses(p, t)
  \/ Replays(p, t) \/ Unservable(p, t) \/ Rechecks(p, t)
  \/ Spawns(p, t) \/ Succeeds(p, t) \/ Fails(p, t)
  \/ Clears(p, t) \/ Publishes(p, t) \/ Stores(p, t)
  \/ DropsRecord(p, t) \/ DropsArchive(p, t) \/ Pushes(p, t) \/ Pushed(p, t)

Next ==
  \/ \E p \in Procs, t \in Tasks :
       (WholeCopies => ~Interferes(p, t)) /\ Task(p, t)
  \/ \E p \in Procs, t \in Tasks : Edits(p, t)
  \/ \E p \in Procs : Ends(p)

Spec == Init /\ [][Next]_vars

-----------------------------------------------------------------------------
(* A cache hit leaves in the worktree what the command would have made of  *)
(* the inputs its key was taken from, whoever stored the result, whatever  *)
(* was evicted, replaced or left unfinished meanwhile: here for the        *)
(* results the store has a copy of.                                        *)
Kept(p, t) == At(p, t) = "hit" => Rec(p, t).archived
CopyReproduces ==
  \A p \in Procs, t \in Tasks :
    At(p, t) = "hit" /\ Kept(p, t) => disk[p][t] = job[p][t].ideal

(* No archive that a record vouches for is half written or another's: it   *)
(* is what the record says was produced.                                   *)
ArchivesWhole ==
  \A k \in DOMAIN record \cap DOMAIN archive :
    record[k].archived => archive[k] = record[k].output

(* What a dependent folds into its key as a task's outputs is what it will *)
(* read.                                                                   *)
StampTrue ==
  \A p \in Procs, t \in Tasks :
    Ready(p, t) /\ Kept(p, t) /\ stamp[p][t] # <<>> /\ stamp[p][t][1] = "out"
      => stamp[p][t][2] = disk[p][t]

(* The store exceeds its budget by no more than what was written since the *)
(* last sweep, is being swept, was pulled from the shared store, or was    *)
(* written by processes that ended without a sweep.                        *)
OvershootCounted ==
  Held(DOMAIN record) <= Budget + uncounted + SumFunction([p \in Procs |-> Unswept(p)])

-----------------------------------------------------------------------------
(* README.md: "A hit is a promise: *this key reproduces these outputs*".    *)
HitReproduces ==
  \A p \in Procs, t \in Tasks : At(p, t) = "hit" => disk[p][t] = job[p][t].ideal
=============================================================================
