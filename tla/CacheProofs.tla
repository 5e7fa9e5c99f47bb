---------------------------- MODULE CacheProofs ----------------------------
(***************************************************************************)
(* Proofs about TaskCache, for any number of processes, tasks, edits,      *)
(* failures and kills: what a hit, an archive and a stamp are worth, as    *)
(* long as inputs are calm and copies whole, and how far the store exceeds *)
(* its budget, as long as copies are whole.                                *)
(***************************************************************************)
EXTENDS TaskCache, NaturalLemmas

(***************************************************************************)
(* What the results of a key have in common.                               *)
(***************************************************************************)

(* What s stands for, where F says what each key makes.                    *)
Value(F, s) == IF s[1] = "key" THEN F[s[2]] ELSE s[2]

(* A key names all that its command reads: what it makes is determined.    *)
Determines(F) ==
  \A k \in DOMAIN F :
    /\ \A s \in k.deps : s[1] = "key" => s[2] \in DOMAIN F
    /\ F[k] = [task |-> k.task, input |-> k.input, from |-> {Value(F, s) : s \in k.deps}]

(* Tasks whose results may be on record without an archive.                *)
Loose == Oversized \cup Flaky

(* A store's records say what their keys make.                             *)
RecordsTrue(F, recs) ==
  \A k \in DOMAIN recs : /\ k \in DOMAIN F /\ recs[k].output = F[k]
                         /\ k.task \notin Loose => recs[k].archived

(* A store's archives are what their keys make, but for one being copied.  *)
ArchivesTrue(F, files, copying) ==
  \A k \in DOMAIN files :
    /\ k \in DOMAIN F
    /\ \/ files[k] = F[k]
       \/ \E p \in Procs, t \in Tasks : At(p, t) = copying /\ Key(p, t) = k

(***************************************************************************)
(* The inductive invariant.                                                *)
(***************************************************************************)

Keyed   == {"keyed", "found", "pulling", "checking", "missed", "running", "hit"} \cup Saving
Holding == {"found", "pulling", "checking", "hit",
            "archived", "sweeping", "dropping", "pushing"}
Unnamed == {"done", "cleared", "archived"}
Named   == {"sweeping", "dropping", "pushing", "built"}

(* How far a task is decides what its key, its record, its files and its   *)
(* stamp are worth.                                                        *)
JobTrue(F, p, t) ==
  /\ At(p, t) \in Keyed \cup Resting
  /\ At(p, t) \in Keyed => /\ Key(p, t) \in DOMAIN F /\ Key(p, t).task = t
                           /\ job[p][t].ideal = F[Key(p, t)]
  /\ At(p, t) \in Holding => /\ Rec(p, t).output = F[Key(p, t)]
                             /\ t \notin Loose => Rec(p, t).archived
  /\ At(p, t) \in Saving \/ (At(p, t) = "hit" /\ Rec(p, t).archived)
       => disk[p][t] = F[Key(p, t)]
  /\ At(p, t) \in Keyed \ (Named \cup {"hit"}) => stamp[p][t] = ByKey(Key(p, t))
  /\ At(p, t) \in Named \/ (At(p, t) = "hit" /\ Rec(p, t).archived)
       => stamp[p][t] = ByOutput(disk[p][t])
  /\ ~Idle(p, t) => /\ \A d \in DependsOn[t] : Ready(p, d)
                    /\ Product(p, t) = F[Key(p, t)]

(* Where a copy is made from and to is there, and not yet on record.       *)
CopyTrue(F, p, t) ==
  At(p, t) = "pulling" => /\ Key(p, t) \in DOMAIN archive \cap DOMAIN far.archive
                          /\ Key(p, t) \notin DOMAIN record

(* No two make a copy of the same entry at once.                           *)
CopiesApart ==
  \A p, o \in Procs, t, x \in Tasks :
    Copying(p, t) /\ Copying(o, x) /\ Key(p, t) = Key(o, x) => p = o /\ t = x

Faithful(F) ==
  /\ Determines(F)
  /\ RecordsTrue(F, record) /\ RecordsTrue(F, far.record)
  /\ ArchivesTrue(F, archive, "pulling") /\ ArchivesTrue(F, far.archive, "pushing")
  /\ \A p \in Procs, t \in Tasks : JobTrue(F, p, t) /\ CopyTrue(F, p, t)
  /\ CopiesApart

(* The functions that grow and shrink nowhere but in the stores, and what  *)
(* a sweep is dropping is on its list.                                     *)
Shaped ==
  /\ DOMAIN job = Procs /\ DOMAIN disk = Procs /\ DOMAIN stamp = Procs
  /\ DOMAIN doomed = Procs /\ DOMAIN input = Procs
  /\ \A p \in Procs : /\ DOMAIN job[p] = Tasks /\ DOMAIN disk[p] = Tasks
                      /\ DOMAIN stamp[p] = Tasks /\ DOMAIN doomed[p] = Tasks
                      /\ DOMAIN input[p] = Tasks
  /\ \A p \in Procs, t \in Tasks :
       /\ DOMAIN job[p][t] = {"at", "key", "loaded", "ideal"}
       /\ At(p, t) = "dropping" => doomed[p][t] # <<>>
  /\ DOMAIN far = {"record", "archive"}

CacheInv == Shaped /\ \E F : Faithful(F)

(***************************************************************************)
(* How a step moves the tasks.                                             *)
(***************************************************************************)

(* A task is moved on, or rests.                                           *)
LEMMA StepMoves ==
  ASSUME Shaped, NEW p \in Procs, NEW t \in Tasks, NEW phase, Step(p, t, phase)
  PROVE  /\ At(p, t)' = phase /\ Key(p, t)' = Key(p, t) /\ Rec(p, t)' = Rec(p, t)
         /\ job'[p][t].ideal = job[p][t].ideal
         /\ \A o \in Procs, x \in Tasks : <<o, x>> # <<p, t>> => job'[o][x] = job[o][x]
         /\ DOMAIN job' = Procs /\ \A o \in Procs : DOMAIN job'[o] = Tasks
         /\ DOMAIN job'[p][t] = {"at", "key", "loaded", "ideal"}
BY DEF Shaped, Step, At, Key, Rec

LEMMA SaysMoves ==
  ASSUME Shaped, NEW p \in Procs, NEW t \in Tasks, NEW kept, Says(p, t, kept)
  PROVE  /\ At(p, t)' = "archived" /\ Key(p, t)' = Key(p, t)
         /\ Rec(p, t)'.output = disk[p][t] /\ Rec(p, t)'.archived = kept
         /\ job'[p][t].ideal = job[p][t].ideal
         /\ \A o \in Procs, x \in Tasks : <<o, x>> # <<p, t>> => job'[o][x] = job[o][x]
         /\ DOMAIN job' = Procs /\ \A o \in Procs : DOMAIN job'[o] = Tasks
         /\ DOMAIN job'[p][t] = {"at", "key", "loaded", "ideal"}
<1> DEFINE r == [archived |-> kept, output |-> disk[p][t]]
<1>1. job' = [job EXCEPT ![p][t].at = "archived", ![p][t].loaded = r]
  BY DEF Says
<1>2. r.output = disk[p][t] /\ r.archived = kept
  OBVIOUS
<1> HIDE DEF r
<1>3. /\ DOMAIN job = Procs /\ \A o \in Procs : DOMAIN job[o] = Tasks
      /\ DOMAIN job[p][t] = {"at", "key", "loaded", "ideal"}
  BY DEF Shaped
<1>4. /\ job'[p][t].at = "archived" /\ job'[p][t].key = job[p][t].key
      /\ job'[p][t].loaded = r /\ job'[p][t].ideal = job[p][t].ideal
      /\ DOMAIN job'[p][t] = {"at", "key", "loaded", "ideal"}
  BY <1>1, <1>3
<1>5. /\ \A o \in Procs, x \in Tasks : <<o, x>> # <<p, t>> => job'[o][x] = job[o][x]
      /\ DOMAIN job' = Procs /\ \A o \in Procs : DOMAIN job'[o] = Tasks
  BY <1>1, <1>3
<1> QED BY <1>2, <1>4, <1>5 DEF At, Key, Rec

LEMMA RestMoves ==
  ASSUME Shaped, NEW p \in Procs, NEW t \in Tasks, NEW phase, Rest(p, t, phase)
  PROVE  /\ At(p, t)' = phase
         /\ \A o \in Procs, x \in Tasks : <<o, x>> # <<p, t>> => job'[o][x] = job[o][x]
         /\ DOMAIN job' = Procs /\ \A o \in Procs : DOMAIN job'[o] = Tasks
         /\ DOMAIN job'[p][t] = {"at", "key", "loaded", "ideal"}
BY DEF Shaped, Rest, NoJob, At

(* Writing one task's file or stamp.                                       *)
LEMMA WriteMoves ==
  ASSUME NEW f, DOMAIN f = Procs, \A o \in Procs : DOMAIN f[o] = Tasks,
         NEW p \in Procs, NEW t \in Tasks, NEW v
  PROVE  LET g == [f EXCEPT ![p][t] = v]
         IN  /\ g[p][t] = v
             /\ \A o \in Procs, x \in Tasks : <<o, x>> # <<p, t>> => g[o][x] = f[o][x]
             /\ DOMAIN g = Procs /\ \A o \in Procs : DOMAIN g[o] = Tasks
OBVIOUS

(* A store with a key more or a key less.                                  *)
LEMMA StoreMoves ==
  ASSUME NEW f, NEW k, NEW v
  PROVE  /\ DOMAIN Put(f, k, v) = DOMAIN f \cup {k} /\ Put(f, k, v)[k] = v
         /\ \A x \in DOMAIN f : x # k => Put(f, k, v)[x] = f[x]
         /\ DOMAIN Drop(f, k) = DOMAIN f \ {k}
         /\ \A x \in DOMAIN f : x # k => Drop(f, k)[x] = f[x]
BY DEF Put, Drop

(* A copy is left alone while it is made.                                  *)
LEMMA LeftAlone ==
  ASSUME NEW p \in Procs, NEW t \in Tasks, ~Interferes(p, t),
         NEW o \in Procs, NEW x \in Tasks, Copying(o, x), <<o, x>> # <<p, t>>
  PROVE  /\ Key(o, x) # Key(p, t)
         /\ doomed[p][t] # <<>> => Key(o, x) # Head(doomed[p][t])
BY DEF Interferes

(* What a step of t in p leaves of the other tasks.                        *)
OthersStand(p, t) ==
  /\ \A o \in Procs, x \in Tasks : <<o, x>> # <<p, t>> =>
       /\ job'[o][x] = job[o][x] /\ disk'[o][x] = disk[o][x]
       /\ stamp'[o][x] = stamp[o][x] /\ doomed'[o][x] = doomed[o][x]
  /\ input' = input

(* What others read from t in p stays, or none of them is at work.         *)
Unread(p, t) ==
  \/ Ready(p, t) /\ Ready(p, t)' /\ disk'[p][t] = disk[p][t]
  \/ \A u \in Dependents(t) : Idle(p, u)

(* Whoever is at work has all that it reads.                               *)
LEMMA BusyHasDeps ==
  ASSUME NEW F, \A o \in Procs, x \in Tasks : JobTrue(F, o, x),
         NEW p \in Procs, NEW t \in Tasks, ~Ready(p, t)
  PROVE  Unread(p, t)
BY DEF JobTrue, Unread, Dependents

LEMMA OthersTrue ==
  ASSUME NEW F, \A o \in Procs, x \in Tasks : JobTrue(F, o, x), CacheAssumption,
         NEW p \in Procs, NEW t \in Tasks, OthersStand(p, t), Unread(p, t), JobTrue(F, p, t)'
  PROVE  \A o \in Procs, x \in Tasks : JobTrue(F, o, x)'
<1> SUFFICES ASSUME NEW o \in Procs, NEW x \in Tasks, <<o, x>> # <<p, t>>
             PROVE  JobTrue(F, o, x)'
  BY DEF JobTrue
<1>1. /\ job'[o][x] = job[o][x] /\ disk'[o][x] = disk[o][x] /\ stamp'[o][x] = stamp[o][x]
      /\ input' = input
  BY DEF OthersStand
<1>2. /\ At(o, x)' = At(o, x) /\ Key(o, x)' = Key(o, x) /\ Rec(o, x)' = Rec(o, x)
      /\ Idle(o, x)' = Idle(o, x)
  BY <1>1 DEF At, Key, Rec, Idle
<1>3. ~Idle(o, x) => \A d \in DependsOn[x] :
        Ready(o, d) /\ Ready(o, d)' /\ disk'[o][d] = disk[o][d]
  <2> SUFFICES ASSUME ~Idle(o, x), NEW d \in DependsOn[x]
               PROVE  Ready(o, d) /\ Ready(o, d)' /\ disk'[o][d] = disk[o][d]
    OBVIOUS
  <2>1. Ready(o, d) /\ d \in Tasks
    BY CacheAssumption DEF JobTrue
  <2>2. CASE o = p /\ d = t
    BY <2>1, <2>2 DEF Unread, Dependents
  <2>3. CASE ~(o = p /\ d = t)
    BY <2>1, <2>3 DEF OthersStand, Ready, At
  <2> QED BY <2>2, <2>3
<1>4. ~Idle(o, x) => Product(o, x)' = Product(o, x)
  <2> SUFFICES ASSUME ~Idle(o, x) PROVE Product(o, x)' = Product(o, x)
    OBVIOUS
  <2>1. \A d \in DependsOn[x] : disk'[o][d] = disk[o][d]
    BY <1>3
  <2>2. {disk'[o][d] : d \in DependsOn[x]} = {disk[o][d] : d \in DependsOn[x]}
    BY <2>1
  <2> QED BY <1>1, <2>2 DEF Product
<1>5. JobTrue(F, o, x)
  OBVIOUS
<1> QED BY <1>1, <1>2, <1>3, <1>4, <1>5 DEF JobTrue, ByKey, ByOutput

(* The stores change at no key but k and the one being dropped.            *)
StoresStand(p, t) ==
  \A k : k # Key(p, t) /\ (doomed[p][t] # <<>> => k # Head(doomed[p][t])) =>
    /\ k \in DOMAIN record' => k \in DOMAIN record
    /\ k \in DOMAIN archive => k \in DOMAIN archive'
    /\ k \in DOMAIN far.archive <=> k \in DOMAIN far'.archive
    /\ k \in DOMAIN far.archive => far'.archive[k] = far.archive[k]

LEMMA CopiesTrue ==
  ASSUME NEW F, \A o \in Procs, x \in Tasks : CopyTrue(F, o, x),
         NEW p \in Procs, NEW t \in Tasks, ~Interferes(p, t),
         OthersStand(p, t), StoresStand(p, t), CopyTrue(F, p, t)'
  PROVE  \A o \in Procs, x \in Tasks : CopyTrue(F, o, x)'
<1> SUFFICES ASSUME NEW o \in Procs, NEW x \in Tasks, <<o, x>> # <<p, t>>
             PROVE  CopyTrue(F, o, x)'
  BY DEF CopyTrue
<1>1. At(o, x)' = At(o, x) /\ Key(o, x)' = Key(o, x)
  BY DEF OthersStand, At, Key
<1>2. CASE Copying(o, x)
  BY <1>1, <1>2, LeftAlone DEF CopyTrue, StoresStand
<1>3. CASE ~Copying(o, x)
  BY <1>1, <1>3 DEF CopyTrue, Copying
<1> QED BY <1>2, <1>3

(* Only one of two that are at an entry begins to copy it.                 *)
LEMMA CopiesStayApart ==
  ASSUME CopiesApart, NEW p \in Procs, NEW t \in Tasks, ~Interferes(p, t), OthersStand(p, t),
         Copying(p, t)' => Key(p, t)' = Key(p, t)
  PROVE  CopiesApart'
<1> SUFFICES ASSUME NEW o \in Procs, NEW x \in Tasks, <<o, x>> # <<p, t>>,
                    Copying(p, t)', Copying(o, x)', Key(p, t)' = Key(o, x)'
             PROVE  FALSE
  BY DEF CopiesApart, OthersStand, Copying, At, Key
<1>1. Copying(o, x) /\ Key(o, x)' = Key(o, x)
  BY DEF OthersStand, Copying, At, Key
<1> QED BY <1>1, LeftAlone

(* An entry that nobody else copies is what its key makes.                 *)
LEMMA NearEntry ==
  ASSUME NEW F, Faithful(F), NEW p \in Procs, NEW t \in Tasks, ~Interferes(p, t),
         At(p, t) # "pulling", Key(p, t) \in DOMAIN archive
  PROVE  Key(p, t) \in DOMAIN F /\ archive[Key(p, t)] = F[Key(p, t)]
<1>1. ArchivesTrue(F, archive, "pulling")
  BY DEF Faithful
<1> QED BY <1>1, LeftAlone DEF ArchivesTrue, Copying

LEMMA FarEntry ==
  ASSUME NEW F, Faithful(F), NEW p \in Procs, NEW t \in Tasks, ~Interferes(p, t),
         At(p, t) # "pushing", Key(p, t) \in DOMAIN far.archive
  PROVE  Key(p, t) \in DOMAIN F /\ far.archive[Key(p, t)] = F[Key(p, t)]
<1>1. ArchivesTrue(F, far.archive, "pushing")
  BY DEF Faithful
<1> QED BY <1>1, LeftAlone DEF ArchivesTrue, Copying

(* A step that makes of the entry it is at what it should be, or begins to *)
(* copy it, and at most drops others.                                      *)
LEMMA ArchivesMove ==
  ASSUME NEW F, NEW c, NEW f, ArchivesTrue(F, f, c), NEW g,
         NEW p \in Procs, NEW t \in Tasks, OthersStand(p, t),
         \A k \in DOMAIN g : k # Key(p, t) => k \in DOMAIN f /\ g[k] = f[k],
         Key(p, t) \in DOMAIN g =>
           /\ Key(p, t) \in DOMAIN F
           /\ g[Key(p, t)] = F[Key(p, t)] \/ (At(p, t)' = c /\ Key(p, t)' = Key(p, t))
  PROVE  \A k \in DOMAIN g : /\ k \in DOMAIN F
                             /\ \/ g[k] = F[k]
                                \/ \E o \in Procs, x \in Tasks : At(o, x)' = c /\ Key(o, x)' = k
<1> SUFFICES ASSUME NEW k \in DOMAIN g, k # Key(p, t)
             PROVE  /\ k \in DOMAIN F
                    /\ \/ g[k] = F[k]
                       \/ \E o \in Procs, x \in Tasks : At(o, x)' = c /\ Key(o, x)' = k
  OBVIOUS
<1>1. k \in DOMAIN F /\ (f[k] = F[k] \/ \E o \in Procs, x \in Tasks : At(o, x) = c /\ Key(o, x) = k)
  BY DEF ArchivesTrue
<1>2. ASSUME NEW o \in Procs, NEW x \in Tasks, At(o, x) = c, Key(o, x) = k
      PROVE  At(o, x)' = c /\ Key(o, x)' = k
  BY <1>2 DEF OthersStand, At, Key
<1> QED BY <1>1, <1>2

LEMMA NearMoves ==
  ASSUME NEW F, Faithful(F), NEW p \in Procs, NEW t \in Tasks, OthersStand(p, t),
         \A k \in DOMAIN archive' :
           k # Key(p, t) => k \in DOMAIN archive /\ archive'[k] = archive[k],
         Key(p, t) \in DOMAIN archive' =>
           /\ Key(p, t) \in DOMAIN F
           /\ \/ archive'[Key(p, t)] = F[Key(p, t)]
              \/ At(p, t)' = "pulling" /\ Key(p, t)' = Key(p, t)
  PROVE  ArchivesTrue(F, archive, "pulling")'
<1>1. ArchivesTrue(F, archive, "pulling")
  BY DEF Faithful
<1>2. \A k \in DOMAIN archive' :
        /\ k \in DOMAIN F
        /\ \/ archive'[k] = F[k]
           \/ \E o \in Procs, x \in Tasks : At(o, x)' = "pulling" /\ Key(o, x)' = k
  BY <1>1, ArchivesMove
<1> QED BY <1>2 DEF ArchivesTrue

LEMMA FarMoves ==
  ASSUME NEW F, Faithful(F), NEW p \in Procs, NEW t \in Tasks, OthersStand(p, t),
         \A k \in DOMAIN far'.archive :
           k # Key(p, t) => k \in DOMAIN far.archive /\ far'.archive[k] = far.archive[k],
         Key(p, t) \in DOMAIN far'.archive =>
           /\ Key(p, t) \in DOMAIN F
           /\ \/ far'.archive[Key(p, t)] = F[Key(p, t)]
              \/ At(p, t)' = "pushing" /\ Key(p, t)' = Key(p, t)
  PROVE  ArchivesTrue(F, far.archive, "pushing")'
<1>1. ArchivesTrue(F, far.archive, "pushing")
  BY DEF Faithful
<1>2. \A k \in DOMAIN far'.archive :
        /\ k \in DOMAIN F
        /\ \/ far'.archive[k] = F[k]
           \/ \E o \in Procs, x \in Tasks : At(o, x)' = "pushing" /\ Key(o, x)' = k
  BY <1>1, ArchivesMove
<1> QED BY <1>2 DEF ArchivesTrue

LEMMA PutsTrue ==
  ASSUME NEW F, NEW recs, RecordsTrue(F, recs), NEW k \in DOMAIN F, NEW r,
         r.output = F[k], k.task \notin Loose => r.archived
  PROVE  RecordsTrue(F, Put(recs, k, r))
<1>1. DOMAIN Put(recs, k, r) = DOMAIN recs \cup {k}
  BY DEF Put
<1>2. Put(recs, k, r)[k] = r
  BY DEF Put
<1>3. \A x \in DOMAIN recs : x # k => Put(recs, k, r)[x] = recs[x]
  BY DEF Put
<1> QED BY <1>1, <1>2, <1>3 DEF RecordsTrue

(* What a step of a task has to leave true for all of it to stay true.     *)
LEMMA MoveTrue ==
  ASSUME CacheAssumption, NEW F, Faithful(F), NEW p \in Procs, NEW t \in Tasks,
         ~Interferes(p, t), OthersStand(p, t), Unread(p, t), StoresStand(p, t),
         JobTrue(F, p, t)', CopyTrue(F, p, t)', Copying(p, t)' => Key(p, t)' = Key(p, t),
         RecordsTrue(F, record)', RecordsTrue(F, far.record)',
         ArchivesTrue(F, archive, "pulling")', ArchivesTrue(F, far.archive, "pushing")'
  PROVE  Faithful(F)'
<1>1. \A o \in Procs, x \in Tasks : JobTrue(F, o, x)'
  BY OthersTrue DEF Faithful
<1>2. \A o \in Procs, x \in Tasks : CopyTrue(F, o, x)'
  BY CopiesTrue DEF Faithful
<1>3. CopiesApart'
  BY CopiesStayApart DEF Faithful
<1> QED BY <1>1, <1>2, <1>3 DEF Faithful, Determines, Value

(* A step that begins or ends no copy leaves archives as good as they are. *)
LEMMA ArchivesStay ==
  ASSUME NEW F, NEW c, NEW f, ArchivesTrue(F, f, c),
         NEW p \in Procs, NEW t \in Tasks, OthersStand(p, t), At(p, t) # c
  PROVE  \A k \in DOMAIN f : /\ k \in DOMAIN F
                             /\ \/ f[k] = F[k]
                                \/ \E o \in Procs, x \in Tasks : At(o, x)' = c /\ Key(o, x)' = k
<1> SUFFICES ASSUME NEW k \in DOMAIN f, NEW o \in Procs, NEW x \in Tasks,
                    At(o, x) = c, Key(o, x) = k
             PROVE  At(o, x)' = c /\ Key(o, x)' = k
  BY DEF ArchivesTrue
<1> QED BY DEF OthersStand, At, Key

LEMMA FarStays ==
  ASSUME NEW F, Faithful(F), NEW p \in Procs, NEW t \in Tasks, OthersStand(p, t),
         At(p, t) # "pushing", UNCHANGED far
  PROVE  ArchivesTrue(F, far.archive, "pushing")'
<1>1. far'.archive = far.archive /\ ArchivesTrue(F, far.archive, "pushing")
  BY DEF Faithful
<1>2. \A k \in DOMAIN far.archive :
        /\ k \in DOMAIN F
        /\ \/ far.archive[k] = F[k]
           \/ \E o \in Procs, x \in Tasks : At(o, x)' = "pushing" /\ Key(o, x)' = k
  BY <1>1, ArchivesStay
<1> QED BY <1>1, <1>2 DEF ArchivesTrue

LEMMA NearStays ==
  ASSUME NEW F, Faithful(F), NEW p \in Procs, NEW t \in Tasks, OthersStand(p, t),
         At(p, t) # "pulling", UNCHANGED archive
  PROVE  ArchivesTrue(F, archive, "pulling")'
<1>1. ArchivesTrue(F, archive, "pulling")
  BY DEF Faithful
<1>2. \A k \in DOMAIN archive :
        /\ k \in DOMAIN F
        /\ \/ archive[k] = F[k]
           \/ \E o \in Procs, x \in Tasks : At(o, x)' = "pulling" /\ Key(o, x)' = k
  BY <1>1, ArchivesStay
<1> QED BY <1>2 DEF ArchivesTrue

(* What a step has to leave true that does not touch the stores.           *)
LEMMA QuietMoveTrue ==
  ASSUME CacheAssumption, NEW F, Faithful(F), NEW p \in Procs, NEW t \in Tasks,
         ~Interferes(p, t), OthersStand(p, t), Unread(p, t), UNCHANGED <<record, archive, far>>,
         ~Copying(p, t), ~Copying(p, t)', JobTrue(F, p, t)'
  PROVE  Faithful(F)'
<1>1. StoresStand(p, t) /\ CopyTrue(F, p, t)'
  BY DEF StoresStand, CopyTrue, Copying
<1>2. RecordsTrue(F, record)' /\ RecordsTrue(F, far.record)'
  BY DEF Faithful, RecordsTrue
<1>3. ArchivesTrue(F, archive, "pulling")' /\ ArchivesTrue(F, far.archive, "pushing")'
  BY NearStays, FarStays DEF Copying
<1> QED BY <1>1, <1>2, <1>3, MoveTrue

(***************************************************************************)
(* The tasks, one step after another.                                      *)
(***************************************************************************)

(* Inputs are edited while nothing reads them, copies are whole, and only  *)
(* what is sure to be archived is read by other tasks.                     *)
Sheltered ==
  Calm /\ WholeCopies /\ \A t \in Tasks : DependsOn[t] \cap Loose = {}

(* What t in p reads is not touched by its own steps.                      *)
LEMMA DepsStay ==
  ASSUME CacheAssumption, NEW p \in Procs, NEW t \in Tasks, OthersStand(p, t)
  PROVE  /\ Product(p, t)' = Product(p, t)
         /\ (\A d \in DependsOn[t] : Ready(p, d)) => \A d \in DependsOn[t] : Ready(p, d)'
<1>1. \A d \in DependsOn[t] : disk'[p][d] = disk[p][d] /\ (Ready(p, d) => Ready(p, d)')
  BY DEF CacheAssumption, OthersStand, Ready, At
<1>2. {disk'[p][d] : d \in DependsOn[t]} = {disk[p][d] : d \in DependsOn[t]}
  BY <1>1
<1> QED BY <1>1, <1>2 DEF Product, OthersStand

LEMMA LoadsTrue ==
  ASSUME CacheAssumption, Shaped, NEW F, Faithful(F), NEW p \in Procs, NEW t \in Tasks,
         ~Interferes(p, t), Loads(p, t)
  PROVE  Faithful(F)'
<1>1. /\ At(p, t) = "keyed" /\ At(p, t)' = "found" /\ Key(p, t)' = Key(p, t)
      /\ Rec(p, t)' = record[Key(p, t)] /\ job'[p][t].ideal = job[p][t].ideal
      /\ \A o \in Procs, x \in Tasks : <<o, x>> # <<p, t>> => job'[o][x] = job[o][x]
      /\ UNCHANGED <<disk, stamp, doomed, input, record, archive, far>>
      /\ Key(p, t) \in DOMAIN record
  BY DEF Shaped, Loads, At, Key, Rec, work, sweep, Has
<1>2. OthersStand(p, t)
  BY <1>1 DEF OthersStand
<1>a. Unread(p, t)
  BY <1>1, BusyHasDeps DEF Faithful, Ready, Saving
<1>3. JobTrue(F, p, t) /\ RecordsTrue(F, record)
  BY DEF Faithful
<1>4. JobTrue(F, p, t)'
  BY <1>1, <1>2, <1>3, DepsStay
     DEF JobTrue, RecordsTrue, Keyed, Saving, Resting, Holding, Named, Idle, ByKey
<1> QED BY <1>1, <1>2, <1>a, <1>4, QuietMoveTrue DEF Copying

LEMMA StepsTrue ==
  ASSUME CacheAssumption, Shaped, NEW F, Faithful(F), NEW p \in Procs, NEW t \in Tasks,
         ~Interferes(p, t),
         Misses(p, t) \/ Unservable(p, t) \/ Spawns(p, t) \/ Succeeds(p, t)
  PROVE  Faithful(F)'
<1> DEFINE c == At(p, t)'
<1>1. /\ Step(p, t, c)
      /\ \/ At(p, t) \in {"keyed", "found"} /\ c = "missed" /\ disk' = disk
         \/ At(p, t) = "missed" /\ c = "running" /\ disk' = [disk EXCEPT ![p][t] = Torn]
         \/ At(p, t) = "running" /\ c = "done" /\ disk' = [disk EXCEPT ![p][t] = Product(p, t)]
      /\ UNCHANGED <<stamp, doomed, input, record, archive, far>>
  <2>1. CASE Misses(p, t) \/ Unservable(p, t)
    <3>1. Step(p, t, "missed") /\ At(p, t) \in {"keyed", "found"} /\ disk' = disk
      BY <2>1 DEF Misses, Unservable, work
    <3> QED BY <2>1, <3>1, StepMoves DEF Misses, Unservable, work, local, sweep
  <2>2. CASE Spawns(p, t)
    <3>1. At(p, t)' = "running"
      BY <2>2, StepMoves DEF Spawns
    <3> QED BY <2>2, <3>1 DEF Spawns, work, local, sweep
  <2>3. CASE Succeeds(p, t)
    <3>1. At(p, t)' = "done"
      BY <2>3, StepMoves DEF Succeeds
    <3> QED BY <2>3, <3>1 DEF Succeeds, work, local, sweep
  <2> QED BY <2>1, <2>2, <2>3
<1>2. /\ Key(p, t)' = Key(p, t) /\ Rec(p, t)' = Rec(p, t) /\ job'[p][t].ideal = job[p][t].ideal
      /\ \A o \in Procs, x \in Tasks : <<o, x>> # <<p, t>> => job'[o][x] = job[o][x]
  BY <1>1, StepMoves
<1>3. OthersStand(p, t)
  BY <1>1, <1>2, WriteMoves DEF OthersStand, Shaped
<1>a. Unread(p, t)
  BY <1>1, BusyHasDeps DEF Faithful, Ready, Saving
<1>4. JobTrue(F, p, t)
  BY DEF Faithful
<1>5. c = "done" => disk'[p][t] = Product(p, t)
  BY <1>1, WriteMoves DEF Shaped
<1>6. JobTrue(F, p, t)'
  BY <1>1, <1>2, <1>3, <1>4, <1>5, DepsStay
     DEF JobTrue, Keyed, Saving, Resting, Holding, Named, Idle, ByKey
<1> QED BY <1>1, <1>3, <1>a, <1>6, QuietMoveTrue DEF Copying

LEMMA FailsTrue ==
  ASSUME CacheAssumption, Shaped, NEW F, Faithful(F), NEW p \in Procs, NEW t \in Tasks,
         ~Interferes(p, t), Fails(p, t)
  PROVE  Faithful(F)'
<1>1. /\ At(p, t) = "running" /\ At(p, t)' = "failed"
      /\ \A o \in Procs, x \in Tasks : <<o, x>> # <<p, t>> => job'[o][x] = job[o][x]
      /\ UNCHANGED <<disk, stamp, doomed, input, record, archive, far>>
  BY RestMoves DEF Fails, work, local, sweep
<1>2. OthersStand(p, t)
  BY <1>1 DEF OthersStand
<1>3. Unread(p, t)
  BY <1>1, BusyHasDeps DEF Faithful, Ready, Saving
<1>4. JobTrue(F, p, t)'
  BY <1>1 DEF JobTrue, Keyed, Saving, Resting, Holding, Named, Idle
<1> QED BY <1>1, <1>2, <1>3, <1>4, QuietMoveTrue DEF Copying

LEMMA ReplaysTrue ==
  ASSUME CacheAssumption, Shaped, NEW F, Faithful(F), NEW p \in Procs, NEW t \in Tasks,
         ~Interferes(p, t), Replays(p, t)
  PROVE  Faithful(F)'
<1>1. /\ At(p, t) = "found" /\ At(p, t)' \in {"hit", "checking"}
      /\ Step(p, t, At(p, t)')
      /\ UNCHANGED <<doomed, input, record, archive, far>>
      /\ disk' = IF Rec(p, t).archived
                 THEN [disk EXCEPT ![p][t] = archive[Key(p, t)]] ELSE disk
      /\ stamp' = IF At(p, t)' = "hit"
                  THEN [stamp EXCEPT ![p][t] = ByOutput(Rec(p, t).output)] ELSE stamp
      /\ Rec(p, t).archived => Key(p, t) \in DOMAIN archive
  BY StepMoves DEF Replays, Restores, Servable, Has, local, sweep
<1>2. /\ Key(p, t)' = Key(p, t) /\ Rec(p, t)' = Rec(p, t) /\ job'[p][t].ideal = job[p][t].ideal
      /\ \A o \in Procs, x \in Tasks : <<o, x>> # <<p, t>> => job'[o][x] = job[o][x]
  BY <1>1, StepMoves
<1>3. JobTrue(F, p, t) /\ ArchivesTrue(F, archive, "pulling")
  BY DEF Faithful
<1>4. Rec(p, t).output = F[Key(p, t)] /\ (t \notin Loose => Rec(p, t).archived)
  BY <1>1, <1>3 DEF JobTrue, Holding
<1>5. Rec(p, t).archived => disk'[p][t] = F[Key(p, t)]
  <2> SUFFICES ASSUME Rec(p, t).archived PROVE disk'[p][t] = F[Key(p, t)]
    OBVIOUS
  <2>1. archive[Key(p, t)] = F[Key(p, t)]
    BY <1>1, <1>4, NearEntry
  <2>2. disk' = [disk EXCEPT ![p][t] = archive[Key(p, t)]]
    BY <1>1, <1>4
  <2> QED BY <2>1, <2>2 DEF Shaped
<1>6. IF At(p, t)' = "hit" THEN stamp'[p][t] = ByOutput(F[Key(p, t)])
                           ELSE stamp'[p][t] = stamp[p][t]
  BY <1>1, <1>4, WriteMoves DEF Shaped
<1>7. OthersStand(p, t)
  <2>1. \A o \in Procs, x \in Tasks : <<o, x>> # <<p, t>> => disk'[o][x] = disk[o][x]
    BY <1>1, WriteMoves DEF Shaped
  <2>2. \A o \in Procs, x \in Tasks : <<o, x>> # <<p, t>> => stamp'[o][x] = stamp[o][x]
    BY <1>1, WriteMoves DEF Shaped
  <2> QED BY <1>1, <1>2, <2>1, <2>2 DEF OthersStand
<1>8. Unread(p, t)
  BY <1>1, BusyHasDeps DEF Faithful, Ready, Saving
<1>9. JobTrue(F, p, t)'
  BY <1>1, <1>2, <1>3, <1>4, <1>5, <1>6, <1>7, DepsStay
     DEF JobTrue, Keyed, Saving, Resting, Holding, Named, Idle, ByKey, ByOutput
<1> QED BY <1>1, <1>7, <1>8, <1>9, QuietMoveTrue DEF Copying

(* The command makes again what the record says.                           *)
LEMMA RechecksTrue ==
  ASSUME CacheAssumption, Shaped, NEW F, Faithful(F), NEW p \in Procs, NEW t \in Tasks,
         ~Interferes(p, t), Rechecks(p, t), At(p, t)' = "hit"
  PROVE  Faithful(F)'
<1>1. /\ At(p, t) = "checking" /\ Step(p, t, "hit")
      /\ disk' = [disk EXCEPT ![p][t] = Product(p, t)]
      /\ stamp' = [stamp EXCEPT ![p][t] = ByOutput(Rec(p, t).output)]
      /\ UNCHANGED <<doomed, input, record, archive, far>>
  <2>1. ~Rest(p, t, "failed")
    BY RestMoves
  <2> QED BY <2>1 DEF Rechecks, local, sweep
<1>2. /\ Key(p, t)' = Key(p, t) /\ Rec(p, t)' = Rec(p, t) /\ job'[p][t].ideal = job[p][t].ideal
      /\ \A o \in Procs, x \in Tasks : <<o, x>> # <<p, t>> => job'[o][x] = job[o][x]
  BY <1>1, StepMoves
<1>3. JobTrue(F, p, t)
  BY DEF Faithful
<1>4. Rec(p, t).output = F[Key(p, t)] /\ Product(p, t) = F[Key(p, t)]
  BY <1>1, <1>3 DEF JobTrue, Holding, Idle, Resting
<1>5. disk'[p][t] = F[Key(p, t)] /\ stamp'[p][t] = ByOutput(F[Key(p, t)])
  BY <1>1, <1>4, WriteMoves DEF Shaped
<1>6. OthersStand(p, t)
  <2>1. \A o \in Procs, x \in Tasks : <<o, x>> # <<p, t>> =>
          disk'[o][x] = disk[o][x] /\ stamp'[o][x] = stamp[o][x]
    BY <1>1, WriteMoves DEF Shaped
  <2> QED BY <1>1, <1>2, <2>1 DEF OthersStand
<1>7. Unread(p, t)
  BY <1>1, BusyHasDeps DEF Faithful, Ready, Saving
<1>8. JobTrue(F, p, t)'
  BY <1>1, <1>2, <1>3, <1>5, <1>6, DepsStay
     DEF JobTrue, Keyed, Saving, Resting, Holding, Named, Idle, ByKey, ByOutput
<1> QED BY <1>1, <1>6, <1>7, <1>8, QuietMoveTrue DEF Copying

(* Or the entry is forgotten.                                              *)
LEMMA ForgetsTrue ==
  ASSUME CacheAssumption, Shaped, NEW F, Faithful(F), NEW p \in Procs, NEW t \in Tasks,
         ~Interferes(p, t), Rechecks(p, t), At(p, t)' # "hit"
  PROVE  Faithful(F)'
<1>1. /\ At(p, t) = "checking" /\ Rest(p, t, "failed")
      /\ record' = Drop(record, Key(p, t)) /\ archive' = Drop(archive, Key(p, t))
      /\ UNCHANGED <<stamp, doomed, input, far>>
      /\ \E v : disk' = [disk EXCEPT ![p][t] = v]
  <2>1. ~Step(p, t, "hit")
    BY StepMoves
  <2> QED BY <2>1 DEF Rechecks, sweep
<1>2. /\ At(p, t)' = "failed"
      /\ \A o \in Procs, x \in Tasks : <<o, x>> # <<p, t>> => job'[o][x] = job[o][x]
  BY <1>1, RestMoves
<1>3. OthersStand(p, t)
  <2>1. \A o \in Procs, x \in Tasks : <<o, x>> # <<p, t>> => disk'[o][x] = disk[o][x]
    BY <1>1, WriteMoves DEF Shaped
  <2> QED BY <1>1, <1>2, <2>1 DEF OthersStand
<1>4. Unread(p, t)
  BY <1>1, BusyHasDeps DEF Faithful, Ready, Saving
<1>5. JobTrue(F, p, t)'
  BY <1>2 DEF JobTrue, Keyed, Saving, Resting, Holding, Named, Idle
<1>6. /\ DOMAIN record' = DOMAIN record \ {Key(p, t)}
      /\ \A k \in DOMAIN record : k # Key(p, t) => record'[k] = record[k]
  BY <1>1 DEF Drop
<1>a. /\ DOMAIN archive' = DOMAIN archive \ {Key(p, t)}
      /\ \A k \in DOMAIN archive : k # Key(p, t) => archive'[k] = archive[k]
  BY <1>1 DEF Drop
<1>7. StoresStand(p, t) /\ CopyTrue(F, p, t)' /\ ~Copying(p, t)'
  BY <1>1, <1>2, <1>6, <1>a DEF StoresStand, CopyTrue, Copying
<1>8. RecordsTrue(F, record)' /\ RecordsTrue(F, far.record)'
  BY <1>1, <1>6 DEF Faithful, RecordsTrue
<1>9. ArchivesTrue(F, archive, "pulling")'
  <2>1. ArchivesTrue(F, archive, "pulling")
    BY DEF Faithful
  <2>2. \A k \in DOMAIN archive' :
          /\ k \in DOMAIN F
          /\ \/ archive'[k] = F[k]
             \/ \E o \in Procs, x \in Tasks : At(o, x)' = "pulling" /\ Key(o, x)' = k
    BY <1>3, <1>a, <2>1, ArchivesMove
  <2> QED BY <2>2 DEF ArchivesTrue
<1>10. ArchivesTrue(F, far.archive, "pushing")'
  BY <1>1, <1>3, FarStays
<1> QED BY <1>3, <1>4, <1>5, <1>7, <1>8, <1>9, <1>10, MoveTrue

LEMMA ClearsTrue ==
  ASSUME CacheAssumption, Shaped, NEW F, Faithful(F), NEW p \in Procs, NEW t \in Tasks,
         ~Interferes(p, t), Clears(p, t)
  PROVE  Faithful(F)'
<1>1. /\ At(p, t) = "done" /\ Step(p, t, "cleared") /\ archive' = Drop(archive, Key(p, t))
      /\ UNCHANGED <<disk, stamp, doomed, input, record, far>>
  BY DEF Clears, work, sweep
<1>2. /\ At(p, t)' = "cleared" /\ Key(p, t)' = Key(p, t) /\ Rec(p, t)' = Rec(p, t)
      /\ job'[p][t].ideal = job[p][t].ideal
      /\ \A o \in Procs, x \in Tasks : <<o, x>> # <<p, t>> => job'[o][x] = job[o][x]
  BY <1>1, StepMoves
<1>3. OthersStand(p, t)
  BY <1>1, <1>2 DEF OthersStand
<1>4. JobTrue(F, p, t)
  BY DEF Faithful
<1>5. Ready(p, t) /\ Ready(p, t)' /\ Unread(p, t)
  BY <1>1, <1>2 DEF Unread, Ready, Saving
<1>6. JobTrue(F, p, t)'
  BY <1>1, <1>2, <1>3, <1>4, DepsStay
     DEF JobTrue, Keyed, Saving, Resting, Holding, Named, Idle, ByKey, ByOutput
<1>7. /\ DOMAIN archive' = DOMAIN archive \ {Key(p, t)}
      /\ \A k \in DOMAIN archive : k # Key(p, t) => archive'[k] = archive[k]
  BY <1>1 DEF Drop
<1>8. StoresStand(p, t) /\ CopyTrue(F, p, t)' /\ ~Copying(p, t)'
  BY <1>1, <1>2, <1>7 DEF StoresStand, CopyTrue, Copying
<1>9. RecordsTrue(F, record)' /\ RecordsTrue(F, far.record)'
  BY <1>1 DEF Faithful, RecordsTrue
<1>10. ArchivesTrue(F, archive, "pulling")'
  BY <1>3, <1>7, NearMoves
<1>11. ArchivesTrue(F, far.archive, "pushing")'
  BY <1>1, <1>3, FarStays
<1> QED BY <1>3, <1>5, <1>6, <1>8, <1>9, <1>10, <1>11, MoveTrue

LEMMA PublishesTrue ==
  ASSUME CacheAssumption, Shaped, NEW F, Faithful(F), NEW p \in Procs, NEW t \in Tasks,
         ~Interferes(p, t), Publishes(p, t)
  PROVE  Faithful(F)'
<1>1. /\ At(p, t) \in {"done", "cleared"}
      /\ \E kept : Says(p, t, kept) /\ (t \notin Loose => kept)
      /\ \/ archive' = archive
         \/ archive' = Put(archive, Key(p, t),
              IF Key(p, t) \in DOMAIN archive THEN archive[Key(p, t)] ELSE disk[p][t])
      /\ UNCHANGED <<disk, stamp, doomed, input, record, far>>
  BY DEF Publishes, work, sweep, Has, Loose
<1>2. /\ At(p, t)' = "archived" /\ Key(p, t)' = Key(p, t)
      /\ Rec(p, t)'.output = disk[p][t] /\ (t \notin Loose => Rec(p, t)'.archived)
      /\ job'[p][t].ideal = job[p][t].ideal
      /\ \A o \in Procs, x \in Tasks : <<o, x>> # <<p, t>> => job'[o][x] = job[o][x]
  BY <1>1, SaysMoves
<1>3. OthersStand(p, t)
  BY <1>1, <1>2 DEF OthersStand
<1>4. JobTrue(F, p, t)
  BY DEF Faithful
<1>5. Ready(p, t) /\ Ready(p, t)' /\ Unread(p, t)
  BY <1>1, <1>2 DEF Unread, Ready, Saving
<1>6. JobTrue(F, p, t)'
  BY <1>1, <1>2, <1>3, <1>4, DepsStay
     DEF JobTrue, Keyed, Saving, Resting, Holding, Named, Idle, ByKey, ByOutput
<1>7. /\ \A k \in DOMAIN archive' : k # Key(p, t) => k \in DOMAIN archive /\ archive'[k] = archive[k]
      /\ DOMAIN archive \subseteq DOMAIN archive'
  BY <1>1 DEF Put
<1>8. StoresStand(p, t) /\ CopyTrue(F, p, t)' /\ ~Copying(p, t)'
  BY <1>1, <1>2, <1>7 DEF StoresStand, CopyTrue, Copying
<1>9. RecordsTrue(F, record)' /\ RecordsTrue(F, far.record)'
  BY <1>1 DEF Faithful, RecordsTrue
<1>10. /\ Key(p, t) \in DOMAIN F /\ disk[p][t] = F[Key(p, t)]
       /\ Key(p, t) \in DOMAIN archive => archive[Key(p, t)] = F[Key(p, t)]
  BY <1>1, <1>4, NearEntry DEF JobTrue, Keyed, Saving
<1>11. Key(p, t) \in DOMAIN archive' => archive'[Key(p, t)] = F[Key(p, t)]
  BY <1>1, <1>10 DEF Put
<1>12. ArchivesTrue(F, archive, "pulling")'
  BY <1>3, <1>7, <1>10, <1>11, NearMoves
<1>13. ArchivesTrue(F, far.archive, "pushing")'
  BY <1>1, <1>3, FarStays
<1> QED BY <1>3, <1>5, <1>6, <1>8, <1>9, <1>12, <1>13, MoveTrue

LEMMA StoresTrue ==
  ASSUME CacheAssumption, Shaped, NEW F, Faithful(F), NEW p \in Procs, NEW t \in Tasks,
         ~Interferes(p, t), Stores(p, t)
  PROVE  Faithful(F)'
<1>1. /\ At(p, t) = "archived" /\ Step(p, t, "sweeping")
      /\ stamp' = [stamp EXCEPT ![p][t] = ByOutput(disk[p][t])]
      /\ record' = Put(record, Key(p, t), Rec(p, t))
      /\ \E l : doomed' = doomed \/ doomed' = [doomed EXCEPT ![p][t] = l]
      /\ UNCHANGED <<disk, input, archive, far>>
  BY DEF Stores
<1>2. /\ At(p, t)' = "sweeping" /\ Key(p, t)' = Key(p, t) /\ Rec(p, t)' = Rec(p, t)
      /\ job'[p][t].ideal = job[p][t].ideal
      /\ \A o \in Procs, x \in Tasks : <<o, x>> # <<p, t>> => job'[o][x] = job[o][x]
  BY <1>1, StepMoves
<1>3. OthersStand(p, t)
  <2>1. \A o \in Procs, x \in Tasks : <<o, x>> # <<p, t>> => stamp'[o][x] = stamp[o][x]
    BY <1>1, WriteMoves DEF Shaped
  <2>2. \A o \in Procs, x \in Tasks : <<o, x>> # <<p, t>> => doomed'[o][x] = doomed[o][x]
    BY <1>1, WriteMoves DEF Shaped
  <2> QED BY <1>1, <1>2, <2>1, <2>2 DEF OthersStand
<1>4. JobTrue(F, p, t)
  BY DEF Faithful
<1>5. Ready(p, t) /\ Ready(p, t)' /\ Unread(p, t)
  BY <1>1, <1>2 DEF Unread, Ready, Saving
<1>6. stamp'[p][t] = ByOutput(disk[p][t])
  BY <1>1 DEF Shaped
<1>7. JobTrue(F, p, t)'
  BY <1>1, <1>2, <1>3, <1>4, <1>6, DepsStay
     DEF JobTrue, Keyed, Saving, Resting, Holding, Named, Idle, ByKey, ByOutput
<1>8. /\ DOMAIN record' = DOMAIN record \cup {Key(p, t)}
      /\ \A k \in DOMAIN record : k # Key(p, t) => record'[k] = record[k]
      /\ record'[Key(p, t)] = Rec(p, t)
  BY <1>1 DEF Put
<1>9. StoresStand(p, t) /\ CopyTrue(F, p, t)' /\ ~Copying(p, t)'
  BY <1>1, <1>2, <1>8 DEF StoresStand, CopyTrue, Copying
<1>10. RecordsTrue(F, record)' /\ RecordsTrue(F, far.record)'
  <2>1. /\ Key(p, t) \in DOMAIN F /\ Key(p, t).task = t
        /\ Rec(p, t).output = F[Key(p, t)] /\ (t \notin Loose => Rec(p, t).archived)
    BY <1>1, <1>4 DEF JobTrue, Keyed, Saving, Holding
  <2>2. RecordsTrue(F, record) /\ RecordsTrue(F, far.record)
    BY DEF Faithful
  <2>3. RecordsTrue(F, Put(record, Key(p, t), Rec(p, t)))
    BY <2>1, <2>2, PutsTrue
  <2>4. RecordsTrue(F, record)'
    BY <1>1, <2>3 DEF RecordsTrue
  <2> QED BY <1>1, <2>2, <2>4 DEF RecordsTrue
<1>11. ArchivesTrue(F, archive, "pulling")' /\ ArchivesTrue(F, far.archive, "pushing")'
  BY <1>1, <1>3, NearStays, FarStays
<1> QED BY <1>3, <1>5, <1>7, <1>9, <1>10, <1>11, MoveTrue

LEMMA DropsRecordTrue ==
  ASSUME CacheAssumption, Shaped, NEW F, Faithful(F), NEW p \in Procs, NEW t \in Tasks,
         ~Interferes(p, t), DropsRecord(p, t)
  PROVE  Faithful(F)'
<1>1. /\ At(p, t) = "sweeping" /\ Step(p, t, "dropping")
      /\ record' = Drop(record, Head(doomed[p][t]))
      /\ UNCHANGED <<disk, stamp, doomed, input, archive, far>>
  BY DEF DropsRecord, work, sweep
<1>2. /\ At(p, t)' = "dropping" /\ Key(p, t)' = Key(p, t) /\ Rec(p, t)' = Rec(p, t)
      /\ job'[p][t].ideal = job[p][t].ideal
      /\ \A o \in Procs, x \in Tasks : <<o, x>> # <<p, t>> => job'[o][x] = job[o][x]
  BY <1>1, StepMoves
<1>3. OthersStand(p, t)
  BY <1>1, <1>2 DEF OthersStand
<1>4. JobTrue(F, p, t)
  BY DEF Faithful
<1>5. Ready(p, t) /\ Ready(p, t)' /\ Unread(p, t)
  BY <1>1, <1>2 DEF Unread, Ready, Saving
<1>6. JobTrue(F, p, t)'
  BY <1>1, <1>2, <1>3, <1>4, DepsStay
     DEF JobTrue, Keyed, Saving, Resting, Holding, Named, Idle, ByKey, ByOutput
<1>7. /\ DOMAIN record' \subseteq DOMAIN record
      /\ \A k \in DOMAIN record' : record'[k] = record[k]
  BY <1>1 DEF Drop
<1>8. StoresStand(p, t) /\ CopyTrue(F, p, t)' /\ ~Copying(p, t)'
  BY <1>1, <1>2, <1>7 DEF StoresStand, CopyTrue, Copying
<1>9. RecordsTrue(F, record)' /\ RecordsTrue(F, far.record)'
  BY <1>1, <1>7 DEF Faithful, RecordsTrue
<1>10. ArchivesTrue(F, archive, "pulling")' /\ ArchivesTrue(F, far.archive, "pushing")'
  BY <1>1, <1>3, NearStays, FarStays
<1> QED BY <1>3, <1>5, <1>6, <1>8, <1>9, <1>10, MoveTrue

LEMMA DropsArchiveTrue ==
  ASSUME CacheAssumption, Shaped, NEW F, Faithful(F), NEW p \in Procs, NEW t \in Tasks,
         ~Interferes(p, t), DropsArchive(p, t)
  PROVE  Faithful(F)'
<1>1. /\ At(p, t) = "dropping" /\ Step(p, t, "sweeping")
      /\ archive' = Drop(archive, Head(doomed[p][t])) /\ doomed[p][t] # <<>>
      /\ doomed' = [doomed EXCEPT ![p][t] = Tail(doomed[p][t])]
      /\ UNCHANGED <<disk, stamp, input, record, far>>
  BY DEF DropsArchive, work, Shaped
<1>2. /\ At(p, t)' = "sweeping" /\ Key(p, t)' = Key(p, t) /\ Rec(p, t)' = Rec(p, t)
      /\ job'[p][t].ideal = job[p][t].ideal
      /\ \A o \in Procs, x \in Tasks : <<o, x>> # <<p, t>> => job'[o][x] = job[o][x]
  BY <1>1, StepMoves
<1>3. OthersStand(p, t)
  <2>1. \A o \in Procs, x \in Tasks : <<o, x>> # <<p, t>> => doomed'[o][x] = doomed[o][x]
    BY <1>1, WriteMoves DEF Shaped
  <2> QED BY <1>1, <1>2, <2>1 DEF OthersStand
<1>4. JobTrue(F, p, t)
  BY DEF Faithful
<1>5. Ready(p, t) /\ Ready(p, t)' /\ Unread(p, t)
  BY <1>1, <1>2 DEF Unread, Ready, Saving
<1>6. JobTrue(F, p, t)'
  BY <1>1, <1>2, <1>3, <1>4, DepsStay
     DEF JobTrue, Keyed, Saving, Resting, Holding, Named, Idle, ByKey, ByOutput
<1>7. /\ DOMAIN archive' = DOMAIN archive \ {Head(doomed[p][t])}
      /\ \A k \in DOMAIN archive' : archive'[k] = archive[k]
  BY <1>1 DEF Drop
<1>8. StoresStand(p, t) /\ CopyTrue(F, p, t)' /\ ~Copying(p, t)'
  BY <1>1, <1>2, <1>7 DEF StoresStand, CopyTrue, Copying
<1>9. RecordsTrue(F, record)' /\ RecordsTrue(F, far.record)'
  BY <1>1 DEF Faithful, RecordsTrue
<1>10. Key(p, t) \in DOMAIN archive' =>
         Key(p, t) \in DOMAIN F /\ archive'[Key(p, t)] = F[Key(p, t)]
  BY <1>1, <1>7, NearEntry
<1>11. ArchivesTrue(F, archive, "pulling")'
  BY <1>3, <1>7, <1>10, NearMoves
<1>12. ArchivesTrue(F, far.archive, "pushing")'
  BY <1>1, <1>3, FarStays
<1> QED BY <1>3, <1>5, <1>6, <1>8, <1>9, <1>11, <1>12, MoveTrue

(* The task is over, and has pushed nothing, or its record alone.          *)
LEMMA KeepsTrue ==
  ASSUME CacheAssumption, Shaped, NEW F, Faithful(F), NEW p \in Procs, NEW t \in Tasks,
         ~Interferes(p, t), Pushes(p, t), At(p, t)' # "pushing"
  PROVE  Faithful(F)'
<1> DEFINE k == Key(p, t)
           r == Rec(p, t)
<1>1. /\ At(p, t) = "sweeping" /\ Rest(p, t, "built")
      /\ UNCHANGED <<disk, stamp, doomed, input, record, archive>>
      /\ far' = far \/ far' = [far EXCEPT !.record = Put(far.record, k, r)]
  <2>1. ~Step(p, t, "pushing")
    BY StepMoves
  <2> QED BY <2>1 DEF Pushes, work, local, sweep
<1>2. /\ At(p, t)' = "built"
      /\ \A o \in Procs, x \in Tasks : <<o, x>> # <<p, t>> => job'[o][x] = job[o][x]
  BY <1>1, RestMoves
<1>3. OthersStand(p, t)
  BY <1>1, <1>2 DEF OthersStand
<1>4. JobTrue(F, p, t) /\ RecordsTrue(F, record) /\ RecordsTrue(F, far.record)
  BY DEF Faithful
<1>5. Ready(p, t) /\ Ready(p, t)' /\ Unread(p, t)
  BY <1>1, <1>2 DEF Unread, Ready, Saving
<1>6. JobTrue(F, p, t)'
  BY <1>1, <1>2, <1>4 DEF JobTrue, Keyed, Saving, Resting, Holding, Named, Idle, ByOutput
<1>7. k \in DOMAIN F /\ r.output = F[k] /\ (k.task \notin Loose => r.archived)
  BY <1>1, <1>4 DEF JobTrue, Keyed, Saving, Holding
<1>8. far'.archive = far.archive
      /\ (far'.record = far.record \/ far'.record = Put(far.record, k, r))
  BY <1>1 DEF Shaped
<1>9. StoresStand(p, t)
  BY <1>1, <1>8 DEF StoresStand
<1>10. CopyTrue(F, p, t)' /\ ~Copying(p, t)'
  BY <1>2 DEF CopyTrue, Copying
<1>11. RecordsTrue(F, record)' /\ RecordsTrue(F, far.record)'
  <2> HIDE DEF r, k
  <2>1. RecordsTrue(F, Put(far.record, k, r))
    BY <1>4, <1>7, PutsTrue
  <2>2. RecordsTrue(F, far'.record)
    BY <1>4, <1>8, <2>1
  <2> QED BY <1>1, <1>4, <2>2 DEF RecordsTrue
<1>12. ArchivesTrue(F, archive, "pulling")'
  BY <1>1, <1>3, NearStays
<1>13. ArchivesTrue(F, far.archive, "pushing")'
  <2>1. \A x \in DOMAIN far'.archive : x \in DOMAIN far.archive /\ far'.archive[x] = far.archive[x]
    BY <1>8
  <2>2. Key(p, t) \in DOMAIN far'.archive =>
          Key(p, t) \in DOMAIN F /\ far'.archive[Key(p, t)] = F[Key(p, t)]
    BY <1>1, <1>8, FarEntry
  <2> QED BY <1>3, <2>1, <2>2, FarMoves
<1> QED BY <1>3, <1>5, <1>6, <1>9, <1>10, <1>11, <1>12, <1>13, MoveTrue

LEMMA PushesTrue ==
  ASSUME CacheAssumption, Shaped, NEW F, Faithful(F), NEW p \in Procs, NEW t \in Tasks,
         ~Interferes(p, t), Pushes(p, t), At(p, t)' = "pushing"
  PROVE  Faithful(F)'
<1>1. /\ At(p, t) = "sweeping" /\ Step(p, t, "pushing")
      /\ UNCHANGED <<disk, stamp, doomed, input, record, archive>>
      /\ far' = [far EXCEPT !.archive = Put(far.archive, Key(p, t), Torn)]
  <2>1. ~Rest(p, t, "built")
    BY RestMoves
  <2> QED BY <2>1 DEF Pushes, work, local, sweep
<1>2. /\ At(p, t)' = "pushing" /\ Key(p, t)' = Key(p, t) /\ Rec(p, t)' = Rec(p, t)
      /\ job'[p][t].ideal = job[p][t].ideal
      /\ \A o \in Procs, x \in Tasks : <<o, x>> # <<p, t>> => job'[o][x] = job[o][x]
  BY <1>1, StepMoves
<1>3. OthersStand(p, t)
  BY <1>1, <1>2 DEF OthersStand
<1>4. JobTrue(F, p, t)
  BY DEF Faithful
<1>5. Ready(p, t) /\ Ready(p, t)' /\ Unread(p, t)
  BY <1>1, <1>2 DEF Unread, Ready, Saving
<1>6. JobTrue(F, p, t)'
  BY <1>1, <1>2, <1>3, <1>4, DepsStay
     DEF JobTrue, Keyed, Saving, Resting, Holding, Named, Idle, ByKey, ByOutput
<1>7. far'.record = far.record /\ far'.archive = Put(far.archive, Key(p, t), Torn)
  BY <1>1 DEF Shaped
<1>8. \A k : k # Key(p, t) => /\ k \in DOMAIN far.archive <=> k \in DOMAIN far'.archive
                              /\ k \in DOMAIN far.archive => far'.archive[k] = far.archive[k]
  BY <1>7 DEF Put
<1>9. StoresStand(p, t)
  BY <1>1, <1>8 DEF StoresStand
<1>10. Key(p, t) \in DOMAIN F
  BY <1>1, <1>4 DEF JobTrue, Keyed, Saving
<1>11. CopyTrue(F, p, t)'
  BY <1>2 DEF CopyTrue
<1>12. RecordsTrue(F, record)' /\ RecordsTrue(F, far.record)'
  BY <1>1, <1>7 DEF Faithful, RecordsTrue
<1>13. ArchivesTrue(F, archive, "pulling")'
  BY <1>1, <1>3, NearStays
<1>14. ArchivesTrue(F, far.archive, "pushing")'
  BY <1>2, <1>3, <1>8, <1>10, FarMoves
<1> QED BY <1>2, <1>3, <1>5, <1>6, <1>9, <1>11, <1>12, <1>13, <1>14, MoveTrue

LEMMA PushedTrue ==
  ASSUME CacheAssumption, WholeCopies, Shaped, NEW F, Faithful(F),
         NEW p \in Procs, NEW t \in Tasks, ~Interferes(p, t), Pushed(p, t)
  PROVE  Faithful(F)'
<1> DEFINE k == Key(p, t)
           r == Rec(p, t)
           v == IF k \in DOMAIN archive THEN archive[k] ELSE r.output
<1>1. /\ At(p, t) = "pushing" /\ Rest(p, t, "built")
      /\ UNCHANGED <<disk, stamp, doomed, input, record, archive>>
      /\ far'.record = Put(far.record, k, r) /\ far'.archive = Put(far.archive, k, v)
  BY DEF Pushed, work, local, sweep, Has
<1>2. /\ At(p, t)' = "built"
      /\ \A o \in Procs, x \in Tasks : <<o, x>> # <<p, t>> => job'[o][x] = job[o][x]
  BY <1>1, RestMoves
<1>3. OthersStand(p, t)
  BY <1>1, <1>2 DEF OthersStand
<1>4. JobTrue(F, p, t) /\ RecordsTrue(F, record) /\ RecordsTrue(F, far.record)
  BY DEF Faithful
<1>5. Ready(p, t) /\ Ready(p, t)' /\ Unread(p, t)
  BY <1>1, <1>2 DEF Unread, Ready, Saving
<1>6. JobTrue(F, p, t)'
  BY <1>1, <1>2, <1>4 DEF JobTrue, Keyed, Saving, Resting, Holding, Named, Idle, ByOutput
<1>7. k \in DOMAIN F /\ r.output = F[k] /\ (k.task \notin Loose => r.archived)
  BY <1>1, <1>4 DEF JobTrue, Keyed, Saving, Holding
<1>8. v = F[k]
  BY <1>1, <1>7, NearEntry
<1> HIDE DEF r, v
<1>9. \A x : x # k => /\ x \in DOMAIN far.archive <=> x \in DOMAIN far'.archive
                      /\ x \in DOMAIN far.archive => far'.archive[x] = far.archive[x]
  BY <1>1 DEF Put
<1>10. StoresStand(p, t)
  BY <1>1, <1>9 DEF StoresStand
<1>11. CopyTrue(F, p, t)' /\ ~Copying(p, t)'
  BY <1>2 DEF CopyTrue, Copying
<1>12. RecordsTrue(F, record)' /\ RecordsTrue(F, far.record)'
  <2> HIDE DEF k
  <2>1. RecordsTrue(F, Put(far.record, k, r))
    BY <1>4, <1>7, PutsTrue
  <2> QED BY <1>1, <1>4, <2>1 DEF RecordsTrue
<1>13. ArchivesTrue(F, archive, "pulling")'
  BY <1>1, <1>3, NearStays
<1>14. ArchivesTrue(F, far.archive, "pushing")'
  <2>1. Key(p, t) \in DOMAIN F /\ far'.archive[Key(p, t)] = F[Key(p, t)]
    BY <1>1, <1>7, <1>8 DEF Put
  <2> QED BY <1>3, <1>9, <2>1, FarMoves
<1> QED BY <1>3, <1>5, <1>6, <1>10, <1>11, <1>12, <1>13, <1>14, MoveTrue

(* A record whose files are gone from the shared store comes alone.        *)
LEMMA AdoptsTrue ==
  ASSUME CacheAssumption, Shaped, NEW F, Faithful(F), NEW p \in Procs, NEW t \in Tasks,
         ~Interferes(p, t), Pulls(p, t),
         ~(far.record[Key(p, t)].archived /\ Has(far.archive, Key(p, t)))
  PROVE  Faithful(F)'
<1> DEFINE r == far.record[Key(p, t)]
<1>1. /\ At(p, t) = "keyed" /\ Key(p, t) \in DOMAIN far.record
      /\ job' = [job EXCEPT ![p][t].loaded = r, ![p][t].at = "found"]
      /\ record' = Put(record, Key(p, t), r)
      /\ UNCHANGED <<disk, stamp, doomed, input, archive, far>>
  BY DEF Pulls, work, Has
<1>2. /\ At(p, t)' = "found" /\ Key(p, t)' = Key(p, t) /\ Rec(p, t)' = r
      /\ job'[p][t].ideal = job[p][t].ideal
      /\ \A o \in Procs, x \in Tasks : <<o, x>> # <<p, t>> => job'[o][x] = job[o][x]
  <2> HIDE DEF r
  <2>1. /\ DOMAIN job = Procs /\ \A o \in Procs : DOMAIN job[o] = Tasks
        /\ DOMAIN job[p][t] = {"at", "key", "loaded", "ideal"}
    BY DEF Shaped
  <2>2. job' = [job EXCEPT ![p][t].loaded = r, ![p][t].at = "found"]
    BY <1>1
  <2>3. /\ job'[p][t].at = "found" /\ job'[p][t].key = job[p][t].key
        /\ job'[p][t].loaded = r /\ job'[p][t].ideal = job[p][t].ideal
    BY <2>1, <2>2
  <2>4. \A o \in Procs, x \in Tasks : <<o, x>> # <<p, t>> => job'[o][x] = job[o][x]
    BY <2>1, <2>2
  <2> QED BY <2>3, <2>4 DEF At, Key, Rec
<1>3. OthersStand(p, t)
  BY <1>1, <1>2 DEF OthersStand
<1>4. Unread(p, t)
  BY <1>1, BusyHasDeps DEF Faithful, Ready, Saving
<1>5. JobTrue(F, p, t) /\ RecordsTrue(F, record) /\ RecordsTrue(F, far.record)
  BY DEF Faithful
<1>6. /\ Key(p, t) \in DOMAIN F /\ Key(p, t).task = t
      /\ r.output = F[Key(p, t)] /\ (t \notin Loose => r.archived)
  BY <1>1, <1>5 DEF JobTrue, Keyed, RecordsTrue
<1> HIDE DEF r
<1>7. JobTrue(F, p, t)'
  BY <1>1, <1>2, <1>3, <1>5, <1>6, DepsStay
     DEF JobTrue, Keyed, Saving, Resting, Holding, Named, Idle, ByKey
<1>8. \A k : k # Key(p, t) => (k \in DOMAIN record' => k \in DOMAIN record)
  BY <1>1 DEF Put
<1>9. StoresStand(p, t)
  BY <1>1, <1>8 DEF StoresStand
<1>10. CopyTrue(F, p, t)' /\ ~Copying(p, t)'
  BY <1>2 DEF CopyTrue, Copying
<1>11. RecordsTrue(F, record)' /\ RecordsTrue(F, far.record)'
  <2>1. RecordsTrue(F, Put(record, Key(p, t), r))
    BY <1>5, <1>6, PutsTrue
  <2>2. RecordsTrue(F, record)'
    BY <1>1, <2>1 DEF RecordsTrue
  <2> QED BY <1>1, <1>5, <2>2 DEF RecordsTrue
<1>12. ArchivesTrue(F, archive, "pulling")' /\ ArchivesTrue(F, far.archive, "pushing")'
  BY <1>1, <1>3, NearStays, FarStays
<1> QED BY <1>3, <1>4, <1>7, <1>9, <1>10, <1>11, <1>12, MoveTrue

LEMMA PullsTrue ==
  ASSUME CacheAssumption, Shaped, NEW F, Faithful(F), NEW p \in Procs, NEW t \in Tasks,
         ~Interferes(p, t), Pulls(p, t),
         far.record[Key(p, t)].archived, Has(far.archive, Key(p, t))
  PROVE  Faithful(F)'
<1> DEFINE r == far.record[Key(p, t)]
<1>1. /\ At(p, t) = "keyed" /\ Key(p, t) \in DOMAIN far.record
      /\ Key(p, t) \notin DOMAIN record /\ Key(p, t) \in DOMAIN far.archive
      /\ job' = [job EXCEPT ![p][t].loaded = r, ![p][t].at = "pulling"]
      /\ archive' = Put(archive, Key(p, t), Torn)
      /\ UNCHANGED <<disk, stamp, doomed, input, record, far>>
  BY DEF Pulls, work, Has
<1>2. /\ At(p, t)' = "pulling" /\ Key(p, t)' = Key(p, t) /\ Rec(p, t)' = r
      /\ job'[p][t].ideal = job[p][t].ideal
      /\ \A o \in Procs, x \in Tasks : <<o, x>> # <<p, t>> => job'[o][x] = job[o][x]
  <2> HIDE DEF r
  <2>1. /\ DOMAIN job = Procs /\ \A o \in Procs : DOMAIN job[o] = Tasks
        /\ DOMAIN job[p][t] = {"at", "key", "loaded", "ideal"}
    BY DEF Shaped
  <2>2. job' = [job EXCEPT ![p][t].loaded = r, ![p][t].at = "pulling"]
    BY <1>1
  <2>3. /\ job'[p][t].at = "pulling" /\ job'[p][t].key = job[p][t].key
        /\ job'[p][t].loaded = r /\ job'[p][t].ideal = job[p][t].ideal
    BY <2>1, <2>2
  <2>4. \A o \in Procs, x \in Tasks : <<o, x>> # <<p, t>> => job'[o][x] = job[o][x]
    BY <2>1, <2>2
  <2> QED BY <2>3, <2>4 DEF At, Key, Rec
<1>3. OthersStand(p, t)
  <2>1. input' = input /\ disk' = disk /\ stamp' = stamp /\ doomed' = doomed
    BY <1>1
  <2> QED BY <1>2, <2>1 DEF OthersStand
<1>4. Unread(p, t)
  BY <1>1, BusyHasDeps DEF Faithful, Ready, Saving
<1>5. JobTrue(F, p, t) /\ RecordsTrue(F, record) /\ RecordsTrue(F, far.record)
  BY DEF Faithful
<1>6. /\ Key(p, t) \in DOMAIN F /\ Key(p, t).task = t
      /\ r.output = F[Key(p, t)] /\ (t \notin Loose => r.archived)
  BY <1>1, <1>5 DEF JobTrue, Keyed, RecordsTrue
<1> HIDE DEF r
<1>7. JobTrue(F, p, t)'
  BY <1>1, <1>2, <1>3, <1>5, <1>6, DepsStay
     DEF JobTrue, Keyed, Saving, Resting, Holding, Named, Idle, ByKey
<1>8. /\ DOMAIN archive' = DOMAIN archive \cup {Key(p, t)}
      /\ \A k \in DOMAIN archive : k # Key(p, t) => archive'[k] = archive[k]
  BY <1>1 DEF Put
<1>9. StoresStand(p, t)
  BY <1>1, <1>8 DEF StoresStand
<1>10. CopyTrue(F, p, t)'
  BY <1>1, <1>2, <1>8 DEF CopyTrue
<1>11. RecordsTrue(F, record)' /\ RecordsTrue(F, far.record)'
  BY <1>1, <1>5 DEF RecordsTrue
<1>12. ArchivesTrue(F, archive, "pulling")'
  BY <1>2, <1>3, <1>6, <1>8, NearMoves
<1>13. ArchivesTrue(F, far.archive, "pushing")'
  BY <1>1, <1>3, FarStays
<1> QED BY <1>2, <1>3, <1>4, <1>7, <1>9, <1>10, <1>11, <1>12, <1>13, MoveTrue

LEMMA PulledTrue ==
  ASSUME CacheAssumption, WholeCopies, Shaped, NEW F, Faithful(F),
         NEW p \in Procs, NEW t \in Tasks, ~Interferes(p, t), Pulled(p, t)
  PROVE  Faithful(F)'
<1>1. JobTrue(F, p, t) /\ CopyTrue(F, p, t)
      /\ RecordsTrue(F, record) /\ RecordsTrue(F, far.record)
  BY DEF Faithful
<1>2. At(p, t) = "pulling"
  BY DEF Pulled
<1>3. Key(p, t) \in DOMAIN archive /\ Key(p, t) \in DOMAIN far.archive
  BY <1>1, <1>2 DEF CopyTrue
<1>4. /\ Step(p, t, "found")
      /\ archive' = Put(archive, Key(p, t), far.archive[Key(p, t)])
      /\ record' = Put(record, Key(p, t), Rec(p, t))
      /\ UNCHANGED <<disk, stamp, doomed, input, far>>
  BY <1>3 DEF Pulled, Has, work
<1>5. /\ At(p, t)' = "found" /\ Key(p, t)' = Key(p, t) /\ Rec(p, t)' = Rec(p, t)
      /\ job'[p][t].ideal = job[p][t].ideal
      /\ \A o \in Procs, x \in Tasks : <<o, x>> # <<p, t>> => job'[o][x] = job[o][x]
  BY <1>4, StepMoves
<1>6. OthersStand(p, t)
  BY <1>4, <1>5 DEF OthersStand
<1>7. Unread(p, t)
  BY <1>2, BusyHasDeps DEF Faithful, Ready, Saving
<1>8. JobTrue(F, p, t)'
  BY <1>1, <1>2, <1>4, <1>5, <1>6, DepsStay
     DEF JobTrue, Keyed, Saving, Resting, Holding, Named, Idle, ByKey
<1>9. /\ DOMAIN archive' = DOMAIN archive \cup {Key(p, t)}
      /\ archive'[Key(p, t)] = far.archive[Key(p, t)]
      /\ \A k \in DOMAIN archive : k # Key(p, t) => archive'[k] = archive[k]
  BY <1>4 DEF Put
<1>10. \A k : k # Key(p, t) => (k \in DOMAIN record' => k \in DOMAIN record)
  BY <1>4 DEF Put
<1>11. StoresStand(p, t)
  BY <1>4, <1>9, <1>10 DEF StoresStand
<1>12. CopyTrue(F, p, t)' /\ ~Copying(p, t)'
  BY <1>5 DEF CopyTrue, Copying
<1>13. /\ Key(p, t) \in DOMAIN F /\ Key(p, t).task = t
       /\ Rec(p, t).output = F[Key(p, t)] /\ (t \notin Loose => Rec(p, t).archived)
       /\ far.archive[Key(p, t)] = F[Key(p, t)]
  BY <1>1, <1>2, <1>3, FarEntry DEF JobTrue, Keyed, Holding
<1>14. RecordsTrue(F, record)' /\ RecordsTrue(F, far.record)'
  <2>1. RecordsTrue(F, Put(record, Key(p, t), Rec(p, t)))
    BY <1>1, <1>13, PutsTrue
  <2>2. RecordsTrue(F, record)'
    BY <1>4, <2>1 DEF RecordsTrue
  <2> QED BY <1>1, <1>4, <2>2 DEF RecordsTrue
<1>15. ArchivesTrue(F, archive, "pulling")'
  BY <1>6, <1>9, <1>13, NearMoves
<1>16. ArchivesTrue(F, far.archive, "pushing")'
  BY <1>2, <1>4, <1>6, FarStays
<1> QED BY <1>6, <1>7, <1>8, <1>11, <1>12, <1>14, <1>15, <1>16, MoveTrue

(***************************************************************************)
(* A key is taken: what it makes joins what is known of the others.        *)
(***************************************************************************)

(* What a dependency stands for is what is read of it.                     *)
LEMMA StampsWorth ==
  ASSUME Sheltered, NEW F, Faithful(F), NEW p \in Procs, NEW t \in Tasks,
         NEW d \in DependsOn[t], d \in Tasks, Ready(p, d)
  PROVE  /\ stamp[p][d] # <<>> /\ Value(F, stamp[p][d]) = disk[p][d]
         /\ stamp[p][d][1] = "key" => stamp[p][d][2] \in DOMAIN F
<1>1. /\ JobTrue(F, p, d)
      /\ At(p, d) = "hit" => Rec(p, d).archived
  BY DEF Faithful, Sheltered, JobTrue, Holding
<1>2. CASE At(p, d) \in {"done", "cleared", "archived"}
  <2>1. stamp[p][d] = ByKey(Key(p, d)) /\ disk[p][d] = F[Key(p, d)] /\ Key(p, d) \in DOMAIN F
    BY <1>1, <1>2 DEF JobTrue, Keyed, Saving, Named
  <2> QED BY <2>1 DEF Value, ByKey
<1>3. CASE At(p, d) \notin {"done", "cleared", "archived"}
  <2>1. stamp[p][d] = ByOutput(disk[p][d])
    BY <1>1, <1>3 DEF JobTrue, Saving, Named, Ready
  <2> QED BY <2>1 DEF Value, ByOutput
<1> QED BY <1>2, <1>3

(* So what a key makes can be told from the key.                           *)
LEMMA ProductTold ==
  ASSUME CacheAssumption, Sheltered, NEW F, Faithful(F), NEW p \in Procs, NEW t \in Tasks,
         \A d \in DependsOn[t] : Ready(p, d)
  PROVE  LET k == Fingerprint(p, t)
         IN  /\ k.task = t
             /\ \A s \in k.deps : s[1] = "key" => s[2] \in DOMAIN F
             /\ Product(p, t) = [task |-> k.task, input |-> k.input,
                                 from |-> {Value(F, s) : s \in k.deps}]
<1> DEFINE D == {stamp[p][d] : d \in DependsOn[t]}
<1>1. \A d \in DependsOn[t] : /\ stamp[p][d] # <<>> /\ Value(F, stamp[p][d]) = disk[p][d]
                              /\ stamp[p][d][1] = "key" => stamp[p][d][2] \in DOMAIN F
  BY StampsWorth DEF CacheAssumption
<1>2. Fingerprint(p, t) = [task |-> t, input |-> input[p][t], deps |-> D]
  <2>1. <<>> \notin D
    BY <1>1
  <2>2. D \ {<<>>} = D
    BY <2>1
  <2> QED BY <2>2 DEF Fingerprint
<1>3. {Value(F, s) : s \in D} = {disk[p][d] : d \in DependsOn[t]}
  BY <1>1
<1>4. \A s \in D : s[1] = "key" => s[2] \in DOMAIN F
  BY <1>1
<1> HIDE DEF D
<1> DEFINE k == Fingerprint(p, t)
<1>5. k.task = t /\ k.input = input[p][t] /\ k.deps = D
  BY <1>2
<1> HIDE DEF k
<1>6. {Value(F, s) : s \in k.deps} = {disk[p][d] : d \in DependsOn[t]}
  BY <1>3, <1>5
<1>7. Product(p, t) = [task |-> k.task, input |-> k.input, from |-> {Value(F, s) : s \in k.deps}]
  BY <1>5, <1>6 DEF Product
<1> QED BY <1>4, <1>5, <1>7 DEF k

(* F knows a key more. *)
LEMMA KnownGrows ==
  ASSUME NEW F, Faithful(F), NEW k, k \notin DOMAIN F, NEW v,
         \A s \in k.deps : s[1] = "key" => s[2] \in DOMAIN F,
         v = [task |-> k.task, input |-> k.input, from |-> {Value(F, s) : s \in k.deps}]
  PROVE  Faithful(Put(F, k, v))
<1> DEFINE G == Put(F, k, v)
<1>1. DOMAIN G = DOMAIN F \cup {k} /\ G[k] = v /\ \A x \in DOMAIN F : G[x] = F[x]
  BY DEF Put
<1> HIDE DEF G
<1>2. Determines(G)
  <2>1. ASSUME NEW x \in DOMAIN G
        PROVE  /\ \A s \in x.deps : s[1] = "key" => s[2] \in DOMAIN F
               /\ G[x] = [task |-> x.task, input |-> x.input, from |-> {Value(F, s) : s \in x.deps}]
    BY <1>1, <2>1 DEF Faithful, Determines
  <2>2. ASSUME NEW x \in DOMAIN G
        PROVE  {Value(G, s) : s \in x.deps} = {Value(F, s) : s \in x.deps}
    <3>1. ASSUME NEW s \in x.deps
          PROVE  Value(G, s) = Value(F, s)
      <4>1. s[1] = "key" => G[s[2]] = F[s[2]]
        BY <1>1, <2>1, <2>2
      <4> QED BY <4>1 DEF Value
    <3> QED BY <3>1
  <2> QED BY <1>1, <2>1, <2>2 DEF Determines
<1>3. RecordsTrue(G, record) /\ RecordsTrue(G, far.record)
  BY <1>1 DEF Faithful, RecordsTrue
<1>4. ArchivesTrue(G, archive, "pulling")
  BY <1>1 DEF Faithful, ArchivesTrue
<1>5. ArchivesTrue(G, far.archive, "pushing")
  BY <1>1 DEF Faithful, ArchivesTrue
<1>6. ASSUME NEW p \in Procs, NEW t \in Tasks
      PROVE  JobTrue(G, p, t) /\ CopyTrue(G, p, t)
  <2>1. JobTrue(F, p, t) /\ CopyTrue(F, p, t)
    BY DEF Faithful
  <2>2. At(p, t) \in Keyed => Key(p, t) \in DOMAIN F /\ G[Key(p, t)] = F[Key(p, t)]
    BY <1>1, <2>1 DEF JobTrue
  <2>3. JobTrue(G, p, t)
    BY <1>1, <2>1, <2>2 DEF JobTrue, Keyed, Saving, Resting, Holding, Named, Idle
  <2>4. CopyTrue(G, p, t)
    BY <2>1, <2>2 DEF CopyTrue, Keyed, Saving
  <2> QED BY <2>3, <2>4
<1>7. CopiesApart
  BY DEF Faithful
<1> QED BY <1>2, <1>3, <1>4, <1>5, <1>6, <1>7 DEF Faithful, G

LEMMA KeysTrue ==
  ASSUME CacheAssumption, Sheltered, Shaped, NEW F, Faithful(F),
         NEW p \in Procs, NEW t \in Tasks, ~Interferes(p, t), Keys(p, t)
  PROVE  \E G : Faithful(G)'
<1> DEFINE k == Fingerprint(p, t)
           v == Product(p, t)
<1>1. /\ \A d \in DependsOn[t] : Ready(p, d)
      /\ At(p, t) \in Resting
      /\ \A u \in Dependents(t) : Idle(p, u)
      /\ stamp' = [stamp EXCEPT ![p][t] = ByKey(k)]
      /\ job' = [job EXCEPT ![p][t] = [at |-> "keyed", key |-> k, loaded |-> None, ideal |-> v]]
      /\ UNCHANGED <<disk, doomed, input, record, archive, far>>
  BY DEF Keys, Sheltered, local, sweep, Idle
<1>2. k.task = t
  BY <1>1, ProductTold
<1>3. PICK G : Faithful(G) /\ k \in DOMAIN G /\ G[k] = v
  <2>1. /\ \A s \in k.deps : s[1] = "key" => s[2] \in DOMAIN F
        /\ v = [task |-> k.task, input |-> k.input, from |-> {Value(F, s) : s \in k.deps}]
    BY <1>1, ProductTold
  <2>2. CASE k \in DOMAIN F
    BY <2>1, <2>2 DEF Faithful, Determines
  <2>3. CASE k \notin DOMAIN F
    <3>1. Faithful(Put(F, k, v))
      BY <2>1, <2>3, KnownGrows
    <3>2. k \in DOMAIN Put(F, k, v) /\ Put(F, k, v)[k] = v
      BY DEF Put
    <3> QED BY <3>1, <3>2
  <2> QED BY <2>2, <2>3
<1>4. /\ At(p, t)' = "keyed" /\ Key(p, t)' = k /\ job'[p][t].ideal = v
      /\ stamp'[p][t] = ByKey(k)
      /\ \A o \in Procs, x \in Tasks : <<o, x>> # <<p, t>> =>
           job'[o][x] = job[o][x] /\ stamp'[o][x] = stamp[o][x]
  BY <1>1 DEF Shaped, At, Key
<1>5. OthersStand(p, t)
  BY <1>1, <1>4 DEF OthersStand
<1>6. Unread(p, t)
  BY <1>1 DEF Unread
<1>7. v' = v /\ \A d \in DependsOn[t] : Ready(p, d)'
  BY <1>1, <1>5, DepsStay
<1> HIDE DEF k, v
<1>8. JobTrue(G, p, t)'
  BY <1>2, <1>3, <1>4, <1>7
     DEF JobTrue, Keyed, Saving, Resting, Holding, Named, Idle, ByKey, v
<1>9. ~Copying(p, t) /\ ~Copying(p, t)'
  BY <1>1, <1>4 DEF Copying, Resting
<1>10. Faithful(G)'
  BY <1>1, <1>3, <1>5, <1>6, <1>8, <1>9, QuietMoveTrue
<1> QED BY <1>10

(***************************************************************************)
(* Edits, and processes that end.                                          *)
(***************************************************************************)

LEMMA EditsTrue ==
  ASSUME Sheltered, Shaped, NEW F, Faithful(F), NEW p \in Procs, NEW t \in Tasks, Edits(p, t)
  PROVE  Faithful(F)'
<1>1. /\ Idle(p, t) /\ UNCHANGED <<disk, stamp, job, doomed, record, archive, far>>
      /\ \E i : input' = [input EXCEPT ![p][t] = i]
  BY DEF Edits, Sheltered, local, sweep
<1>2. \A o \in Procs, x \in Tasks : <<o, x>> # <<p, t>> => input'[o][x] = input[o][x]
  BY <1>1, WriteMoves DEF Shaped
<1>3. ASSUME NEW o \in Procs, NEW x \in Tasks
      PROVE  /\ At(o, x)' = At(o, x) /\ Key(o, x)' = Key(o, x) /\ Rec(o, x)' = Rec(o, x)
             /\ Idle(o, x)' = Idle(o, x) /\ Copying(o, x)' = Copying(o, x)
             /\ Ready(o, x)' = Ready(o, x)
  BY <1>1 DEF At, Key, Rec, Idle, Copying, Ready
<1>4. ASSUME NEW o \in Procs, NEW x \in Tasks
      PROVE  JobTrue(F, o, x)' /\ CopyTrue(F, o, x)'
  <2>1. JobTrue(F, o, x) /\ CopyTrue(F, o, x)
    BY DEF Faithful
  <2>2. CopyTrue(F, o, x)'
    BY <1>1, <1>3, <2>1 DEF CopyTrue
  <2>3. ~Idle(o, x) => Product(o, x)' = Product(o, x)
    BY <1>1, <1>2 DEF Product
  <2>4. ~Idle(o, x) => \A d \in DependsOn[x] : Ready(o, d)'
    BY <1>1, <2>1 DEF JobTrue, Ready, At
  <2>5. JobTrue(F, o, x)'
    BY <1>1, <1>3, <2>1, <2>3, <2>4 DEF JobTrue, ByKey, ByOutput
  <2> QED BY <2>2, <2>5
<1>5. RecordsTrue(F, record)' /\ RecordsTrue(F, far.record)'
  BY <1>1 DEF Faithful, RecordsTrue
<1>6. ArchivesTrue(F, archive, "pulling")'
  BY <1>1, <1>3 DEF Faithful, ArchivesTrue
<1>7. ArchivesTrue(F, far.archive, "pushing")'
  <2>1. ArchivesTrue(F, far.archive, "pushing") /\ far'.archive = far.archive
    BY <1>1 DEF Faithful
  <2> QED BY <1>3, <2>1 DEF ArchivesTrue
<1>8. CopiesApart'
  BY <1>3 DEF Faithful, CopiesApart
<1> QED BY <1>4, <1>5, <1>6, <1>7, <1>8 DEF Faithful, Determines, Value

LEMMA EndsTrue ==
  ASSUME CacheAssumption, Sheltered, Shaped, NEW F, Faithful(F), NEW p \in Procs, Ends(p)
  PROVE  Faithful(F)'
<1>1. /\ \A t \in Tasks : ~Copying(p, t)
      /\ job' = [job EXCEPT ![p] = [t \in Tasks |-> NoJob("idle")]]
      /\ stamp' = [stamp EXCEPT ![p] = [t \in Tasks |-> <<>>]]
      /\ UNCHANGED <<disk, input, record, archive, far>>
  BY DEF Ends, Sheltered, local
<1>2. \A t \in Tasks : At(p, t)' = "idle"
  BY <1>1 DEF At, Shaped, NoJob
<1>3. \A o \in Procs, x \in Tasks : o # p => job'[o][x] = job[o][x] /\ stamp'[o][x] = stamp[o][x]
  BY <1>1 DEF Shaped
<1>4. ASSUME NEW o \in Procs, NEW x \in Tasks, o # p
      PROVE  /\ At(o, x)' = At(o, x) /\ Key(o, x)' = Key(o, x) /\ Rec(o, x)' = Rec(o, x)
             /\ Idle(o, x)' = Idle(o, x) /\ Copying(o, x)' = Copying(o, x)
             /\ Ready(o, x)' = Ready(o, x)
  BY <1>3, <1>4 DEF At, Key, Rec, Idle, Copying, Ready
<1>5. ASSUME NEW o \in Procs, NEW x \in Tasks
      PROVE  JobTrue(F, o, x)' /\ CopyTrue(F, o, x)'
  <2>1. CASE o = p
    BY <1>2, <2>1 DEF JobTrue, CopyTrue, Keyed, Saving, Resting, Holding, Named, Idle
  <2>2. CASE o # p
    <3>1. JobTrue(F, o, x) /\ CopyTrue(F, o, x)
      BY DEF Faithful
    <3>2. CopyTrue(F, o, x)'
      BY <1>1, <1>4, <2>2, <3>1 DEF CopyTrue
    <3>3. Product(o, x)' = Product(o, x)
      BY <1>1 DEF Product
    <3>4. ~Idle(o, x) => \A d \in DependsOn[x] : Ready(o, d)'
      BY <1>4, <2>2, <3>1 DEF JobTrue, CacheAssumption
    <3>5. JobTrue(F, o, x)'
      BY <1>1, <1>3, <1>4, <2>2, <3>1, <3>3, <3>4 DEF JobTrue, ByKey, ByOutput
    <3> QED BY <3>2, <3>5
  <2> QED BY <2>1, <2>2
<1>6. RecordsTrue(F, record)' /\ RecordsTrue(F, far.record)'
  BY <1>1 DEF Faithful, RecordsTrue
<1>7. ASSUME NEW o \in Procs, NEW x \in Tasks, At(o, x) \in {"pulling", "pushing"}
      PROVE  At(o, x)' = At(o, x) /\ Key(o, x)' = Key(o, x)
  BY <1>1, <1>4, <1>7 DEF Copying
<1>8. ArchivesTrue(F, archive, "pulling")'
  <2>1. ArchivesTrue(F, archive, "pulling") /\ archive' = archive
    BY <1>1 DEF Faithful
  <2> QED BY <1>7, <2>1 DEF ArchivesTrue
<1>9. ArchivesTrue(F, far.archive, "pushing")'
  <2>1. ArchivesTrue(F, far.archive, "pushing") /\ far'.archive = far.archive
    BY <1>1 DEF Faithful
  <2> QED BY <1>7, <2>1 DEF ArchivesTrue
<1>10. CopiesApart'
  <2> SUFFICES ASSUME NEW o \in Procs, NEW q \in Procs, NEW x \in Tasks, NEW y \in Tasks,
                      Copying(o, x)', Copying(q, y)', Key(o, x)' = Key(q, y)'
               PROVE  o = q /\ x = y
    BY DEF CopiesApart
  <2>1. o # p /\ q # p
    BY <1>2 DEF Copying
  <2> QED BY <1>4, <2>1 DEF Faithful, CopiesApart
<1> QED BY <1>5, <1>6, <1>8, <1>9, <1>10 DEF Faithful, Determines, Value

(***************************************************************************)
(* The whole of it.                                                        *)
(***************************************************************************)

(* A step writes one task's file, stamp or list, and begins to drop only   *)
(* what is on its list.                                                    *)
Framed(p, t) ==
  /\ \E v : disk' = disk \/ disk' = [disk EXCEPT ![p][t] = v]
  /\ \E v : stamp' = stamp \/ stamp' = [stamp EXCEPT ![p][t] = v]
  /\ \E v : doomed' = doomed \/ doomed' = [doomed EXCEPT ![p][t] = v]
  /\ input' = input /\ DOMAIN far' = DOMAIN far
  /\ DOMAIN job' = Procs /\ \A o \in Procs : DOMAIN job'[o] = Tasks
  /\ DOMAIN job'[p][t] = {"at", "key", "loaded", "ideal"}
  /\ \A o \in Procs, x \in Tasks : <<o, x>> # <<p, t>> => job'[o][x] = job[o][x]
  /\ At(p, t)' = "dropping" => doomed'[p][t] # <<>>

LEMMA FramedShaped ==
  ASSUME Shaped, NEW p \in Procs, NEW t \in Tasks, Framed(p, t)
  PROVE  Shaped'
<1>1. DOMAIN disk' = Procs /\ \A o \in Procs : DOMAIN disk'[o] = Tasks
  BY DEF Shaped, Framed
<1>a. DOMAIN stamp' = Procs /\ \A o \in Procs : DOMAIN stamp'[o] = Tasks
  BY DEF Shaped, Framed
<1>2. /\ DOMAIN doomed' = Procs /\ \A o \in Procs : DOMAIN doomed'[o] = Tasks
      /\ \A o \in Procs, x \in Tasks : <<o, x>> # <<p, t>> => doomed'[o][x] = doomed[o][x]
  BY WriteMoves DEF Shaped, Framed
<1>3. \A o \in Procs, x \in Tasks :
        /\ DOMAIN job'[o][x] = {"at", "key", "loaded", "ideal"}
        /\ At(o, x)' = "dropping" => doomed'[o][x] # <<>>
  BY <1>2 DEF Shaped, Framed, At
<1> QED BY <1>1, <1>a, <1>2, <1>3 DEF Shaped, Framed

LEMMA TaskShaped ==
  ASSUME Shaped, NEW p \in Procs, NEW t \in Tasks, Task(p, t)
  PROVE  Shaped'
<1> SUFFICES Framed(p, t)
  BY FramedShaped
<1>1. CASE Keys(p, t)
  BY <1>1 DEF Keys, Framed, Shaped, At, local, sweep
<1>2. CASE Loads(p, t)
  BY <1>2 DEF Loads, Framed, Shaped, At, work, sweep
<1>3. CASE Pulls(p, t)
  BY <1>3 DEF Pulls, Framed, Shaped, At, work
<1>4. CASE Pulled(p, t)
  BY <1>4, StepMoves DEF Pulled, Framed, work
<1>5. CASE Misses(p, t)
  BY <1>5, StepMoves DEF Misses, Framed, work, local, sweep
<1>6. CASE Replays(p, t)
  <2>1. \E v : disk' = disk \/ disk' = [disk EXCEPT ![p][t] = v]
    BY <1>6 DEF Replays, Restores
  <2>2. \E v : stamp' = stamp \/ stamp' = [stamp EXCEPT ![p][t] = v]
    BY <1>6 DEF Replays, Restores
  <2>3. (Step(p, t, "hit") \/ Step(p, t, "checking")) /\ UNCHANGED <<doomed, input, far>>
    BY <1>6 DEF Replays, Restores, local, sweep
  <2> QED BY <2>1, <2>2, <2>3, StepMoves DEF Framed
<1>7. CASE Unservable(p, t)
  BY <1>7, StepMoves DEF Unservable, Framed, work, local, sweep
<1>8. CASE Rechecks(p, t)
  <2>1. \E v : disk' = disk \/ disk' = [disk EXCEPT ![p][t] = v]
    BY <1>8 DEF Rechecks
  <2>2. \E v : stamp' = stamp \/ stamp' = [stamp EXCEPT ![p][t] = v]
    BY <1>8 DEF Rechecks
  <2>3. (Step(p, t, "hit") \/ Rest(p, t, "failed")) /\ UNCHANGED <<doomed, input, far>>
    BY <1>8 DEF Rechecks, sweep
  <2> QED BY <2>1, <2>2, <2>3, StepMoves, RestMoves DEF Framed
<1>9. CASE Spawns(p, t)
  <2>1. \E v : disk' = disk \/ disk' = [disk EXCEPT ![p][t] = v]
    BY <1>9 DEF Spawns
  <2>2. (Step(p, t, "running")) /\ UNCHANGED <<stamp, doomed, input, far>>
    BY <1>9 DEF Spawns, sweep
  <2> QED BY <2>1, <2>2, StepMoves DEF Framed
<1>10. CASE Succeeds(p, t)
  <2>1. \E v : disk' = disk \/ disk' = [disk EXCEPT ![p][t] = v]
    BY <1>10 DEF Succeeds
  <2>2. (Step(p, t, "done")) /\ UNCHANGED <<stamp, doomed, input, far>>
    BY <1>10 DEF Succeeds, sweep
  <2> QED BY <2>1, <2>2, StepMoves DEF Framed
<1>11. CASE Fails(p, t)
  BY <1>11, RestMoves DEF Fails, Framed, work, local, sweep
<1>12. CASE Clears(p, t)
  BY <1>12, StepMoves DEF Clears, Framed, work, sweep
<1>13. CASE Publishes(p, t)
  <2>1. (\E kept : Says(p, t, kept)) /\ UNCHANGED <<disk, stamp, doomed, input, far>>
    BY <1>13 DEF Publishes, work, sweep
  <2> QED BY <2>1, SaysMoves DEF Framed
<1>14. CASE Stores(p, t)
  <2>1. \E v : stamp' = stamp \/ stamp' = [stamp EXCEPT ![p][t] = v]
    BY <1>14 DEF Stores
  <2>2. \E v : doomed' = doomed \/ doomed' = [doomed EXCEPT ![p][t] = v]
    BY <1>14 DEF Stores
  <2>3. (Step(p, t, "sweeping")) /\ UNCHANGED <<disk, input, far>>
    BY <1>14 DEF Stores
  <2> QED BY <2>1, <2>2, <2>3, StepMoves DEF Framed
<1>15. CASE DropsRecord(p, t)
  BY <1>15, StepMoves DEF DropsRecord, Framed, work, sweep
<1>16. CASE DropsArchive(p, t)
  <2>1. \E v : doomed' = doomed \/ doomed' = [doomed EXCEPT ![p][t] = v]
    BY <1>16 DEF DropsArchive
  <2>2. (Step(p, t, "sweeping")) /\ UNCHANGED <<disk, stamp, input, far>>
    BY <1>16 DEF DropsArchive, work
  <2> QED BY <2>1, <2>2, StepMoves DEF Framed
<1>17. CASE Pushes(p, t)
  BY <1>17, StepMoves, RestMoves DEF Pushes, Framed, work, local, sweep
<1>18. CASE Pushed(p, t)
  BY <1>18, RestMoves DEF Pushed, Framed, Shaped, work, local, sweep
<1> QED BY <1>1, <1>2, <1>3, <1>4, <1>5, <1>6, <1>7, <1>8, <1>9, <1>10, <1>11, <1>12,
           <1>13, <1>14, <1>15, <1>16, <1>17, <1>18 DEF Task

LEMMA InitCacheInv == Init => CacheInv
<1> SUFFICES ASSUME Init PROVE CacheInv
  OBVIOUS
<1>1. Shaped
  BY DEF Init, Shaped, At, NoJob
<1>2. \A p \in Procs, t \in Tasks : At(p, t) = "idle"
  BY DEF Init, At, NoJob
<1>3. DOMAIN <<>> = {}
  OBVIOUS
<1>4. Determines(<<>>)
  BY <1>3 DEF Determines
<1>5. RecordsTrue(<<>>, record) /\ RecordsTrue(<<>>, far.record)
  BY <1>3 DEF Init, RecordsTrue
<1>6. ArchivesTrue(<<>>, archive, "pulling") /\ ArchivesTrue(<<>>, far.archive, "pushing")
  BY <1>3 DEF Init, ArchivesTrue
<1>7. \A p \in Procs, t \in Tasks : JobTrue(<<>>, p, t) /\ CopyTrue(<<>>, p, t)
  BY <1>2 DEF JobTrue, CopyTrue, Keyed, Saving, Resting, Holding, Named, Idle
<1>8. CopiesApart
  BY <1>2 DEF CopiesApart, Copying
<1>9. Faithful(<<>>)
  BY <1>4, <1>5, <1>6, <1>7, <1>8 DEF Faithful
<1> QED BY <1>1, <1>9 DEF CacheInv

LEMMA TaskTrue ==
  ASSUME CacheAssumption, Sheltered, Shaped, NEW F, Faithful(F),
         NEW p \in Procs, NEW t \in Tasks, ~Interferes(p, t), Task(p, t)
  PROVE  \E G : Faithful(G)'
<1>1. CASE Keys(p, t)
  BY <1>1, KeysTrue
<1>2. CASE Loads(p, t)
  BY <1>2, LoadsTrue
<1>3. CASE Pulls(p, t)
  BY <1>3, PullsTrue, AdoptsTrue
<1>4. CASE Pulled(p, t)
  BY <1>4, PulledTrue DEF Sheltered
<1>5. CASE Misses(p, t) \/ Unservable(p, t) \/ Spawns(p, t) \/ Succeeds(p, t)
  BY <1>5, StepsTrue
<1>6. CASE Replays(p, t)
  BY <1>6, ReplaysTrue
<1>7. CASE Rechecks(p, t)
  BY <1>7, RechecksTrue, ForgetsTrue
<1>8. CASE Fails(p, t)
  BY <1>8, FailsTrue
<1>9. CASE Clears(p, t)
  BY <1>9, ClearsTrue
<1>10. CASE Publishes(p, t)
  BY <1>10, PublishesTrue
<1>11. CASE Stores(p, t)
  BY <1>11, StoresTrue
<1>12. CASE DropsRecord(p, t)
  BY <1>12, DropsRecordTrue
<1>13. CASE DropsArchive(p, t)
  BY <1>13, DropsArchiveTrue
<1>14. CASE Pushes(p, t)
  BY <1>14, PushesTrue, KeepsTrue
<1>15. CASE Pushed(p, t)
  BY <1>15, PushedTrue DEF Sheltered
<1> QED BY <1>1, <1>2, <1>3, <1>4, <1>5, <1>6, <1>7, <1>8, <1>9, <1>10, <1>11, <1>12,
           <1>13, <1>14, <1>15 DEF Task

(* Every step keeps the shape.                                             *)
LEMMA ShapeStays ==
  ASSUME Shaped, [Next]_vars
  PROVE  Shaped'
<1>1. ASSUME NEW p \in Procs, NEW t \in Tasks, Task(p, t) PROVE Shaped'
  BY <1>1, TaskShaped
<1>2. ASSUME NEW p \in Procs, NEW t \in Tasks, Edits(p, t) PROVE Shaped'
  BY <1>2 DEF Edits, Shaped, At, local, sweep
<1>3. ASSUME NEW p \in Procs, Ends(p) PROVE Shaped'
  <2>1. /\ job' = [job EXCEPT ![p] = [t \in Tasks |-> NoJob("idle")]]
        /\ stamp' = [stamp EXCEPT ![p] = [t \in Tasks |-> <<>>]]
        /\ doomed' = [doomed EXCEPT ![p] = [t \in Tasks |-> <<>>]]
        /\ UNCHANGED <<disk, input, far>>
    BY <1>3 DEF Ends
  <2>2. \A t \in Tasks : job'[p][t] = NoJob("idle")
    BY <2>1 DEF Shaped
  <2>3. \A o \in Procs : o # p => job'[o] = job[o] /\ doomed'[o] = doomed[o]
    BY <2>1 DEF Shaped
  <2>4. \A o \in Procs, t \in Tasks :
          /\ DOMAIN job'[o][t] = {"at", "key", "loaded", "ideal"}
          /\ At(o, t)' = "dropping" => doomed'[o][t] # <<>>
    BY <2>2, <2>3 DEF Shaped, NoJob, At
  <2>5. /\ DOMAIN job' = Procs /\ \A o \in Procs : DOMAIN job'[o] = Tasks
        /\ DOMAIN stamp' = Procs /\ \A o \in Procs : DOMAIN stamp'[o] = Tasks
        /\ DOMAIN doomed' = Procs /\ \A o \in Procs : DOMAIN doomed'[o] = Tasks
    BY <2>1 DEF Shaped
  <2> QED BY <2>1, <2>4, <2>5 DEF Shaped
<1>4. CASE UNCHANGED vars
  BY <1>4 DEF vars, work, local, sweep, Shaped, At
<1> QED BY <1>1, <1>2, <1>3, <1>4 DEF Next

LEMMA NextCacheInv ==
  ASSUME Sheltered, CacheInv, [Next]_vars
  PROVE  CacheInv'
<1> USE CacheAssumption
<1>1. Shaped /\ Shaped'
  BY ShapeStays DEF CacheInv
<1>2. PICK F : Faithful(F)
  BY DEF CacheInv
<1>3. ASSUME NEW p \in Procs, NEW t \in Tasks, ~Interferes(p, t), Task(p, t)
      PROVE  CacheInv'
  <2>1. \E G : Faithful(G)'
    BY <1>1, <1>2, <1>3, TaskTrue
  <2> QED BY <1>1, <2>1 DEF CacheInv
<1>4. ASSUME NEW p \in Procs, NEW t \in Tasks, Edits(p, t)
      PROVE  CacheInv'
  <2>1. Faithful(F)'
    BY <1>1, <1>2, <1>4, EditsTrue
  <2> QED BY <1>1, <2>1 DEF CacheInv
<1>5. ASSUME NEW p \in Procs, Ends(p)
      PROVE  CacheInv'
  <2>1. Faithful(F)'
    BY <1>1, <1>2, <1>5, EndsTrue
  <2> QED BY <1>1, <2>1 DEF CacheInv
<1>6. CASE UNCHANGED vars
  <2>1. UNCHANGED <<input, disk, stamp, job, record, archive, doomed, far>>
    BY <1>6 DEF vars, work, local, sweep
  <2>3. ASSUME NEW p \in Procs, NEW t \in Tasks
        PROVE  JobTrue(F, p, t)' /\ CopyTrue(F, p, t)'
    <3>1. JobTrue(F, p, t) /\ CopyTrue(F, p, t)
      BY <1>2 DEF Faithful
    <3> QED BY <2>1, <3>1
      DEF JobTrue, CopyTrue, At, Key, Rec, Idle, Ready, Product, ByKey, ByOutput
  <2>4. RecordsTrue(F, record)' /\ RecordsTrue(F, far.record)'
    BY <1>2, <2>1 DEF Faithful, RecordsTrue
  <2>5. ArchivesTrue(F, archive, "pulling")' /\ ArchivesTrue(F, far.archive, "pushing")'
    BY <1>2, <2>1 DEF Faithful, ArchivesTrue, At, Key
  <2>6. CopiesApart'
    BY <1>2, <2>1 DEF Faithful, CopiesApart, Copying, At, Key
  <2>7. Faithful(F)'
    BY <1>2, <2>3, <2>4, <2>5, <2>6 DEF Faithful, Determines, Value
  <2> QED BY <1>1, <2>7 DEF CacheInv
<1> QED BY <1>3, <1>4, <1>5, <1>6 DEF Next, Sheltered

(* All that the stores, the keys and the worktrees of all processes hold   *)
(* of the same key is the same, and whole unless it is being copied.       *)
THEOREM CacheInvariance == ASSUME Sheltered PROVE Spec => []CacheInv
BY InitCacheInv, NextCacheInv, PTL DEF Spec

(* A cache hit leaves in the worktree what the command would have made.    *)
THEOREM CopiesReproduce == ASSUME Sheltered PROVE Spec => []CopyReproduces
<1>1. CacheInv => CopyReproduces
  BY DEF CacheInv, Faithful, CopyReproduces, Kept, JobTrue, Keyed, Holding
<1> QED BY <1>1, CacheInvariance, PTL

(* No archive a record vouches for is half written, or another's.          *)
THEOREM ArchivesAreWhole == ASSUME Sheltered PROVE Spec => []ArchivesWhole
<1>1. ASSUME NEW F, Faithful(F), NEW k \in DOMAIN record \cap DOMAIN archive
      PROVE  archive[k] = record[k].output
  <2>1. RecordsTrue(F, record) /\ ArchivesTrue(F, archive, "pulling")
    BY <1>1 DEF Faithful
  <2>2. \A p \in Procs, t \in Tasks : At(p, t) = "pulling" => Key(p, t) # k
    BY <1>1 DEF Faithful, CopyTrue
  <2> QED BY <2>1, <2>2 DEF RecordsTrue, ArchivesTrue
<1>2. CacheInv => ArchivesWhole
  BY <1>1 DEF CacheInv, ArchivesWhole
<1> QED BY <1>2, CacheInvariance, PTL

(* What a dependent folds into its key is what it will read.               *)
THEOREM StampsTrue == ASSUME Sheltered PROVE Spec => []StampTrue
<1>1. ASSUME NEW F, Faithful(F), NEW p \in Procs, NEW t \in Tasks,
             Ready(p, t), Kept(p, t), stamp[p][t] # <<>>, stamp[p][t][1] = "out"
      PROVE  stamp[p][t][2] = disk[p][t]
  <2>1. JobTrue(F, p, t)
    BY <1>1 DEF Faithful
  <2>2. CASE At(p, t) \in {"done", "cleared", "archived"}
    <3>1. stamp[p][t] = <<"key", Key(p, t)>>
      BY <2>1, <2>2 DEF JobTrue, Keyed, Saving, Named, ByKey
    <3> QED BY <1>1, <3>1
  <2>3. CASE At(p, t) \notin {"done", "cleared", "archived"}
    <3>1. stamp[p][t] = ByOutput(disk[p][t])
      BY <1>1, <2>1, <2>3 DEF JobTrue, Saving, Named, Holding, Ready, Kept
    <3> QED BY <3>1 DEF ByOutput
  <2> QED BY <2>2, <2>3
<1>2. CacheInv => StampTrue
  BY <1>1 DEF CacheInv, StampTrue
<1> QED BY <1>2, CacheInvariance, PTL

(* What is kept of a sequence, as far as it has been read.                 *)
LEMMA OnlyUnfolds ==
  ASSUME NEW K, NEW s \in Seq(K), NEW keys
  PROVE  \E kept :
           /\ kept[0] = <<>>
           /\ \A i \in 1..Len(s) : kept[i] = IF s[i] \in keys
                                             THEN Append(kept[i-1], s[i]) ELSE kept[i-1]
           /\ Only(s, keys) = kept[Len(s)]
<1> DEFINE n == Len(s)
           Val(f, i) == IF i = 0 THEN <<>>
                        ELSE IF s[i] \in keys THEN Append(f[i-1], s[i]) ELSE f[i-1]
           Solves(f, k) == f = [i \in 0..n |-> f[i]] /\ \A i \in 0..n : i < k => f[i] = Val(f, i)
           Unsolved == {k \in Nat : ~ \E f : Solves(f, k)}
<1>0. n \in Nat
  OBVIOUS
<1>1. ASSUME NEW k \in Nat, NEW f, Solves(f, k) PROVE \E g : Solves(g, k + 1)
  <2> DEFINE g == [i \in 0..n |-> IF i = k THEN Val(f, i) ELSE f[i]]
  <2>1. g = [i \in 0..n |-> g[i]]
    OBVIOUS
  <2>2. ASSUME NEW i \in 0..n, i < k + 1 PROVE g[i] = Val(g, i)
    <3>1. CASE i = 0
      BY <1>0, <1>1, <2>2, <3>1
    <3>2. CASE i # 0
      <4>1. i - 1 \in 0..n /\ i - 1 # k /\ g[i-1] = f[i-1]
        BY <1>0, <2>2, <3>2
      <4>2. g[i] = Val(f, i)
        BY <1>0, <1>1, <2>2
      <4> HIDE DEF g
      <4> QED BY <3>2, <4>1, <4>2
    <3> QED BY <3>1, <3>2
  <2> QED BY <2>1, <2>2
<1>2. Unsolved = {}
  <2> SUFFICES ASSUME Unsolved # {} PROVE FALSE
    OBVIOUS
  <2>1. PICK k \in Unsolved : \A j \in Unsolved : k <= j
    <3>1. Unsolved \in SUBSET Nat
      OBVIOUS
    <3> HIDE DEF Unsolved
    <3> QED BY <3>1, LeastNatural
  <2>2. k # 0
    <3>1. Solves([i \in 0..n |-> TRUE], 0)
      BY <1>0
    <3> QED BY <3>1
  <2>3. k - 1 \in Nat /\ k - 1 \notin Unsolved /\ (k - 1) + 1 = k
    <3>1. k \in Nat
      BY <2>1
    <3> HIDE DEF Unsolved
    <3> QED BY <2>1, <2>2, <3>1
  <2>4. PICK f : Solves(f, k - 1)
    BY <2>3
  <2> HIDE DEF Solves
  <2>5. \E g : Solves(g, k)
    BY <1>1, <2>3, <2>4
  <2> QED BY <2>5
<1>3. PICK f : Solves(f, n + 1)
  <2>1. n + 1 \in Nat
    BY <1>0
  <2> HIDE DEF Solves, n
  <2> QED BY <1>2, <2>1
<1> DEFINE Filters(g) == g = [i \in 0..Len(s) |-> IF i = 0 THEN <<>>
                             ELSE IF s[i] \in keys THEN Append(g[i - 1], s[i])
                             ELSE g[i - 1]]
           kept == CHOOSE g : Filters(g)
<1>4. Filters(f)
  BY <1>0, <1>3
<1>5. Filters(kept)
  BY <1>4
<1>6. Only(s, keys) = kept[Len(s)]
  BY DEF Only
<1> HIDE DEF kept
<1>7. kept[0] = <<>>
  BY <1>0, <1>5
<1>8. \A i \in 1..n : i \in 0..n /\ i # 0
  BY <1>0
<1>9. \A i \in 1..Len(s) : kept[i] = IF s[i] \in keys THEN Append(kept[i-1], s[i]) ELSE kept[i-1]
  BY <1>5, <1>8
<1> QED BY <1>6, <1>7, <1>9

(* A sequence is one of what it has.                                       *)
LEMMA OwnSeq ==
  ASSUME NEW K, NEW s \in Seq(K)
  PROVE  s \in Seq(ToSet(s)) /\ ToSet(s) \subseteq K
BY DEF ToSet

(* What is appended is in it.                                              *)
LEMMA AppendSet ==
  ASSUME NEW K, NEW s \in Seq(K), NEW k
  PROVE  /\ ToSet(Append(s, k)) = ToSet(s) \cup {k}
         /\ Append(s, k) \in Seq(ToSet(Append(s, k)))
<1>1. /\ Len(s) \in Nat /\ s \in Seq(K \cup {k})
      /\ Append(s, k) \in Seq(K \cup {k}) /\ Len(Append(s, k)) = Len(s) + 1
      /\ \A i \in 1..Len(s) : Append(s, k)[i] = s[i]
      /\ Append(s, k)[Len(s) + 1] = k
  OBVIOUS
<1>2. 1..Len(s)+1 = 1..Len(s) \cup {Len(s) + 1}
  BY <1>1
<1>3. DOMAIN s = 1..Len(s) /\ DOMAIN Append(s, k) = 1..Len(s)+1
  BY <1>1
<1>4. ToSet(Append(s, k)) = ToSet(s) \cup {k}
  <2> DEFINE a == Append(s, k)
  <2>1. \A i \in DOMAIN a : a[i] \in ToSet(s) \cup {k}
    BY <1>1, <1>2, <1>3 DEF ToSet
  <2>2. \A i \in DOMAIN s : s[i] \in ToSet(a)
    BY <1>1, <1>2, <1>3 DEF ToSet
  <2>3. k \in ToSet(a)
    BY <1>1, <1>2, <1>3 DEF ToSet
  <2> HIDE DEF a
  <2> QED BY <2>1, <2>2, <2>3 DEF ToSet, a
<1> QED BY <1>1, <1>4, OwnSeq

(* Only what is wanted is kept, and all of it.                             *)
LEMMA OnlyKeeps ==
  ASSUME NEW K, NEW s \in Seq(K), NEW keys
  PROVE  /\ Only(s, keys) \in Seq(K)
         /\ ToSet(Only(s, keys)) = ToSet(s) \cap keys
<1>1. PICK kept : /\ kept[0] = <<>>
                  /\ \A i \in 1..Len(s) :
                       kept[i] = IF s[i] \in keys THEN Append(kept[i-1], s[i]) ELSE kept[i-1]
                  /\ Only(s, keys) = kept[Len(s)]
  BY OnlyUnfolds
<1> DEFINE n == Len(s)
           Read(i) == {s[j] : j \in 1..i}
           Good(i) == kept[i] \in Seq(K) /\ ToSet(kept[i]) = Read(i) \cap keys
           Off == {i \in 0..n : ~Good(i)}
<1>2. n \in Nat /\ DOMAIN s = 1..n /\ \A i \in 1..n : s[i] \in K
  OBVIOUS
<1>3. Off = {}
  <2> SUFFICES ASSUME Off # {} PROVE FALSE
    OBVIOUS
  <2>1. PICK i \in Off : \A j \in Off : i <= j
    <3>1. Off \in SUBSET Nat
      BY <1>2
    <3> HIDE DEF Off
    <3> QED BY <3>1, LeastNatural
  <2>2. i \in 0..n /\ ~Good(i)
    BY <2>1
  <2>3. i # 0
    <3> SUFFICES ASSUME i = 0 PROVE FALSE
      OBVIOUS
    <3>1. kept[i] = <<>> /\ 1..i = {}
      BY <1>1
    <3>2. kept[i] \in Seq(K) /\ ToSet(kept[i]) = {} /\ Read(i) = {}
      BY <3>1 DEF ToSet
    <3> HIDE DEF Read
    <3> QED BY <2>2, <3>2
  <2>4. i \in 1..n /\ i - 1 \in 0..n /\ ~(i <= i - 1) /\ 1..i = 1..(i - 1) \cup {i}
    BY <1>2, <2>2, <2>3
  <2>5. i - 1 \notin Off
    <3> HIDE DEF Off
    <3> QED BY <2>1, <2>4
  <2>6. Good(i - 1)
    BY <2>4, <2>5
  <2>7. Read(i) = Read(i - 1) \cup {s[i]}
    BY <2>4
  <2>8. s[i] \in K /\ kept[i] = IF s[i] \in keys THEN Append(kept[i-1], s[i]) ELSE kept[i-1]
    BY <1>1, <1>2, <2>4
  <2> HIDE DEF Read
  <2>9. CASE s[i] \in keys
    <3>1. kept[i] = Append(kept[i-1], s[i])
      BY <2>8, <2>9
    <3>2. kept[i] \in Seq(K)
      BY <2>6, <2>8, <3>1
    <3>3. ToSet(kept[i]) = ToSet(kept[i-1]) \cup {s[i]}
      BY <2>6, <3>1, AppendSet
    <3> QED BY <2>2, <2>6, <2>7, <2>9, <3>2, <3>3
  <2>10. CASE s[i] \notin keys
    BY <2>2, <2>6, <2>7, <2>8, <2>10
  <2> QED BY <2>9, <2>10
<1>4. Good(n)
  <2>1. n \in 0..n
    BY <1>2
  <2> HIDE DEF Good, n
  <2> QED BY <1>3, <2>1
<1>5. ToSet(s) = Read(n)
  BY <1>2 DEF ToSet
<1> QED BY <1>1, <1>4, <1>5

(***************************************************************************)
(* How far the store exceeds its budget.                                   *)
(***************************************************************************)

(* What t in p has archived and is yet to count, or is yet to drop.        *)
Waits(p, t, k) ==
  \/ At(p, t) = "archived" /\ Key(p, t) = k
  \/ k \in ToSet(doomed[p][t])
Waited(k) == \E p \in Procs, t \in Tasks : Waits(p, t, k)

(* The archives on record that stay, and have been counted.                *)
Lasting == {k \in DOMAIN record \cap DOMAIN archive : ~Waited(k)}
Total   == uncounted + SumFunctionOnSet(written, Procs)
Counted == Cardinality(Lasting) <= Budget + Total

(* What is counted can be.                                                 *)
Tidy ==
  /\ IsFiniteSet(DOMAIN archive)
  /\ written \in [Procs -> Nat] /\ uncounted \in Nat
  /\ \A p \in Procs, t \in Tasks : doomed[p][t] \in Seq(ToSet(doomed[p][t]))

(* All that is on record has a use marker, or is about to have one.        *)
Marked ==
  /\ used \in Seq(ToSet(used))
  /\ DOMAIN record \subseteq ToSet(used)
  /\ \A p \in Procs, t \in Tasks : At(p, t) = "pulling" => Key(p, t) \in ToSet(used)

(* The inductive invariant. What is archived is counted only when it is    *)
(* stored, and what a sweep has listed is only then dropped: both are set  *)
(* apart, since either may be on record, and in the store, all the while.  *)
CountedInv == Shaped /\ Tidy /\ Marked /\ Counted

(* What a step of t in p leaves of the other tasks.                        *)
Moved(p, t) ==
  \A o \in Procs, x \in Tasks : <<o, x>> # <<p, t>> =>
    job'[o][x] = job[o][x] /\ doomed'[o][x] = doomed[o][x]

(* What is counted is a number.                                            *)
LEMMA TotalNatural == ASSUME CacheAssumption, Tidy PROVE Total \in Nat
<1>1. IsFiniteSet(Procs) /\ \A p \in Procs : written[p] \in Nat
  BY DEF CacheAssumption, Tidy
<1>2. SumFunctionOnSet(written, Procs) \in Nat
  BY <1>1, SumSplits
<1> QED BY <1>2 DEF Total, Tidy

(* What is waited for still is, if the step is not what ends the wait.     *)
LEMMA WaitsOn ==
  ASSUME NEW p \in Procs, NEW t \in Tasks, Moved(p, t),
         NEW k, Waited(k), Waits(p, t, k) => Waits(p, t, k)'
  PROVE  Waited(k)'
<1>1. PICK o \in Procs, x \in Tasks : Waits(o, x, k)
  BY DEF Waited
<1>2. CASE <<o, x>> = <<p, t>>
  BY <1>1, <1>2 DEF Waited
<1>3. CASE <<o, x>> # <<p, t>>
  <2>1. Waits(o, x, k)'
    BY <1>1, <1>3 DEF Moved, Waits, At, Key
  <2> QED BY <2>1 DEF Waited
<1> QED BY <1>2, <1>3

(* No more is added to what lasts than is counted.                         *)
LEMMA CountStays ==
  ASSUME CacheAssumption, Tidy, Tidy', Counted,
         NEW X, IsFiniteSet(X), NEW n \in Nat, Cardinality(X) <= n,
         Lasting' \subseteq Lasting \cup X, Total + n <= Total'
  PROVE  Counted'
<1>1. IsFiniteSet(Lasting) /\ IsFiniteSet(Lasting')
  BY FS_Subset DEF Tidy, Lasting
<1>2. IsFiniteSet(Lasting \cup X) /\ Cardinality(Lasting \cup X) <= Cardinality(Lasting) + Cardinality(X)
  BY <1>1, UnionSize
<1>3. Cardinality(Lasting') <= Cardinality(Lasting \cup X)
  BY <1>2, FS_Subset
<1>4. /\ Cardinality(Lasting) \in Nat /\ Cardinality(Lasting') \in Nat
      /\ Cardinality(X) \in Nat /\ Cardinality(Lasting \cup X) \in Nat
  BY <1>1, <1>2, FS_CardinalityType
<1>5. Total \in Nat /\ Budget \in Nat
  BY TotalNatural DEF CacheAssumption
<1>6. Total' \in Nat
  <2>1. IsFiniteSet(Procs) /\ \A p \in Procs : written'[p] \in Nat
    BY DEF CacheAssumption, Tidy
  <2>2. SumFunctionOnSet(written', Procs) \in Nat
    BY <2>1, SumSplits
  <2> QED BY <2>2 DEF Total, Tidy
<1>7. Cardinality(Lasting) <= Budget + Total
  BY DEF Counted
<1>8. Cardinality(Lasting') <= Budget + Total'
  BY <1>2, <1>3, <1>4, <1>5, <1>6, <1>7
<1> QED BY <1>8 DEF Counted

(* Nothing is added.                                                       *)
LEMMA CountsNoMore ==
  ASSUME CacheAssumption, Tidy, Tidy', Counted, Lasting' \subseteq Lasting,
         UNCHANGED <<written, uncounted>>
  PROVE  Counted'
<1>1. IsFiniteSet({}) /\ Cardinality({}) <= 0
  BY FS_EmptySet
<1>2. Total' = Total /\ Total \in Nat
  BY TotalNatural DEF Total
<1>3. Total + 0 <= Total' /\ Lasting' \subseteq Lasting \cup {}
  BY <1>2
<1> QED BY <1>1, <1>3, CountStays

(* Of the records nothing changes, and no archive but one that is waited   *)
(* for is added.                                                           *)
LEMMA QuietCounted ==
  ASSUME CacheAssumption, CountedInv, Shaped', NEW p \in Procs, NEW t \in Tasks, Moved(p, t),
         At(p, t) # "archived", At(p, t)' # "pulling",
         UNCHANGED <<record, used, written, doomed, uncounted>>,
         IsFiniteSet(DOMAIN archive'),
         \A k \in DOMAIN archive' \ DOMAIN archive : Waits(p, t, k)'
  PROVE  CountedInv'
<1>1. Tidy'
  BY DEF CountedInv, Tidy
<1>2. Marked'
  BY DEF CountedInv, Marked, Moved, At, Key
<1>3. \A k : Waited(k) => Waited(k)'
  <2>1. \A k : Waits(p, t, k) => Waits(p, t, k)'
    BY DEF Waits
  <2> QED BY <2>1, WaitsOn
<1>4. Lasting' \subseteq Lasting
  BY <1>3 DEF Lasting, Waited
<1>5. Counted'
  BY <1>1, <1>4, CountsNoMore DEF CountedInv
<1> QED BY <1>1, <1>2, <1>5 DEF CountedInv

(* A marker is removed, or becomes the latest.                             *)
LEMMA MarksMove ==
  ASSUME used \in Seq(ToSet(used)), NEW k
  PROVE  /\ Unmarked(k) \in Seq(ToSet(Unmarked(k))) /\ ToSet(Unmarked(k)) = ToSet(used) \ {k}
         /\ Touched(k) \in Seq(ToSet(Touched(k))) /\ ToSet(Touched(k)) = ToSet(used) \cup {k}
<1>1. /\ Unmarked(k) \in Seq(ToSet(used))
      /\ ToSet(Unmarked(k)) = ToSet(used) \cap (ToSet(used) \ {k})
  BY OnlyKeeps DEF Unmarked
<1>2. Unmarked(k) \in Seq(ToSet(Unmarked(k)))
  BY <1>1, OwnSeq
<1>3. /\ Touched(k) \in Seq(ToSet(Touched(k)))
      /\ ToSet(Touched(k)) = ToSet(Unmarked(k)) \cup {k}
  BY <1>2, AppendSet DEF Touched
<1> QED BY <1>1, <1>2, <1>3

(* A task at no archive of its own waits for what it is to drop.           *)
LEMMA WaitsSame ==
  ASSUME NEW p \in Procs, NEW t \in Tasks, Moved(p, t),
         At(p, t) # "archived", doomed' = doomed
  PROVE  \A k : Waited(k) => Waited(k)'
<1>1. \A k : Waits(p, t, k) => Waits(p, t, k)'
  BY DEF Waits
<1> QED BY <1>1, WaitsOn

(* The markers a step has to leave.                                        *)
LEMMA MarksStay ==
  ASSUME NEW p \in Procs, NEW t \in Tasks, Marked, Moved(p, t),
         used' \in Seq(ToSet(used')), DOMAIN record' \subseteq ToSet(used'),
         At(p, t)' = "pulling" => Key(p, t)' \in ToSet(used'),
         \A o \in Procs, x \in Tasks :
           <<o, x>> # <<p, t>> /\ At(o, x) = "pulling" => Key(o, x) \in ToSet(used')
  PROVE  Marked'
<1>1. ASSUME NEW o \in Procs, NEW x \in Tasks, At(o, x)' = "pulling"
      PROVE  Key(o, x)' \in ToSet(used')
  <2>1. CASE <<o, x>> = <<p, t>>
    BY <1>1, <2>1
  <2>2. CASE <<o, x>> # <<p, t>>
    <3>1. At(o, x) = "pulling" /\ Key(o, x)' = Key(o, x)
      BY <1>1, <2>2 DEF Moved, At, Key
    <3> QED BY <2>2, <3>1
  <2> QED BY <2>1, <2>2
<1> QED BY <1>1 DEF Marked

(* A task has its record, and goes on.                                     *)
LEMMA FindMoves ==
  ASSUME Shaped, NEW p \in Procs, NEW t \in Tasks, NEW phase, NEW r,
         job' = [job EXCEPT ![p][t].loaded = r, ![p][t].at = phase], UNCHANGED doomed
  PROVE  Moved(p, t) /\ At(p, t)' = phase /\ Key(p, t)' = Key(p, t)
BY DEF Shaped, Moved, At, Key

(* A hit marks its result used.                                            *)
LEMMA LoadsCounted ==
  ASSUME CacheAssumption, CountedInv, Shaped', NEW p \in Procs, NEW t \in Tasks, Loads(p, t)
  PROVE  CountedInv'
<1>1. /\ job' = [job EXCEPT ![p][t].at = "found", ![p][t].loaded = record[Key(p, t)]]
      /\ At(p, t) = "keyed" /\ used' = Touched(Key(p, t))
      /\ UNCHANGED <<record, archive, written, doomed, uncounted>>
  BY DEF Loads, sweep
<1>2. Moved(p, t) /\ At(p, t)' = "found"
  BY <1>1 DEF Moved, CountedInv, Shaped, At
<1>3. Tidy'
  BY <1>1 DEF CountedInv, Tidy
<1>4. used' \in Seq(ToSet(used')) /\ ToSet(used') = ToSet(used) \cup {Key(p, t)}
  BY <1>1, MarksMove DEF CountedInv, Marked
<1>5. Marked'
  <2>1. Marked /\ DOMAIN record \subseteq ToSet(used)
    BY DEF CountedInv, Marked
  <2>2. \A o \in Procs, x \in Tasks : At(o, x) = "pulling" => Key(o, x) \in ToSet(used')
    BY <1>4 DEF CountedInv, Marked
  <2>3. DOMAIN record' \subseteq ToSet(used') /\ At(p, t)' # "pulling"
    BY <1>1, <1>2, <1>4, <2>1
  <2> QED BY <1>2, <1>4, <2>1, <2>2, <2>3, MarksStay
<1>6. \A k : Waited(k) => Waited(k)'
  BY <1>1, <1>2, WaitsSame
<1>7. Lasting' \subseteq Lasting
  BY <1>1, <1>6 DEF Lasting, Waited
<1>8. Counted'
  BY <1>1, <1>3, <1>7, CountsNoMore DEF CountedInv
<1> QED BY <1>3, <1>5, <1>8 DEF CountedInv

(* What is pulled without a copy is on record, and not in `written`.       *)
LEMMA PullsCounted ==
  ASSUME CacheAssumption, CountedInv, Shaped', NEW p \in Procs, NEW t \in Tasks, Pulls(p, t)
  PROVE  CountedInv'
<1> DEFINE k == Key(p, t)
           copies == far.record[k].archived /\ Has(far.archive, k)
<1>1. /\ At(p, t) = "keyed" /\ k \notin DOMAIN record
      /\ job' = [job EXCEPT ![p][t].loaded = far.record[k],
                            ![p][t].at = IF copies THEN "pulling" ELSE "found"]
      /\ archive' = (IF copies THEN Put(archive, k, Torn) ELSE archive)
      /\ record' = (IF copies THEN record ELSE Put(record, k, far.record[k]))
      /\ used' = Touched(k)
      /\ uncounted' = uncounted + (IF copies THEN 0 ELSE Held({k}))
      /\ UNCHANGED <<written, doomed>>
  BY DEF Pulls, Has
<1>2. Moved(p, t) /\ Key(p, t)' = k
  <2> DEFINE phase == IF copies THEN "pulling" ELSE "found"
             r == far.record[k]
  <2>1. /\ job' = [job EXCEPT ![p][t].loaded = r, ![p][t].at = phase]
        /\ Shaped /\ UNCHANGED doomed
    BY <1>1 DEF CountedInv
  <2> HIDE DEF phase, r, copies
  <2> QED BY <2>1, FindMoves
<1> HIDE DEF k, copies
<1>3. used' \in Seq(ToSet(used')) /\ ToSet(used') = ToSet(used) \cup {k}
  BY <1>1, MarksMove DEF CountedInv, Marked
<1>4. /\ DOMAIN archive' = IF copies THEN DOMAIN archive \cup {k} ELSE DOMAIN archive
      /\ DOMAIN record' = IF copies THEN DOMAIN record ELSE DOMAIN record \cup {k}
  <2>1. /\ DOMAIN Put(archive, k, Torn) = DOMAIN archive \cup {k}
        /\ DOMAIN Put(record, k, far.record[k]) = DOMAIN record \cup {k}
    BY DEF Put
  <2>2. CASE copies
    BY <1>1, <2>1, <2>2
  <2>3. CASE ~copies
    BY <1>1, <2>1, <2>3
  <2> QED BY <2>2, <2>3
<1>5. IsFiniteSet(DOMAIN archive) /\ IsFiniteSet(DOMAIN archive')
  <2>1. IsFiniteSet(DOMAIN archive)
    BY DEF CountedInv, Tidy
  <2>2. IsFiniteSet(DOMAIN archive \cup {k})
    BY <2>1, FS_AddElement
  <2> QED BY <1>4, <2>1, <2>2
<1>6. Held({k}) = Cardinality({k} \cap DOMAIN archive) /\ IsFiniteSet({k} \cap DOMAIN archive)
  BY <1>5, FS_Intersection DEF Held
<1>7. Held({k}) \in Nat
  BY <1>6, FS_CardinalityType
<1>8. Tidy'
  BY <1>1, <1>5, <1>7 DEF CountedInv, Tidy
<1>9. Marked'
  <2>1. DOMAIN record' \subseteq ToSet(used')
    BY <1>3, <1>4 DEF CountedInv, Marked
  <2>2. \A o \in Procs, x \in Tasks : At(o, x) = "pulling" => Key(o, x) \in ToSet(used')
    BY <1>3 DEF CountedInv, Marked
  <2> QED BY <1>2, <1>3, <2>1, <2>2, MarksStay DEF CountedInv
<1>10. \A c : Waited(c) => Waited(c)'
  BY <1>1, <1>2, WaitsSame
<1>11. CASE copies
  <2>1. Lasting' \subseteq Lasting
    BY <1>1, <1>4, <1>10, <1>11 DEF Lasting, Waited
  <2>2. uncounted' = uncounted
    BY <1>1, <1>11 DEF CountedInv, Tidy
  <2>3. Counted'
    BY <1>1, <1>8, <2>1, <2>2, CountsNoMore DEF CountedInv
  <2> QED BY <1>8, <1>9, <2>3 DEF CountedInv
<1>12. CASE ~copies
  <2>1. Lasting' \subseteq Lasting \cup ({k} \cap DOMAIN archive)
    BY <1>1, <1>4, <1>10, <1>12 DEF Lasting, Waited
  <2>2. Total + Held({k}) <= Total'
    <3>1. uncounted' = uncounted + Held({k}) /\ written' = written
      BY <1>1, <1>12
    <3>2. Total \in Nat /\ uncounted \in Nat
      BY TotalNatural DEF CountedInv, Tidy
    <3>3. IsFiniteSet(Procs) /\ \A o \in Procs : written[o] \in Nat
      BY DEF CacheAssumption, CountedInv, Tidy
    <3>4. SumFunctionOnSet(written, Procs) \in Nat
      BY <3>3, SumSplits
    <3> QED BY <1>7, <3>1, <3>2, <3>4 DEF Total
  <2>3. Cardinality({k} \cap DOMAIN archive) <= Held({k})
    BY <1>6, <1>7
  <2>4. Counted'
    BY <1>6, <1>7, <1>8, <2>1, <2>2, <2>3, CountStays DEF CountedInv
  <2> QED BY <1>8, <1>9, <2>4 DEF CountedInv
<1> QED BY <1>11, <1>12

(* What a copy makes whole is put on record, and not in `written`.         *)
LEMMA PulledCounted ==
  ASSUME CacheAssumption, CountedInv, Shaped', NEW p \in Procs, NEW t \in Tasks, Pulled(p, t)
  PROVE  CountedInv'
<1> DEFINE k == Key(p, t)
<1>1. /\ At(p, t) = "pulling" /\ Step(p, t, "found")
      /\ UNCHANGED <<used, written, doomed>>
  BY DEF Pulled
<1>2. Moved(p, t) /\ At(p, t)' = "found"
  BY <1>1, StepMoves DEF Moved, CountedInv
<1>3. CASE UNCHANGED <<archive, record, uncounted>>
  <2>1. IsFiniteSet(DOMAIN archive') /\ DOMAIN archive' \ DOMAIN archive = {}
    BY <1>3 DEF CountedInv, Tidy
  <2> QED BY <1>1, <1>2, <1>3, <2>1, QuietCounted
<1>4. CASE /\ k \in DOMAIN archive
           /\ archive' = Put(archive, k, far.archive[k])
           /\ record' = Put(record, k, Rec(p, t))
           /\ uncounted' = uncounted + (IF k \in DOMAIN record THEN 0 ELSE 1)
  <2>1. DOMAIN archive' = DOMAIN archive /\ DOMAIN record' = DOMAIN record \cup {k}
    <3>1. \A f, i, v : DOMAIN Put(f, i, v) = DOMAIN f \cup {i}
      BY DEF Put
    <3> HIDE DEF k
    <3>2. DOMAIN archive' = DOMAIN archive \cup {k} /\ DOMAIN record' = DOMAIN record \cup {k}
      BY <1>4, <3>1
    <3> QED BY <1>4, <3>2
  <2> HIDE DEF k
  <2>2. k \in ToSet(used)
    BY <1>1 DEF CountedInv, Marked, k
  <2>3. Tidy'
    BY <1>1, <1>4, <2>1 DEF CountedInv, Tidy
  <2>4. Marked'
    <3>1. Marked /\ DOMAIN record \subseteq ToSet(used) /\ used \in Seq(ToSet(used))
      BY DEF CountedInv, Marked
    <3>2. \A o \in Procs, x \in Tasks : At(o, x) = "pulling" => Key(o, x) \in ToSet(used')
      BY <1>1 DEF CountedInv, Marked
    <3>3. DOMAIN record' \subseteq ToSet(used') /\ used' \in Seq(ToSet(used'))
      BY <1>1, <2>1, <2>2, <3>1
    <3> QED BY <1>2, <3>1, <3>2, <3>3, MarksStay
  <2>5. \A c : Waited(c) => Waited(c)'
    BY <1>1, <1>2, WaitsSame
  <2>6. CASE k \in DOMAIN record
    <3>1. Lasting' \subseteq Lasting
      BY <2>1, <2>5, <2>6 DEF Lasting, Waited
    <3>2. uncounted' = uncounted
      BY <1>4, <2>6 DEF CountedInv, Tidy
    <3>3. Counted'
      BY <1>1, <2>3, <3>1, <3>2, CountsNoMore DEF CountedInv
    <3> QED BY <2>3, <2>4, <3>3 DEF CountedInv
  <2>7. CASE k \notin DOMAIN record
    <3>1. Lasting' \subseteq Lasting \cup {k}
      BY <2>1, <2>5 DEF Lasting, Waited
    <3>2. IsFiniteSet({k}) /\ Cardinality({k}) <= 1
      <4>1. IsFiniteSet({k}) /\ Cardinality({k}) = 1
        BY FS_Singleton
      <4> QED BY <4>1
    <3>3. Total + 1 <= Total'
      <4>1. uncounted' = uncounted + 1 /\ written' = written
        BY <1>1, <1>4, <2>7
      <4>2. IsFiniteSet(Procs) /\ \A o \in Procs : written[o] \in Nat
        BY DEF CacheAssumption, CountedInv, Tidy
      <4>3. SumFunctionOnSet(written, Procs) \in Nat /\ uncounted \in Nat
        BY <4>2, SumSplits DEF CountedInv, Tidy
      <4> QED BY <4>1, <4>3 DEF Total
    <3>4. Counted'
      BY <2>3, <3>1, <3>2, <3>3, CountStays DEF CountedInv
    <3> QED BY <2>3, <2>4, <3>4 DEF CountedInv
  <2> QED BY <2>6, <2>7
<1>5. CASE /\ k \notin DOMAIN archive /\ archive' = archive
           /\ record' = Put(record, k, Rec(p, t)) /\ uncounted' = uncounted
  <2>1. DOMAIN archive' = DOMAIN archive /\ DOMAIN record' = DOMAIN record \cup {k}
    BY <1>5 DEF Put
  <2> HIDE DEF k
  <2>2. k \in ToSet(used)
    BY <1>1 DEF CountedInv, Marked, k
  <2>3. Tidy'
    BY <1>1, <1>5 DEF CountedInv, Tidy
  <2>4. Marked'
    <3>1. Marked /\ DOMAIN record \subseteq ToSet(used) /\ used \in Seq(ToSet(used))
      BY DEF CountedInv, Marked
    <3>2. \A o \in Procs, x \in Tasks : At(o, x) = "pulling" => Key(o, x) \in ToSet(used')
      BY <1>1 DEF CountedInv, Marked
    <3>3. DOMAIN record' \subseteq ToSet(used') /\ used' \in Seq(ToSet(used'))
      BY <1>1, <2>1, <2>2, <3>1
    <3> QED BY <1>2, <3>1, <3>2, <3>3, MarksStay
  <2>5. \A c : Waited(c) => Waited(c)'
    BY <1>1, <1>2, WaitsSame
  <2>6. Lasting' \subseteq Lasting
    BY <1>5, <2>1, <2>5 DEF Lasting, Waited
  <2>7. Counted'
    BY <1>1, <1>5, <2>3, <2>6, CountsNoMore DEF CountedInv
  <2> QED BY <2>3, <2>4, <2>7 DEF CountedInv
<1>6. Held({k}) = IF k \in DOMAIN archive THEN 1 ELSE 0
  <2>1. Cardinality({k}) = 1 /\ Cardinality({}) = 0
    BY FS_Singleton, FS_EmptySet
  <2>2. {k} \cap DOMAIN archive = IF k \in DOMAIN archive THEN {k} ELSE {}
    OBVIOUS
  <2> HIDE DEF k
  <2>3. CASE k \in DOMAIN archive
    BY <2>1, <2>2, <2>3 DEF Held
  <2>4. CASE k \notin DOMAIN archive
    BY <2>1, <2>2, <2>4 DEF Held
  <2> QED BY <2>3, <2>4
<1>7. uncounted \in Nat
  BY DEF CountedInv, Tidy
<1>8. CASE UNCHANGED <<archive, record, uncounted>>
  BY <1>3, <1>8
<1>9. CASE /\ archive' = (IF k \in DOMAIN archive THEN Put(archive, k, far.archive[k]) ELSE archive)
           /\ record' = Put(record, k, Rec(p, t))
           /\ uncounted' = uncounted + (IF k \in DOMAIN record THEN 0 ELSE Held({k}))
  <2> HIDE DEF k
  <2>1. CASE k \in DOMAIN archive
    BY <1>4, <1>6, <1>9, <2>1
  <2>2. CASE k \notin DOMAIN archive
    <3>1. uncounted' = uncounted
      BY <1>6, <1>7, <1>9, <2>2
    <3> QED BY <1>5, <1>9, <2>2, <3>1
  <2> QED BY <2>1, <2>2
<1> QED BY <1>8, <1>9 DEF Pulled, Has

(* An entry found wrong is forgotten: no copy of it is being made.         *)
LEMMA ForgetsCounted ==
  ASSUME CacheAssumption, CountedInv, Shaped', NEW p \in Procs, NEW t \in Tasks,
         ~Interferes(p, t), At(p, t) = "checking", Moved(p, t), At(p, t)' = "failed",
         record' = Drop(record, Key(p, t)), archive' = Drop(archive, Key(p, t)),
         used' = Unmarked(Key(p, t)), UNCHANGED sweep
  PROVE  CountedInv'
<1>1. /\ DOMAIN record' = DOMAIN record \ {Key(p, t)}
      /\ DOMAIN archive' = DOMAIN archive \ {Key(p, t)}
      /\ UNCHANGED <<written, doomed, uncounted>>
  BY DEF Drop, sweep
<1>2. used' \in Seq(ToSet(used')) /\ ToSet(used') = ToSet(used) \ {Key(p, t)}
  BY MarksMove DEF CountedInv, Marked
<1>3. Tidy'
  <2> DEFINE files == DOMAIN archive \ {Key(p, t)}
  <2>1. IsFiniteSet(files)
    BY FS_RemoveElement DEF CountedInv, Tidy
  <2> QED BY <1>1, <2>1 DEF CountedInv, Tidy
<1>4. Marked'
  <2>1. Marked /\ DOMAIN record' \subseteq ToSet(used')
    BY <1>1, <1>2 DEF CountedInv, Marked
  <2>2. \A o \in Procs, x \in Tasks :
          <<o, x>> # <<p, t>> /\ At(o, x) = "pulling" => Key(o, x) \in ToSet(used')
    BY <1>2, LeftAlone DEF CountedInv, Marked, Copying
  <2> QED BY <1>2, <2>1, <2>2, MarksStay
<1>5. \A k : Waited(k) => Waited(k)'
  BY <1>1, WaitsSame
<1>6. Lasting' \subseteq Lasting
  BY <1>1, <1>5 DEF Lasting, Waited
<1>7. Counted'
  BY <1>1, <1>3, <1>6, CountsNoMore DEF CountedInv
<1> QED BY <1>3, <1>4, <1>7 DEF CountedInv

(* An entry a sweep drops loses its record and its marker.                 *)
LEMMA DropsRecordCounted ==
  ASSUME CacheAssumption, CountedInv, Shaped', NEW p \in Procs, NEW t \in Tasks,
         ~Interferes(p, t), DropsRecord(p, t)
  PROVE  CountedInv'
<1> DEFINE k == Head(doomed[p][t])
<1>1. /\ At(p, t) = "sweeping" /\ doomed[p][t] # <<>>
      /\ record' = Drop(record, k) /\ used' = Unmarked(k)
      /\ Step(p, t, "dropping") /\ UNCHANGED <<archive, written, doomed, uncounted>>
  BY DEF DropsRecord, sweep
<1>2. Moved(p, t) /\ At(p, t)' = "dropping"
  BY <1>1, StepMoves DEF Moved, CountedInv
<1> HIDE DEF k
<1>3. DOMAIN record' = DOMAIN record \ {k}
  BY <1>1 DEF Drop
<1>4. used' \in Seq(ToSet(used')) /\ ToSet(used') = ToSet(used) \ {k}
  BY <1>1, MarksMove DEF CountedInv, Marked
<1>5. Tidy'
  BY <1>1 DEF CountedInv, Tidy
<1>6. Marked'
  <2>1. Marked /\ DOMAIN record' \subseteq ToSet(used')
    BY <1>3, <1>4 DEF CountedInv, Marked
  <2>2. ASSUME NEW o \in Procs, NEW x \in Tasks, <<o, x>> # <<p, t>>, At(o, x) = "pulling"
        PROVE  Key(o, x) \in ToSet(used')
    <3>1. Key(o, x) # k
      BY <1>1, <2>2, LeftAlone DEF Copying, k
    <3>2. Key(o, x) \in ToSet(used)
      BY <2>2 DEF CountedInv, Marked
    <3> QED BY <1>4, <3>1, <3>2
  <2> QED BY <1>2, <1>4, <2>1, <2>2, MarksStay
<1>7. \A c : Waited(c) => Waited(c)'
  BY <1>1, <1>2, WaitsSame
<1>8. Lasting' \subseteq Lasting
  BY <1>1, <1>3, <1>7 DEF Lasting, Waited
<1>9. Counted'
  BY <1>1, <1>5, <1>8, CountsNoMore DEF CountedInv
<1> QED BY <1>5, <1>6, <1>9 DEF CountedInv

(* ... and then its archive: what lasts has not been touched.              *)
LEMMA DropsArchiveCounted ==
  ASSUME CacheAssumption, CountedInv, Shaped', NEW p \in Procs, NEW t \in Tasks,
         DropsArchive(p, t)
  PROVE  CountedInv'
<1> DEFINE d == doomed[p][t]
           k == Head(d)
<1>1. /\ At(p, t) = "dropping" /\ archive' = Drop(archive, k)
      /\ doomed' = [doomed EXCEPT ![p][t] = Tail(d)]
      /\ Step(p, t, "sweeping") /\ UNCHANGED <<record, used, written, uncounted>>
  BY DEF DropsArchive
<1>2. /\ \A o \in Procs, x \in Tasks : <<o, x>> # <<p, t>> => job'[o][x] = job[o][x]
      /\ At(p, t)' = "sweeping"
  BY <1>1, StepMoves DEF CountedInv
<1>3. /\ doomed'[p][t] = Tail(d)
      /\ \A o \in Procs, x \in Tasks : <<o, x>> # <<p, t>> => doomed'[o][x] = doomed[o][x]
  <2>1. DOMAIN doomed = Procs /\ \A o \in Procs : DOMAIN doomed[o] = Tasks
    BY DEF CountedInv, Shaped
  <2> QED BY <1>1, <2>1
<1>4. Moved(p, t)
  BY <1>2, <1>3 DEF Moved
<1>5. d \in Seq(ToSet(d)) /\ d # <<>>
  BY <1>1 DEF CountedInv, Tidy, Shaped
<1> HIDE DEF d
<1>6. /\ Tail(d) \in Seq(ToSet(d)) /\ Len(Tail(d)) = Len(d) - 1 /\ Len(d) \in Nat
      /\ \A i \in 1..Len(d) - 1 : Tail(d)[i] = d[i + 1]
      /\ k = d[1] /\ DOMAIN d = 1..Len(d) /\ DOMAIN Tail(d) = 1..Len(d) - 1
  BY <1>5
<1> HIDE DEF k
<1>7. ToSet(d) \subseteq ToSet(Tail(d)) \cup {k}
  <2> SUFFICES ASSUME NEW i \in DOMAIN d, d[i] # k PROVE d[i] \in ToSet(Tail(d))
    BY DEF ToSet
  <2>1. i - 1 \in DOMAIN Tail(d) /\ Tail(d)[i - 1] = d[i]
    BY <1>6
  <2> QED BY <2>1 DEF ToSet
<1>8. DOMAIN archive' = DOMAIN archive \ {k}
  BY <1>1 DEF Drop
<1>9. Tidy'
  <2>1. \A o \in Procs, x \in Tasks : doomed'[o][x] \in Seq(ToSet(doomed'[o][x]))
    <3>1. Tail(d) \in Seq(ToSet(Tail(d)))
      BY <1>6, OwnSeq
    <3> QED BY <1>3, <3>1 DEF CountedInv, Tidy
  <2>2. IsFiniteSet(DOMAIN archive \ {k})
    BY FS_RemoveElement DEF CountedInv, Tidy
  <2> QED BY <1>1, <1>8, <2>1, <2>2 DEF CountedInv, Tidy
<1>10. Marked'
  <2>1. Marked /\ DOMAIN record \subseteq ToSet(used) /\ used \in Seq(ToSet(used))
    BY DEF CountedInv, Marked
  <2>2. \A o \in Procs, x \in Tasks : At(o, x) = "pulling" => Key(o, x) \in ToSet(used')
    BY <1>1 DEF CountedInv, Marked
  <2> QED BY <1>1, <1>2, <1>4, <2>1, <2>2, MarksStay
<1>11. Lasting' \subseteq Lasting
  <2> SUFFICES ASSUME NEW c \in Lasting' PROVE c \in Lasting
    OBVIOUS
  <2>1. c \in DOMAIN record \cap DOMAIN archive /\ c # k /\ ~Waited(c)'
    BY <1>1, <1>8 DEF Lasting, Waited
  <2>2. Waits(p, t, c) => Waits(p, t, c)'
    BY <1>1, <1>3, <1>7, <2>1 DEF Waits, d
  <2>3. ~Waited(c)
    BY <1>4, <2>1, <2>2, WaitsOn
  <2> QED BY <2>1, <2>3 DEF Lasting
<1>12. Counted'
  BY <1>1, <1>9, <1>11, CountsNoMore DEF CountedInv
<1> QED BY <1>9, <1>10, <1>12 DEF CountedInv

(* What a sweep leaves fits the budget.                                    *)
LEMMA DoomedFits ==
  ASSUME CacheAssumption, IsFiniteSet(DOMAIN archive), NEW K, NEW s \in Seq(K)
  PROVE  /\ Doomed(s) \in Seq(K)
         /\ IsFiniteSet((ToSet(s) \ ToSet(Doomed(s))) \cap DOMAIN archive)
         /\ Cardinality((ToSet(s) \ ToSet(Doomed(s))) \cap DOMAIN archive) <= Budget
<1> DEFINE n == Len(s)
           After(i) == {s[j] : j \in i+1..Len(s)}
           kept == {i \in 0..Len(s) : Held({s[j] : j \in i+1..Len(s)}) <= Budget}
           m == Min(kept)
<1>1. n \in Nat /\ DOMAIN s = 1..n /\ \A i \in 1..n : s[i] \in K
  OBVIOUS
<1>2. Budget \in Nat
  BY DEF CacheAssumption
<1>3. Len(s) \in kept
  <2>1. {s[j] : j \in Len(s)+1..Len(s)} = {}
    BY <1>1
  <2>2. Held({s[j] : j \in Len(s)+1..Len(s)}) = 0
    BY <2>1, FS_EmptySet DEF Held
  <2> QED BY <1>1, <1>2, <2>2
<1>4. kept \in SUBSET Nat /\ kept # {}
  <2>1. kept \in SUBSET (0..n) /\ 0..n \subseteq Nat
    BY <1>1
  <2> HIDE DEF kept, n
  <2> QED BY <1>3, <2>1
<1>5. m \in kept
  <2> HIDE DEF kept
  <2> QED BY <1>4, MinIsLeast
<1>6. m \in 0..n /\ Held(After(m)) <= Budget
  BY <1>5
<1>7. Doomed(s) = SubSeq(s, 1, m)
  BY DEF Doomed
<1> HIDE DEF m, kept
<1>8. /\ SubSeq(s, 1, m) \in Seq(K) /\ DOMAIN SubSeq(s, 1, m) = 1..m
      /\ \A i \in 1..m : SubSeq(s, 1, m)[i] = s[i]
  BY <1>1, <1>6
<1> DEFINE rest == (ToSet(s) \ ToSet(Doomed(s))) \cap DOMAIN archive
<1>9. rest \subseteq After(m) \cap DOMAIN archive
  <2> SUFFICES ASSUME NEW i \in 1..n, s[i] \notin ToSet(Doomed(s)) PROVE s[i] \in After(m)
    BY <1>1 DEF ToSet
  <2> DEFINE d == Doomed(s)
  <2>d. DOMAIN d = 1..m /\ \A j \in 1..m : d[j] = s[j]
    BY <1>7, <1>8
  <2>e. s[i] \notin ToSet(d)
    OBVIOUS
  <2>1. i \notin 1..m
    <3> HIDE DEF d
    <3> QED BY <2>d, <2>e DEF ToSet
  <2>2. i \in m+1..n
    BY <1>1, <1>6, <2>1
  <2> QED BY <2>2
<1> DEFINE late == After(m) \cap DOMAIN archive
<1>10. IsFiniteSet(late) /\ Cardinality(late) <= Budget
  <2>1. Cardinality(late) <= Budget
    BY <1>6 DEF Held
  <2> QED BY <2>1, FS_Intersection
<1> HIDE DEF late, rest
<1>11. IsFiniteSet(rest) /\ Cardinality(rest) <= Cardinality(late)
  BY <1>9, <1>10, FS_Subset DEF late
<1>12. Cardinality(rest) \in Nat /\ Cardinality(late) \in Nat
  BY <1>10, <1>11, FS_CardinalityType
<1>13. Cardinality(rest) <= Budget
  BY <1>2, <1>10, <1>11, <1>12
<1> QED BY <1>7, <1>8, <1>11, <1>13 DEF rest

(* What is stored is counted, until a sweep makes the rest fit.            *)
LEMMA StoresCounted ==
  ASSUME CacheAssumption, CountedInv, Shaped', NEW p \in Procs, NEW t \in Tasks, Stores(p, t)
  PROVE  CountedInv'
<1> DEFINE k == Key(p, t)
           n == written[p] + Held({k})
           s == Only(used', DOMAIN record')
<1>1. /\ At(p, t) = "archived" /\ Step(p, t, "sweeping")
      /\ DOMAIN record' = DOMAIN record \cup {k}
      /\ used' = Touched(k) /\ archive' = archive
      /\ \/ /\ written' = [written EXCEPT ![p] = 0] /\ uncounted' = 0
            /\ doomed' = [doomed EXCEPT ![p][t] = Doomed(s)]
         \/ written' = [written EXCEPT ![p] = n] /\ UNCHANGED <<doomed, uncounted>>
  BY DEF Stores, Put
<1>2. /\ \A o \in Procs, x \in Tasks : <<o, x>> # <<p, t>> => job'[o][x] = job[o][x]
      /\ At(p, t)' = "sweeping" /\ Key(p, t)' = k
  BY <1>1, StepMoves DEF CountedInv
<1> HIDE DEF k
<1>3. used' \in Seq(ToSet(used')) /\ ToSet(used') = ToSet(used) \cup {k}
  BY <1>1, MarksMove DEF CountedInv, Marked
<1>4. DOMAIN record' \subseteq ToSet(used')
  BY <1>1, <1>3 DEF CountedInv, Marked
<1>5. IsFiniteSet(DOMAIN archive) /\ IsFiniteSet(DOMAIN archive')
  BY <1>1 DEF CountedInv, Tidy
<1>6. Held({k}) = Cardinality({k} \cap DOMAIN archive) /\ IsFiniteSet({k} \cap DOMAIN archive)
  BY <1>5, FS_Intersection DEF Held
<1>7. Held({k}) \in Nat
  BY <1>6, FS_CardinalityType
<1>8. IsFiniteSet(Procs) /\ (\A o \in Procs : written[o] \in Nat) /\ DOMAIN written = Procs
      /\ uncounted \in Nat /\ Budget \in Nat
  BY DEF CacheAssumption, CountedInv, Tidy
<1>9. Moved(p, t) => Marked'
  <2>1. Marked
    BY DEF CountedInv
  <2>2. \A o \in Procs, x \in Tasks : At(o, x) = "pulling" => Key(o, x) \in ToSet(used')
    BY <1>3 DEF CountedInv, Marked
  <2> QED BY <1>2, <1>3, <1>4, <2>1, <2>2, MarksStay
<1>10. CASE /\ written' = [written EXCEPT ![p] = 0] /\ uncounted' = 0
            /\ doomed' = [doomed EXCEPT ![p][t] = Doomed(s)]
  <2>1. /\ s \in Seq(ToSet(used'))
        /\ ToSet(s) = ToSet(used') \cap DOMAIN record'
    BY <1>3, OnlyKeeps
  <2>2. ToSet(s) = DOMAIN record'
    BY <1>4, <2>1
  <2> HIDE DEF s
  <2> DEFINE rest == (ToSet(s) \ ToSet(Doomed(s))) \cap DOMAIN archive
  <2>3. /\ Doomed(s) \in Seq(ToSet(used')) /\ IsFiniteSet(rest)
        /\ Cardinality(rest) <= Budget
    BY <1>5, <2>1, DoomedFits
  <2>4. Doomed(s) \in Seq(ToSet(Doomed(s)))
    BY <2>3, OwnSeq
  <2>5. /\ doomed'[p][t] = Doomed(s)
        /\ \A o \in Procs, x \in Tasks : <<o, x>> # <<p, t>> => doomed'[o][x] = doomed[o][x]
    <3>1. DOMAIN doomed = Procs /\ \A o \in Procs : DOMAIN doomed[o] = Tasks
      BY DEF CountedInv, Shaped
    <3> QED BY <1>10, <3>1
  <2>6. Moved(p, t)
    BY <1>2, <2>5 DEF Moved
  <2>7. Tidy'
    <3>1. \A o \in Procs, x \in Tasks : doomed'[o][x] \in Seq(ToSet(doomed'[o][x]))
      BY <2>4, <2>5 DEF CountedInv, Tidy
    <3>2. written' \in [Procs -> Nat] /\ uncounted' \in Nat
      BY <1>10 DEF CountedInv, Tidy
    <3> QED BY <1>5, <3>1, <3>2 DEF Tidy
  <2>8. Lasting' \subseteq rest
    <3> SUFFICES ASSUME NEW c \in Lasting' PROVE c \in rest
      OBVIOUS
    <3>1. c \in DOMAIN record' \cap DOMAIN archive /\ ~Waited(c)'
      BY <1>1 DEF Lasting, Waited
    <3>2. c \notin ToSet(doomed'[p][t])
      BY <3>1 DEF Waited, Waits
    <3> QED BY <2>2, <2>5, <3>1, <3>2
  <2> HIDE DEF rest
  <2>9. Cardinality(Lasting') <= Cardinality(rest) /\ IsFiniteSet(Lasting')
    BY <2>3, <2>8, FS_Subset
  <2>10. Cardinality(rest) \in Nat /\ Cardinality(Lasting') \in Nat
    BY <2>3, <2>9, FS_CardinalityType
  <2>11. Total' \in Nat
    <3>1. \A o \in Procs : written'[o] \in Nat
      BY <2>7 DEF Tidy
    <3>2. SumFunctionOnSet(written', Procs) \in Nat
      BY <1>8, <3>1, SumSplits
    <3> QED BY <1>10, <3>2 DEF Total
  <2>12. Cardinality(Lasting') <= Budget + Total'
    BY <1>8, <2>3, <2>9, <2>10, <2>11
  <2> QED BY <1>9, <2>6, <2>7, <2>12 DEF CountedInv, Counted
<1>11. CASE written' = [written EXCEPT ![p] = n] /\ UNCHANGED <<doomed, uncounted>>
  <2>1. Moved(p, t)
    BY <1>2, <1>11 DEF Moved
  <2>2. Tidy'
    BY <1>5, <1>7, <1>8, <1>11 DEF CountedInv, Tidy
  <2>3. Lasting' \subseteq Lasting \cup ({k} \cap DOMAIN archive)
    <3> SUFFICES ASSUME NEW c \in Lasting', c # k PROVE c \in Lasting
      BY <1>1 DEF Lasting
    <3>1. c \in DOMAIN record \cap DOMAIN archive /\ ~Waited(c)'
      BY <1>1 DEF Lasting, Waited
    <3>2. Waits(p, t, c) => Waits(p, t, c)'
      BY <1>11 DEF Waits, k
    <3>3. ~Waited(c)
      BY <2>1, <3>1, <3>2, WaitsOn
    <3> QED BY <3>1, <3>3 DEF Lasting
  <2>4. Total + Held({k}) <= Total'
    <3>1. /\ \A o \in Procs : written[o] \in Nat /\ written'[o] \in Nat
          /\ \A o \in Procs : o # p => written'[o] = written[o]
          /\ written'[p] = written[p] + Held({k})
      BY <1>7, <1>8, <1>11
    <3> DEFINE was == SumFunctionOnSet(written, Procs)
               now == SumFunctionOnSet(written', Procs)
    <3>2. now + written[p] = was + written'[p]
      BY <1>8, <3>1, SumMoves
    <3>3. was \in Nat /\ now \in Nat
      BY <1>8, <3>1, SumSplits
    <3>4. Total = uncounted + was /\ Total' = uncounted + now
      BY <1>11 DEF Total
    <3>5. written[p] \in Nat
      BY <3>1
    <3> HIDE DEF was, now
    <3> QED BY <1>7, <1>8, <3>1, <3>2, <3>3, <3>4, <3>5
  <2>5. Cardinality({k} \cap DOMAIN archive) <= Held({k})
    BY <1>6, <1>7
  <2>6. Counted'
    BY <1>6, <1>7, <2>2, <2>3, <2>4, <2>5, CountStays DEF CountedInv
  <2> QED BY <1>9, <2>1, <2>2, <2>6 DEF CountedInv
<1> QED BY <1>1, <1>10, <1>11

(* What p waits for is no more than what it has yet to count.              *)
LEMMA WaitsBound ==
  ASSUME CacheAssumption, Tidy, NEW p \in Procs
  PROVE  /\ Unswept(p) \in Nat /\ written[p] \in Nat
         /\ \E X : /\ IsFiniteSet(X) /\ \A k : (\E t \in Tasks : Waits(p, t, k)) => k \in X
                   /\ Cardinality(X) + written[p] <= Unswept(p)
<1> DEFINE stored == {t \in Tasks : At(p, t) = "archived"}
           keys   == {Key(p, t) : t \in stored}
           long   == [t \in Tasks |-> Len(doomed[p][t])]
           lists  == [t \in Tasks |-> ToSet(doomed[p][t])]
           going  == UNION {lists[t] : t \in Tasks}
<1>1. IsFiniteSet(Tasks)
  BY DEF CacheAssumption
<1>2. IsFiniteSet(stored)
  BY <1>1, FS_Subset
<1>3. IsFiniteSet(keys) /\ Cardinality(keys) <= Cardinality(stored)
  <2> DEFINE key == [t \in Tasks |-> Key(p, t)]
  <2>1. keys = {key[t] : t \in stored}
    OBVIOUS
  <2> HIDE DEF keys, key, stored
  <2> QED BY <1>2, <2>1, ImageSize
<1>4. ASSUME NEW t \in Tasks
      PROVE  /\ IsFiniteSet(lists[t]) /\ long[t] \in Nat
             /\ Cardinality(lists[t]) <= long[t]
  <2> DEFINE d == doomed[p][t]
             n == Len(d)
  <2>1. d \in Seq(ToSet(d))
    BY DEF Tidy
  <2>2. n \in Nat /\ DOMAIN d = 1..n
    BY <2>1
  <2> HIDE DEF d
  <2>3. IsFiniteSet(1..n) /\ Cardinality(1..n) = n
    <3> HIDE DEF n
    <3>1. 1 \in Int /\ n \in Int
      BY <2>2
    <3>2. IsFiniteSet(1..n) /\ Cardinality(1..n) = IF 1 > n THEN 0 ELSE n - 1 + 1
      BY <3>1, FS_Interval
    <3> QED BY <2>2, <3>2
  <2>4. ToSet(d) = {d[i] : i \in 1..n}
    BY <2>2 DEF ToSet
  <2>5. IsFiniteSet({d[i] : i \in 1..n}) /\ Cardinality({d[i] : i \in 1..n}) <= Cardinality(1..n)
    BY <2>3, ImageSize
  <2> QED BY <2>2, <2>3, <2>4, <2>5 DEF d
<1>5. IsFiniteSet(going) /\ Cardinality(going) <= SumFunctionOnSet(long, Tasks)
  <2> HIDE DEF long, lists
  <2> QED BY <1>1, <1>4, UnionBound
<1>6. SumFunctionOnSet(long, Tasks) \in Nat
  <2> HIDE DEF long
  <2> QED BY <1>1, <1>4, SumSplits
<1>7. Unswept(p) = written[p] + Cardinality(stored) + SumFunctionOnSet(long, Tasks)
  BY DEF Unswept, SumFunction
<1>8. written[p] \in Nat
  BY DEF Tidy
<1> DEFINE X == keys \cup going
<1>9. IsFiniteSet(X) /\ Cardinality(X) <= Cardinality(keys) + Cardinality(going)
  <2> HIDE DEF keys, going
  <2> QED BY <1>3, <1>5, UnionSize
<1>10. \A k : (\E t \in Tasks : Waits(p, t, k)) => k \in X
  BY DEF Waits
<1> HIDE DEF X, keys, going, stored, long
<1>11. /\ Cardinality(X) \in Nat /\ Cardinality(keys) \in Nat /\ Cardinality(going) \in Nat
       /\ Cardinality(stored) \in Nat
  BY <1>2, <1>3, <1>5, <1>9, FS_CardinalityType
<1>12. Unswept(p) \in Nat /\ Cardinality(X) + written[p] <= Unswept(p)
  BY <1>3, <1>5, <1>6, <1>7, <1>8, <1>9, <1>11
<1> QED BY <1>8, <1>9, <1>10, <1>12

(* What a process leaves uncounted is counted for it.                      *)
LEMMA EndsCounted ==
  ASSUME CacheAssumption, CountedInv, Shaped', NEW p \in Procs, Ends(p)
  PROVE  CountedInv'
<1>1. /\ job' = [job EXCEPT ![p] = [t \in Tasks |-> NoJob("idle")]]
      /\ doomed' = [doomed EXCEPT ![p] = [t \in Tasks |-> <<>>]]
      /\ uncounted' = uncounted + Unswept(p)
      /\ written' = [written EXCEPT ![p] = 0]
      /\ UNCHANGED <<record, archive, used>>
  BY DEF Ends, local
<1>2. DOMAIN job = Procs /\ DOMAIN doomed = Procs /\ Tidy /\ Marked /\ Counted
  BY DEF CountedInv, Shaped
<1>3. /\ \A t \in Tasks : At(p, t)' = "idle" /\ doomed'[p][t] = <<>>
      /\ \A o \in Procs : o # p => job'[o] = job[o] /\ doomed'[o] = doomed[o]
  BY <1>1, <1>2 DEF NoJob, At
<1>4. PICK X : /\ IsFiniteSet(X) /\ \A k : (\E t \in Tasks : Waits(p, t, k)) => k \in X
               /\ Cardinality(X) + written[p] <= Unswept(p)
  BY <1>2, WaitsBound
<1>5. Unswept(p) \in Nat /\ written[p] \in Nat
  BY <1>2, WaitsBound
<1>6. Tidy'
  <2>1. \A o \in Procs, t \in Tasks : doomed'[o][t] \in Seq(ToSet(doomed'[o][t]))
    <3>1. <<>> \in Seq(ToSet(<<>>))
      OBVIOUS
    <3> QED BY <1>2, <1>3, <3>1 DEF Tidy
  <2> QED BY <1>1, <1>2, <1>5, <2>1 DEF Tidy
<1>7. Marked'
  BY <1>1, <1>2, <1>3 DEF Marked, At, Key
<1>8. Lasting' \subseteq Lasting \cup X
  <2> SUFFICES ASSUME NEW k \in Lasting', k \notin Lasting PROVE k \in X
    OBVIOUS
  <2>1. Waited(k) /\ ~Waited(k)'
    BY <1>1 DEF Lasting, Waited
  <2>2. PICK o \in Procs, t \in Tasks : Waits(o, t, k)
    BY <2>1 DEF Waited
  <2>3. CASE o = p
    BY <1>4, <2>2, <2>3
  <2>4. CASE o # p
    <3>1. Waits(o, t, k)'
      BY <1>3, <2>2, <2>4 DEF Waits, At, Key
    <3> QED BY <2>1, <3>1 DEF Waited
  <2> QED BY <2>3, <2>4
<1> DEFINE n == Cardinality(X)
<1>9. n \in Nat /\ n <= n
  BY <1>4, FS_CardinalityType
<1>10. Total + n <= Total'
  <2> DEFINE was == SumFunctionOnSet(written, Procs)
             now == SumFunctionOnSet(written', Procs)
  <2>1. /\ IsFiniteSet(Procs) /\ \A o \in Procs : written[o] \in Nat /\ written'[o] \in Nat
        /\ \A o \in Procs : o # p => written'[o] = written[o]
        /\ written'[p] = 0
    BY <1>1, <1>2 DEF CacheAssumption, Tidy
  <2>2. now + written[p] = was + written'[p]
    BY <2>1, SumMoves
  <2>3. was \in Nat /\ now \in Nat
    BY <2>1, SumSplits
  <2>4. Total = uncounted + was /\ Total' = uncounted' + now /\ uncounted \in Nat
    BY <1>2 DEF Total, Tidy
  <2> HIDE DEF was, now, n
  <2>5. n + written[p] <= Unswept(p)
    BY <1>4 DEF n
  <2> QED BY <1>1, <1>5, <1>9, <2>1, <2>2, <2>3, <2>4, <2>5, SMTT(30)
<1>11. Counted'
  BY <1>2, <1>4, <1>6, <1>8, <1>9, <1>10, CountStays
<1> QED BY <1>6, <1>7, <1>11 DEF CountedInv

(* Every step of run_task.                                                 *)
LEMMA TaskCounted ==
  ASSUME CacheAssumption, CountedInv, Shaped', NEW p \in Procs, NEW t \in Tasks,
         ~Interferes(p, t), Task(p, t)
  PROVE  CountedInv'
<1>1. Shaped /\ Tidy
  BY DEF CountedInv
<1>2. ASSUME Moved(p, t), At(p, t) # "archived", At(p, t)' # "pulling",
             UNCHANGED <<record, used, archive, written, doomed, uncounted>>
      PROVE  CountedInv'
  <2>1. IsFiniteSet(DOMAIN archive') /\ DOMAIN archive' \ DOMAIN archive = {}
    BY <1>1, <1>2 DEF Tidy
  <2> QED BY <1>2, <2>1, QuietCounted
<1>3. CASE Keys(p, t)
  <2>1. Moved(p, t) /\ At(p, t)' = "keyed" /\ At(p, t) # "archived"
    BY <1>1, <1>3 DEF Keys, Moved, At, Idle, Resting, Shaped, sweep
  <2>2. UNCHANGED <<record, used, archive, written, doomed, uncounted>>
    BY <1>3 DEF Keys, local, sweep
  <2> QED BY <1>2, <2>1, <2>2
<1>4. CASE Misses(p, t) \/ Unservable(p, t) \/ Spawns(p, t) \/ Succeeds(p, t)
  <2>1. \E phase \in {"missed", "running", "done"} : Step(p, t, phase)
    BY <1>4 DEF Misses, Unservable, Spawns, Succeeds
  <2>2. /\ UNCHANGED <<record, used, archive, written, doomed, uncounted>>
        /\ At(p, t) # "archived"
    BY <1>4 DEF Misses, Unservable, Spawns, Succeeds, local, sweep
  <2>3. Moved(p, t) /\ At(p, t)' # "pulling"
    BY <1>1, <2>1, <2>2, StepMoves DEF Moved
  <2> QED BY <1>2, <2>2, <2>3
<1>5. CASE Replays(p, t)
  <2>1. Step(p, t, "hit") \/ Step(p, t, "checking")
    BY <1>5 DEF Replays, Restores
  <2>2. /\ UNCHANGED <<record, used, archive, written, doomed, uncounted>>
        /\ At(p, t) # "archived"
    BY <1>5 DEF Replays, Restores, local, sweep
  <2>3. Moved(p, t) /\ At(p, t)' # "pulling"
    BY <1>1, <2>1, <2>2, StepMoves DEF Moved
  <2> QED BY <1>2, <2>2, <2>3
<1>6. CASE Rechecks(p, t)
  <2>1. At(p, t) = "checking" /\ UNCHANGED sweep
    BY <1>6 DEF Rechecks
  <2>2. \/ Step(p, t, "hit") /\ UNCHANGED local
        \/ /\ Rest(p, t, "failed")
           /\ record' = Drop(record, Key(p, t)) /\ archive' = Drop(archive, Key(p, t))
           /\ used' = Unmarked(Key(p, t))
    BY <1>6 DEF Rechecks
  <2>3. Moved(p, t) /\ At(p, t)' \in {"hit", "failed"} /\ (Rest(p, t, "failed") => At(p, t)' = "failed")
    BY <1>1, <2>1, <2>2, StepMoves, RestMoves DEF Moved, sweep
  <2>4. CASE UNCHANGED local
    BY <1>2, <2>1, <2>3, <2>4 DEF local, sweep
  <2>5. CASE ~ UNCHANGED local
    BY <2>1, <2>2, <2>3, <2>5, ForgetsCounted
  <2> QED BY <2>4, <2>5
<1>7. CASE Fails(p, t) \/ Pushes(p, t) \/ Pushed(p, t)
  <2>1. Rest(p, t, "failed") \/ Rest(p, t, "built") \/ Step(p, t, "pushing")
    BY <1>7 DEF Fails, Pushes, Pushed
  <2>2. /\ UNCHANGED <<record, used, archive, written, doomed, uncounted>>
        /\ At(p, t) # "archived"
    BY <1>7 DEF Fails, Pushes, Pushed, local, sweep
  <2>3. Moved(p, t) /\ At(p, t)' # "pulling"
    BY <1>1, <2>1, <2>2, StepMoves, RestMoves DEF Moved
  <2> QED BY <1>2, <2>2, <2>3
<1>8. CASE Clears(p, t)
  <2>1. /\ At(p, t) = "done" /\ Step(p, t, "cleared")
        /\ UNCHANGED <<record, used, written, doomed, uncounted>>
        /\ DOMAIN archive' = DOMAIN archive \ {Key(p, t)}
    BY <1>8 DEF Clears, Drop, sweep
  <2>2. Moved(p, t) /\ At(p, t)' = "cleared"
    BY <1>1, <2>1, StepMoves DEF Moved
  <2> DEFINE files == DOMAIN archive \ {Key(p, t)}
  <2>3. IsFiniteSet(files)
    BY <1>1, FS_RemoveElement DEF Tidy
  <2>4. IsFiniteSet(DOMAIN archive') /\ DOMAIN archive' \ DOMAIN archive = {}
    BY <2>1, <2>3
  <2> QED BY <2>1, <2>2, <2>4, QuietCounted
<1>9. CASE Publishes(p, t)
  <2>1. /\ At(p, t) # "archived" /\ \E kept : Says(p, t, kept)
        /\ UNCHANGED <<record, used, written, doomed, uncounted>>
        /\ \/ DOMAIN archive' = DOMAIN archive \cup {Key(p, t)}
           \/ archive' = archive
    BY <1>9 DEF Publishes, Put, sweep
  <2>2. Moved(p, t) /\ At(p, t)' = "archived" /\ Key(p, t)' = Key(p, t)
    BY <1>1, <2>1, SaysMoves DEF Moved
  <2> DEFINE files == DOMAIN archive \cup {Key(p, t)}
  <2>3. IsFiniteSet(DOMAIN archive) /\ IsFiniteSet(files)
    BY <1>1, FS_AddElement DEF Tidy
  <2>4. IsFiniteSet(DOMAIN archive')
    BY <2>1, <2>3
  <2>5. \A k \in DOMAIN archive' \ DOMAIN archive : Waits(p, t, k)'
    BY <2>1, <2>2 DEF Waits
  <2> QED BY <2>1, <2>2, <2>4, <2>5, QuietCounted
<1>10. CASE Loads(p, t) \/ Pulls(p, t) \/ Pulled(p, t)
  BY <1>10, LoadsCounted, PullsCounted, PulledCounted
<1>11. CASE Stores(p, t) \/ DropsRecord(p, t) \/ DropsArchive(p, t)
  BY <1>11, StoresCounted, DropsRecordCounted, DropsArchiveCounted
<1> QED BY <1>3, <1>4, <1>5, <1>6, <1>7, <1>8, <1>9, <1>10, <1>11 DEF Task

(* At first nothing is stored.                                             *)
LEMMA InitCounted == ASSUME CacheAssumption PROVE Init => CountedInv
<1> SUFFICES ASSUME Init PROVE CountedInv
  OBVIOUS
<1>1. Shaped
  BY DEF Init, Shaped, At, NoJob
<1>2. /\ record = <<>> /\ archive = <<>> /\ used = <<>> /\ uncounted = 0
      /\ written = [p \in Procs |-> 0]
      /\ \A p \in Procs, t \in Tasks : doomed[p][t] = <<>> /\ At(p, t) = "idle"
  BY DEF Init, NoJob, At
<1>3. DOMAIN <<>> = {} /\ <<>> \in Seq(ToSet(<<>>))
  OBVIOUS
<1>4. Tidy
  <2>1. IsFiniteSet(DOMAIN archive)
    BY <1>2, <1>3, FS_EmptySet
  <2>2. \A p \in Procs, t \in Tasks : doomed[p][t] \in Seq(ToSet(doomed[p][t]))
    BY <1>2, <1>3
  <2> QED BY <1>2, <2>1, <2>2 DEF Tidy
<1>5. Marked
  BY <1>2, <1>3 DEF Marked
<1>6. Counted
  <2>1. Lasting = {}
    BY <1>2, <1>3 DEF Lasting
  <2>2. Cardinality(Lasting) = 0
    BY <2>1, FS_EmptySet
  <2>3. Total \in Nat /\ Budget \in Nat
    BY <1>4, TotalNatural DEF CacheAssumption
  <2> QED BY <2>2, <2>3 DEF Counted
<1> QED BY <1>1, <1>4, <1>5, <1>6 DEF CountedInv

(* Every step: an edit, or a stutter, leaves the stores alone.             *)
LEMMA NextCounted ==
  ASSUME CacheAssumption, WholeCopies, CountedInv, [Next]_vars
  PROVE  CountedInv'
<1>1. Shaped /\ Shaped'
  BY ShapeStays DEF CountedInv
<1>2. ASSUME NEW p \in Procs, NEW t \in Tasks, ~Interferes(p, t), Task(p, t)
      PROVE  CountedInv'
  BY <1>1, <1>2, TaskCounted
<1>3. ASSUME NEW p \in Procs, Ends(p) PROVE CountedInv'
  BY <1>1, <1>3, EndsCounted
<1>4. ASSUME UNCHANGED <<job, record, archive, used, written, doomed, uncounted>>
      PROVE  CountedInv'
  <2>1. Tidy' /\ Marked'
    BY <1>4 DEF CountedInv, Tidy, Marked, At, Key
  <2>2. Lasting' = Lasting /\ Total' = Total
    BY <1>4 DEF Lasting, Total, Waited, Waits, At, Key
  <2> QED BY <1>1, <2>1, <2>2 DEF CountedInv, Counted
<1>5. ASSUME NEW p \in Procs, NEW t \in Tasks, Edits(p, t) PROVE CountedInv'
  BY <1>4, <1>5 DEF Edits, local, sweep
<1>6. CASE UNCHANGED vars
  BY <1>4, <1>6 DEF vars, local, sweep
<1> QED BY <1>2, <1>3, <1>5, <1>6 DEF Next

(* What lasts, and what is waited for, is all that is on record.           *)
LEMMA CountedHolds == ASSUME CacheAssumption, CountedInv PROVE OvershootCounted
<1>1. Tidy /\ Counted /\ IsFiniteSet(Procs) /\ Budget \in Nat
  BY DEF CountedInv, CacheAssumption
<1>2. DOMAIN written = Procs /\ uncounted \in Nat
  BY <1>1 DEF Tidy
<1> DEFINE wait(p) == {k \in DOMAIN record \cap DOMAIN archive : \E t \in Tasks : Waits(p, t, k)}
           due    == [p \in Procs |-> wait(p)]
           total  == [p \in Procs |-> Unswept(p)]
           rest   == [p \in Procs |-> Unswept(p) - written[p]]
           waited == UNION {due[p] : p \in Procs}
<1>3. ASSUME NEW p \in Procs
      PROVE  /\ IsFiniteSet(due[p]) /\ rest[p] \in Nat /\ written[p] \in Nat
             /\ Cardinality(due[p]) <= rest[p] /\ total[p] = written[p] + rest[p]
  <2>1. PICK X : /\ IsFiniteSet(X) /\ \A k : (\E t \in Tasks : Waits(p, t, k)) => k \in X
                 /\ Cardinality(X) + written[p] <= Unswept(p)
    BY <1>1, WaitsBound
  <2>2. Unswept(p) \in Nat /\ written[p] \in Nat
    BY <1>1, WaitsBound
  <2>3. wait(p) \subseteq X
    BY <2>1
  <2> HIDE DEF wait
  <2>4. IsFiniteSet(wait(p)) /\ Cardinality(wait(p)) <= Cardinality(X)
    BY <2>1, <2>3, FS_Subset
  <2>5. Cardinality(wait(p)) \in Nat /\ Cardinality(X) \in Nat
    BY <2>1, <2>4, FS_CardinalityType
  <2> QED BY <2>1, <2>2, <2>4, <2>5
<1>4. IsFiniteSet(waited) /\ Cardinality(waited) <= SumFunctionOnSet(rest, Procs)
  <2>1. /\ IsFiniteSet(Procs)
        /\ \A p \in Procs : /\ IsFiniteSet(due[p]) /\ rest[p] \in Nat
                            /\ Cardinality(due[p]) <= rest[p]
    <3> HIDE DEF due, rest
    <3> QED BY <1>1, <1>3
  <2> HIDE DEF due, rest
  <2> QED BY <2>1, UnionBound
<1>5. SumFunctionOnSet(total, Procs)
        = SumFunctionOnSet(written, Procs) + SumFunctionOnSet(rest, Procs)
  <2>1. /\ IsFiniteSet(Procs)
        /\ \A p \in Procs : /\ written[p] \in Nat /\ rest[p] \in Nat
                            /\ total[p] = written[p] + rest[p]
    <3> HIDE DEF due, rest, total
    <3> QED BY <1>1, <1>3
  <2> HIDE DEF due, rest, total
  <2> QED BY <2>1, SumAdds
<1>6. SumFunctionOnSet(written, Procs) \in Nat /\ SumFunctionOnSet(rest, Procs) \in Nat
  <2> HIDE DEF rest
  <2> QED BY <1>1, <1>3, SumSplits
<1>7. DOMAIN record \cap DOMAIN archive = Lasting \cup waited
  BY DEF Lasting, Waited
<1>8. IsFiniteSet(Lasting)
  BY <1>1, FS_Subset DEF Tidy, Lasting
<1> HIDE DEF waited, total, rest
<1>9. Cardinality(Lasting \cup waited) <= Cardinality(Lasting) + Cardinality(waited)
      /\ IsFiniteSet(Lasting \cup waited)
  BY <1>4, <1>8, UnionSize
<1>10. /\ Cardinality(Lasting) \in Nat /\ Cardinality(waited) \in Nat
       /\ Cardinality(Lasting \cup waited) \in Nat
  BY <1>4, <1>8, <1>9, FS_CardinalityType
<1>11. Cardinality(Lasting) <= Budget + uncounted + SumFunctionOnSet(written, Procs)
  BY <1>1, <1>2, <1>6 DEF Counted, Total
<1>12. Cardinality(Lasting \cup waited) <= Budget + uncounted + SumFunctionOnSet(total, Procs)
  BY <1>1, <1>2, <1>4, <1>5, <1>6, <1>9, <1>10, <1>11
<1>13. SumFunction([p \in Procs |-> Unswept(p)]) = SumFunctionOnSet(total, Procs)
  BY DEF SumFunction, total
<1> QED BY <1>7, <1>12, <1>13 DEF OvershootCounted, Held

(* The store exceeds its budget by no more than is known to be unswept,    *)
(* whatever is stored, swept, pulled, forgotten or left by a process that  *)
(* ends, as long as copies are left alone.                                 *)
THEOREM OvershootIsCounted == ASSUME WholeCopies PROVE Spec => []OvershootCounted
<1>1. Init => CountedInv
  BY InitCounted, CacheAssumption
<1>2. CountedInv /\ [Next]_vars => CountedInv'
  BY NextCounted, CacheAssumption
<1>3. CountedInv => OvershootCounted
  BY CountedHolds, CacheAssumption
<1> QED BY <1>1, <1>2, <1>3, PTL DEF Spec
=============================================================================
