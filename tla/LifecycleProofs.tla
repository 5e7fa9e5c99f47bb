-------------------------- MODULE LifecycleProofs ---------------------------
(***************************************************************************)
(* Proofs about the life of a child: how its crashes are counted           *)
(* (CrashLoop), how one that rebuilds itself is followed (SelfReload), how *)
(* its process group ends (Procs), what environment it gets (ChildEnv) and *)
(* the history of all of it (History); for any limits and delays, any      *)
(* output, any processes it may start, any number of stop requests, any    *)
(* values and env files, and any length of the history.                    *)
(***************************************************************************)
EXTENDS CrashLoop, SelfReload, Procs, ChildEnv, History, NaturalLemmas, TLAPS

(***************************************************************************)
(* CrashLoop, for any limit and any delays.                                *)
(***************************************************************************)

(* The count the code keeps is the number of restarts in a row.            *)
CountsRow ==
  /\ crashes = inRow
  /\ IF Limited THEN inRow <= MaxCrashes ELSE inRow = 0
  /\ stage = "gaveUp" => Limited /\ inRow = MaxCrashes

(* Where the shortest delay is not above the longest.                      *)
DelaysWithin ==
  BackoffMin <= BackoffMax =>
    /\ BackoffMin <= delay /\ delay <= BackoffMax
    /\ BackoffMin <= wait /\ wait <= BackoffMax

CrashIInv == CrashTypeOK /\ CountsRow /\ DelaysWithin

LEMMA CrashInitHolds == CrashInit => CrashIInv
BY CrashAssumption DEF CrashInit, CrashIInv, CrashTypeOK, CountsRow, DelaysWithin, Limited

(* A crash after a run that lasted counts as the first.                    *)
LEMMA CrashesStep ==
  ASSUME CrashIInv, NEW lasted \in BOOLEAN, Crashes(lasted)
  PROVE  CrashIInv'
<1> DEFINE first == Base(lasted, delay, BackoffMin)
           count == IF lasted THEN 0 ELSE crashes
<1>1. /\ first \in Nat /\ Doubled(first) \in Nat
      /\ BackoffMin <= BackoffMax =>
           /\ BackoffMin <= first /\ first <= BackoffMax
           /\ BackoffMin <= Doubled(first) /\ Doubled(first) <= BackoffMax
  BY CrashAssumption DEF CrashIInv, CrashTypeOK, DelaysWithin, Base, Doubled
<1>2. Base(lasted, doubled, 0) \in Nat
  BY DEF CrashIInv, CrashTypeOK, Base
<1>3. count \in Nat /\ (Limited => count <= MaxCrashes) /\ (~Limited => count = 0)
  BY CrashAssumption DEF CrashIInv, CrashTypeOK, CountsRow, Limited
<1>4. CASE Limited /\ count >= MaxCrashes
  <2>1. /\ stage' = "gaveUp" /\ delay' = BackoffMin /\ wait' = wait
        /\ doubled' = 0 /\ crashes' = count /\ inRow' = count
    BY <1>4 DEF Crashes, CrashIInv, CountsRow
  <2> QED
    BY <1>3, <1>4, <2>1, CrashAssumption
       DEF CrashIInv, CrashTypeOK, CountsRow, DelaysWithin, Limited
<1>5. CASE ~(Limited /\ count >= MaxCrashes)
  <2>1. /\ stage' = "backoff" /\ wait' = first /\ delay' = Doubled(first)
        /\ crashes' = (IF Limited THEN count + 1 ELSE count) /\ inRow' = crashes'
        /\ doubled' \in {1, Base(lasted, doubled, 0), Base(lasted, doubled, 0) + 1}
    BY <1>5 DEF Crashes, CrashIInv, CountsRow
  <2>2. CrashTypeOK' /\ DelaysWithin'
    BY <1>1, <1>2, <1>3, <2>1 DEF CrashTypeOK, DelaysWithin
  <2>3. CountsRow'
    BY <1>3, <1>5, <2>1, CrashAssumption DEF CountsRow, Limited
  <2> QED BY <2>2, <2>3 DEF CrashIInv
<1> QED
  BY <1>4, <1>5

LEMMA CrashStep == CrashIInv /\ [CrashNext]_crashVars => CrashIInv'
<1> SUFFICES ASSUME CrashIInv, [CrashNext]_crashVars PROVE CrashIInv'
  OBVIOUS
<1> USE CrashAssumption DEF CrashIInv, CrashTypeOK, CountsRow, DelaysWithin, Limited
<1>1. CASE ProbePasses \/ UpUnproved
  BY <1>1 DEF ProbePasses, UpUnproved
<1>2. CASE BackoffEnds \/ NewAttempt
  BY <1>2 DEF BackoffEnds, NewAttempt
<1>3. CASE \E lasted \in BOOLEAN : Crashes(lasted)
  BY <1>3, CrashesStep
<1>4. CASE UNCHANGED crashVars
  BY <1>4 DEF crashVars
<1> QED
  BY <1>1, <1>2, <1>3, <1>4 DEF CrashNext

(* What it is to be the doublings of the shortest delay, and to have       *)
(* reached the delay.                                                      *)
Doubles(f) == f = [i \in 0..doubled |-> IF i = 0 THEN BackoffMin ELSE 2 * f[i - 1]]

Reached(d) ==
  d \in Nat /\ (BackoffMin <= BackoffMax => delay = IF d < BackoffMax THEN d ELSE BackoffMax)

DelayDoubled == \E f : Doubles(f) /\ Reached(f[doubled])

LEMMA NotYetDoubled ==
  ASSUME CrashTypeOK, doubled = 0, delay = BackoffMin
  PROVE  DelayDoubled
<1> DEFINE f == [i \in 0..0 |-> BackoffMin]
<1>1. f = [i \in 0..0 |-> IF i = 0 THEN BackoffMin ELSE 2 * f[i - 1]] /\ f[0] = BackoffMin
  OBVIOUS
<1>2. Reached(f[0])
  BY <1>1, CrashAssumption DEF Reached
<1> HIDE DEF f
<1> QED BY <1>1, <1>2 DEF DelayDoubled, Doubles

(* A crash doubles the delay, or finds it the longest.                     *)
LEMMA CrashDoubles ==
  ASSUME CrashTypeOK, DelaysWithin, DelayDoubled, CrashTypeOK',
         delay' = Doubled(delay), doubled' = IF delay = BackoffMax THEN doubled ELSE doubled + 1
  PROVE  DelayDoubled'
<1>1. PICK f : Doubles(f) /\ Reached(f[doubled])
  BY DEF DelayDoubled
<1>2. doubled \in Nat /\ delay \in Nat /\ BackoffMin \in Nat /\ BackoffMax \in Nat
  BY CrashAssumption DEF CrashTypeOK
<1>3. CASE delay = BackoffMax
  <2>1. doubled' = doubled /\ delay' = delay
    BY <1>2, <1>3 DEF Doubled
  <2>2. Doubles(f)' /\ Reached(f[doubled])'
    BY <1>1, <2>1 DEF Doubles, Reached
  <2> QED BY <2>1, <2>2 DEF DelayDoubled
<1>4. CASE delay # BackoffMax
  <2> DEFINE g == [i \in 0..(doubled + 1) |-> IF i <= doubled THEN f[i] ELSE 2 * f[doubled]]
  <2>1. doubled' = doubled + 1
    BY <1>4
  <2>2. \A i \in 0..doubled : f[i] = IF i = 0 THEN BackoffMin ELSE 2 * f[i - 1]
    BY <1>1 DEF Doubles
  <2>3. g[doubled + 1] = 2 * f[doubled]
    BY <1>2
  <2>4. ASSUME NEW i \in 0..(doubled + 1) PROVE g[i] = IF i = 0 THEN BackoffMin ELSE 2 * g[i - 1]
    <3>1. CASE i = doubled + 1
      <4>1. i - 1 = doubled /\ g[i - 1] = f[doubled] /\ i # 0
        BY <1>2, <3>1
      <4> QED BY <2>3, <3>1, <4>1
    <3>2. CASE i # doubled + 1
      <4>1. i \in 0..doubled /\ (i # 0 => i - 1 \in 0..doubled)
        BY <1>2, <3>2
      <4>2. g[i] = f[i] /\ (i # 0 => g[i - 1] = f[i - 1])
        BY <1>2, <4>1
      <4> QED BY <2>2, <4>1, <4>2
    <3> QED BY <3>1, <3>2
  <2>5. g = [i \in 0..(doubled + 1) |-> g[i]]
    OBVIOUS
  <2> HIDE DEF g
  <2>6. g = [i \in 0..(doubled + 1) |-> IF i = 0 THEN BackoffMin ELSE 2 * g[i - 1]]
    BY <2>4, <2>5
  <2>7. f[doubled] \in Nat /\ 2 * f[doubled] \in Nat
    BY <1>1 DEF Reached
  <2>8. BackoffMin <= BackoffMax => f[doubled] < BackoffMax /\ delay = f[doubled]
    BY <1>1, <1>2, <1>4 DEF Reached
  <2>9. BackoffMin <= BackoffMax =>
          delay' = IF 2 * f[doubled] < BackoffMax THEN 2 * f[doubled] ELSE BackoffMax
    BY <1>2, <2>7, <2>8 DEF Doubled
  <2>10. PICK h : h = g
    OBVIOUS
  <2>11. Doubles(h)'
    BY <2>1, <2>6, <2>10 DEF Doubles
  <2>12. h[doubled + 1] = 2 * f[doubled]
    BY <2>3, <2>10
  <2>13. Reached(h[doubled])'
    BY <2>1, <2>7, <2>9, <2>12 DEF Reached
  <2> QED BY <2>11, <2>13 DEF DelayDoubled
<1> QED BY <1>3, <1>4

LEMMA DoublingStep ==
  ASSUME CrashIInv, CrashIInv', DelayDoubled, [CrashNext]_crashVars
  PROVE  DelayDoubled'
<1> USE DEF CrashIInv
<1>1. CASE UNCHANGED <<delay, doubled>>
  BY <1>1 DEF DelayDoubled, Doubles, Reached
<1>2. CASE delay' = BackoffMin /\ doubled' = 0
  <2>1. (CrashTypeOK /\ doubled = 0 /\ delay = BackoffMin => DelayDoubled)'
    BY NotYetDoubled, PTL
  <2> QED BY <1>2, <2>1
<1>3. ASSUME NEW lasted \in BOOLEAN, Crashes(lasted), stage' = "backoff" PROVE DelayDoubled'
  <2>1. CASE ~lasted
    <3>1. delay' = Doubled(delay) /\ doubled' = IF delay = BackoffMax THEN doubled ELSE doubled + 1
      BY <1>3, <2>1 DEF Crashes, Base
    <3> QED BY <3>1, CrashDoubles
  <2>2. CASE lasted
    <3>1. delay' = Doubled(BackoffMin) /\ doubled' = 1
      BY <1>3, <2>2 DEF Crashes, Base
    <3> DEFINE f == [i \in 0..1 |-> IF i = 0 THEN BackoffMin ELSE 2 * BackoffMin]
    <3>2. f[0] = BackoffMin /\ f[1] = 2 * BackoffMin
      OBVIOUS
    <3>3. \A i \in 0..1 : f[i] = IF i = 0 THEN BackoffMin ELSE 2 * f[i - 1]
      BY <3>2
    <3>4. f = [i \in 0..1 |-> f[i]]
      OBVIOUS
    <3> HIDE DEF f
    <3>5. f = [i \in 0..1 |-> IF i = 0 THEN BackoffMin ELSE 2 * f[i - 1]]
      BY <3>3, <3>4
    <3>6. Doubles(f)'
      BY <3>1, <3>5 DEF Doubles
    <3>7. Reached(2 * BackoffMin)'
      BY <3>1, CrashAssumption DEF Reached, Doubled
    <3> QED BY <3>1, <3>2, <3>6, <3>7 DEF DelayDoubled
  <2> QED BY <2>1, <2>2
<1>4. CASE CrashNext
  <2>1. CASE \E lasted \in BOOLEAN : Crashes(lasted)
    BY <1>2, <1>3, <2>1 DEF Crashes
  <2>2. CASE ~ \E lasted \in BOOLEAN : Crashes(lasted)
    BY <1>1, <1>2, <1>4, <2>2 DEF CrashNext, ProbePasses, UpUnproved, BackoffEnds, NewAttempt
  <2> QED BY <2>1, <2>2
<1> QED BY <1>1, <1>4 DEF crashVars

(* Two ways to double as often are the same, and Doublings is one.         *)
LEMMA DelayIsDoubled ==
  ASSUME CrashTypeOK, DelayDoubled
  PROVE  DelaysDouble
<1>1. PICK f : Doubles(f) /\ Reached(f[doubled])
  BY DEF DelayDoubled
<1>2. Doublings = [i \in 0..doubled |-> IF i = 0 THEN BackoffMin ELSE 2 * Doublings[i - 1]]
  BY <1>1 DEF Doublings, Doubles
<1>3. doubled \in Nat
  BY DEF CrashTypeOK
<1> DEFINE other == {i \in 0..doubled : Doublings[i] # f[i]}
<1>4. ASSUME other # {} PROVE FALSE
  <2>1. other \in SUBSET Nat
    BY <1>3
  <2>2. PICK i \in other : \A j \in other : i <= j
    BY <1>4, <2>1, LeastNatural
  <2>3. i \in 0..doubled /\ Doublings[i] # f[i]
    OBVIOUS
  <2>4. /\ f[i] = IF i = 0 THEN BackoffMin ELSE 2 * f[i - 1]
        /\ Doublings[i] = IF i = 0 THEN BackoffMin ELSE 2 * Doublings[i - 1]
    BY <1>1, <1>2, <2>3 DEF Doubles
  <2>5. i # 0 /\ i - 1 \in 0..doubled /\ Doublings[i - 1] # f[i - 1]
    BY <1>3, <2>3, <2>4
  <2>6. i <= i - 1
    BY <2>2, <2>5
  <2> QED BY <1>3, <2>3, <2>6
<1>5. Doublings[doubled] = f[doubled]
  BY <1>3, <1>4
<1> QED BY <1>1, <1>5 DEF Reached, DelaysDouble

(* In a crash loop every delay is twice the one before, up to the longest; *)
(* the crash that reaches max_restarts is the last one restarted, neither  *)
(* sooner nor later, and without a limit none is (Crashes::exhausted).     *)
THEOREM CrashLoopIsBounded == CrashSpec => [](CrashLoopBounded /\ DelaysWithin)
<1>1. CrashInit => CrashIInv /\ DelayDoubled
  <2> SUFFICES ASSUME CrashInit PROVE CrashIInv /\ DelayDoubled
    OBVIOUS
  <2>1. CrashIInv
    BY CrashInitHolds
  <2> QED BY <2>1, NotYetDoubled DEF CrashIInv, CrashInit
<1>2. CrashIInv /\ DelayDoubled /\ [CrashNext]_crashVars => (CrashIInv /\ DelayDoubled)'
  BY CrashStep, DoublingStep
<1>3. CrashIInv /\ DelayDoubled => CrashLoopBounded /\ DelaysWithin
  <2> SUFFICES ASSUME CrashIInv, DelayDoubled PROVE CrashLoopBounded /\ DelaysWithin
    OBVIOUS
  <2>1. DelaysDouble
    BY DelayIsDoubled DEF CrashIInv
  <2>2. GivesUpInTime
    BY CrashAssumption DEF CrashIInv, CrashTypeOK, CountsRow, GivesUpInTime, Limited
  <2> QED BY <2>1, <2>2 DEF CrashLoopBounded, CrashIInv
<1> QED BY <1>1, <1>2, <1>3, PTL DEF CrashSpec

(***************************************************************************)
(* SelfReload: whatever the output says and whenever the timers fire, the  *)
(* status shows how the rebuild stands.                                    *)
(***************************************************************************)

(* What the supervisor's own state may be. What it counts does not matter. *)
ReloadTypes ==
  /\ health \in {"starting", "healthy", "reloading", "unhealthy"}
  /\ rebuild = [kind |-> rebuild.kind, seen |-> rebuild.seen]
  /\ rebuild.kind \in {"unknown", "ready", "unready", "rebuilding"}
  /\ job \in {"starting", "looks", "probes", "checks", "waits"}
  /\ tookDown \in BOOLEAN /\ wasDown \in BOOLEAN

(* Until its first look the supervisor knows of no rebuild and liveness    *)
(* has asked nothing; afterwards it always knows how the rebuild stands.   *)
FirstLookFirst ==
  /\ rebuild.kind = "unknown" => job \in {"starting", "looks"}
  /\ rebuild.kind = "unknown" => ~tookDown /\ ~wasDown
  /\ rebuild.kind = "unknown" /\ job = "looks" => health \in {"healthy", "unhealthy"}
  /\ job = "starting" => rebuild.kind = "unknown" /\ health = "starting"

(* A liveness check under way has no rebuild beside it, and what took the  *)
(* node down is remembered.                                                *)
ChecksAreQuiet ==
  /\ job = "checks" => rebuild.kind \in {"ready", "unready"}
  /\ tookDown => wasDown

ReloadIInv == ReloadTypes /\ FirstLookFirst /\ ChecksAreQuiet /\ StatusAgrees

(* At the start nothing is known and nothing is said.                      *)
LEMMA ReloadInitHolds == ReloadInit => ReloadIInv
<1> SUFFICES ASSUME ReloadInit PROVE ReloadIInv
  OBVIOUS
<1>1. /\ health = "starting" /\ job = "starting" /\ tookDown = FALSE /\ wasDown = FALSE
      /\ rebuild = [kind |-> "unknown", seen |-> 0]
  BY DEF ReloadInit
<1>2. rebuild.kind = "unknown" /\ rebuild.seen = 0
  BY <1>1
<1>3. ReloadTypes
  BY <1>1, <1>2 DEF ReloadTypes
<1> QED
  BY <1>1, <1>2, <1>3 DEF ReloadIInv, FirstLookFirst, ChecksAreQuiet, StatusAgrees

(* A line moves the counters, and nothing that the status is made of.      *)
LEMMA LinesOnlyCount ==
  ASSUME ReloadIInv, NEW line \in {"reload", "ready", "failed", "error"}, Says(line)
  PROVE  ReloadIInv'
BY DEF Says, ReloadIInv, ReloadTypes, FirstLookFirst, ChecksAreQuiet, StatusAgrees, aliveVars

(* Each way a look can end.                                                *)
LEMMA LooksAgree ==
  ASSUME ReloadIInv, Looks PROVE ReloadIInv'
<1> DEFINE known == IF rebuild.kind = "unknown" THEN FirstLook(cnt) ELSE rebuild
<1>1. /\ known = [kind |-> known.kind, seen |-> known.seen]
      /\ known.kind \in {"ready", "unready", "rebuilding"}
      /\ known.kind = "rebuilding" <=> health = "reloading"
      /\ known.kind = "ready" => health = "healthy" \/ tookDown
      /\ known.kind = "unready" /\ ~wasDown => health = "unhealthy"
  <2>1. CASE rebuild.kind = "unknown"
    BY <2>1 DEF Looks, ReloadIInv, ReloadTypes, FirstLookFirst, FirstLook, InFlight
  <2>2. CASE rebuild.kind # "unknown"
    BY <2>2 DEF ReloadIInv, ReloadTypes, StatusAgrees
  <2> QED
    BY <2>1, <2>2
<1>2. UNCHANGED <<cnt, tookDown, wasDown>> /\ job = "looks"
  BY DEF Looks, countVars, aliveVars
<1>3. \/ rebuild' = known /\ job' = "waits" /\ health' = health
      \/ health' = "reloading" /\ rebuild' = [kind |-> "rebuilding", seen |-> cnt.reloads] /\ job' = "probes"
      \/ known.kind = "ready" /\ health' = "unhealthy" /\ rebuild' = [known EXCEPT !.kind = "unready"] /\ job' = "waits"
      \/ rebuild' = known /\ job' = "probes" /\ health' = health
  <2> HIDE DEF known
  <2> QED
    BY DEF Looks, known
<1> HIDE DEF known
<1> QED
  BY <1>1, <1>2, <1>3 DEF ReloadIInv, ReloadTypes, FirstLookFirst, ChecksAreQuiet, StatusAgrees

(* What is left changes the status only together with what it shows.       *)
LEMMA ReloadStep == ReloadIInv /\ [ReloadNext]_reloadVars => ReloadIInv'
<1> SUFFICES ASSUME ReloadIInv, [ReloadNext]_reloadVars PROVE ReloadIInv'
  OBVIOUS
<1>1. CASE \E line \in {"reload", "ready", "failed", "error"} : Says(line)
  BY <1>1, LinesOnlyCount
<1>2. CASE Looks
  BY <1>2, LooksAgree
<1> USE DEF ReloadIInv, ReloadTypes, FirstLookFirst, ChecksAreQuiet, StatusAgrees, countVars, aliveVars
<1>3. CASE \E b \in BOOLEAN : BecomesReady(b)
  BY <1>3 DEF BecomesReady
<1>4. CASE \E b \in BOOLEAN : Settles(b)
  <2> PICK b \in BOOLEAN : Settles(b)
    BY <1>4
  <2>1. /\ job = "probes" /\ job' = "waits" /\ UNCHANGED <<tookDown, wasDown>>
        /\ \/ health' = "healthy" /\ rebuild' = [rebuild EXCEPT !.kind = "ready"]
           \/ health' = "unhealthy" /\ rebuild.kind = "rebuilding" /\ rebuild' = [rebuild EXCEPT !.kind = "unready"]
           \/ health' = health /\ rebuild' = [rebuild EXCEPT !.kind = @]
    BY DEF Settles
  <2> QED
    BY <2>1
<1>5. CASE DeadlinePasses \/ LookAgain \/ Checks
  BY <1>5 DEF DeadlinePasses, LookAgain, Checks
<1>6. CASE Answers
  BY <1>6 DEF Answers
<1>7. CASE Misses
  BY <1>7 DEF Misses
<1>8. CASE UNCHANGED reloadVars
  BY <1>8 DEF reloadVars
<1> QED
  BY <1>1, <1>2, <1>3, <1>4, <1>5, <1>6, <1>7, <1>8 DEF ReloadNext

(* The status of a service that rebuilds itself shows how the rebuild      *)
(* stands, in every behaviour (lifecycle.rs: Service::running).            *)
THEOREM StatusAlwaysAgrees == ReloadSpec => []StatusAgrees
<1>1. ReloadIInv => StatusAgrees
  BY DEF ReloadIInv
<1> QED
  BY <1>1, ReloadInitHolds, ReloadStep, PTL DEF ReloadSpec

-----------------------------------------------------------------------------
(***************************************************************************)
(* Procs: how children end.                                                *)
(***************************************************************************)

ProcTypeOK ==
  /\ group \in [Members -> {"none", "runs", "zombie", "gone"}]
  /\ stop \in [Stoppers -> {"idle", "asked", "group", "done"}]

(* A stop, and a kill that finds the handle, come after the child was      *)
(* started: so nothing is started once one of them is over, but by a       *)
(* member of the group that runs, and then there is none.                  *)
AfterSpawn ==
  /\ run = "idle" => group = [m \in Members |-> "none"]
  /\ published => run = "waiting"
  /\ \A s \in Stoppers : stop[s] # "idle" => run # "idle"
  /\ caught => run # "idle"

Ended == (\E s \in Stoppers : stop[s] = "done") \/ (force \in {"exits", "gone"} /\ caught)

ProcIInv == ProcTypeOK /\ AfterSpawn /\ (Ended => Alive(group) = {})

LEMMA ProcInitHolds == ProcInit => ProcIInv
BY DEF ProcInit, ProcIInv, ProcTypeOK, AfterSpawn, Ended, Members, Stoppers, Alive

(* A kill reaches every member that runs.                                  *)
LEMMA KilledAreGone ==
  ASSUME ProcTypeOK, KillNow
  PROVE  /\ group' \in [Members -> {"none", "runs", "zombie", "gone"}]
         /\ Alive(group') = {}
BY DEF ProcTypeOK, KillNow, DeadAs, Alive

LEMMA ProcStep == ProcIInv /\ [ProcNext]_procVars => ProcIInv'
<1> SUFFICES ASSUME ProcIInv, [ProcNext]_procVars PROVE ProcIInv'
  OBVIOUS
<1> USE DEF ProcIInv, ProcTypeOK, AfterSpawn, Ended, Alive, groupVars, signalVars
<1>1. ASSUME NEW m \in Members, Exits(m) PROVE ProcIInv'
  BY <1>1 DEF Exits, DeadAs
<1>2. ASSUME NEW m \in Members, NEW k \in Kids, Forks(m, k) PROVE ProcIInv'
  <2>1. m \in Alive(group) /\ run # "idle"
    BY <1>2 DEF Forks
  <2>2. ~Ended /\ ~Ended'
    BY <2>1, <1>2 DEF Forks
  <2> QED BY <2>1, <2>2, <1>2 DEF Forks, Members
<1>3. CASE Reaps
  BY <1>3 DEF Reaps, Leader, Members
<1>4. CASE Spawns
  <2>1. ~Ended /\ ~Ended'
    BY <1>4 DEF Spawns, Stoppers
  <2> QED BY <2>1, <1>4 DEF Spawns, Leader, Members
<1>5. CASE Registers \/ SeesExit
  BY <1>5 DEF Registers, SeesExit
<1>6. ASSUME NEW s \in Stoppers, AsksToStop(s) PROVE ProcIInv'
  <2>1. run = "waiting"
    BY <1>6 DEF AsksToStop, May
  <2> QED BY <2>1, <1>6 DEF AsksToStop
<1>7. ASSUME NEW s \in Stoppers, GracePasses(s) \/ LeaderGone(s) \/ GroupGone(s) PROVE ProcIInv'
  BY <1>7 DEF GracePasses, LeaderGone, GroupGone
<1>8. ASSUME NEW s \in Stoppers, Escalates(s) PROVE ProcIInv'
  <2>1. run # "idle" /\ UNCHANGED <<run, published, caught>>
    BY <1>8 DEF Escalates
  <2>2. stop' \in [Stoppers -> {"idle", "asked", "group", "done"}]
    BY <1>8 DEF Escalates
  <2> QED BY <1>8, <2>1, <2>2, KilledAreGone DEF Escalates
<1>9. CASE Requested \/ Quits \/ ProcessExits
  BY <1>9 DEF Requested, Quits, ProcessExits
<1>10. CASE KillsAll
  <2>1. CASE published
    BY <1>10, <2>1, KilledAreGone DEF KillsAll
  <2>2. CASE ~published
    BY <1>10, <2>2 DEF KillsAll
  <2> QED BY <1>10, <2>1, <2>2
<1>11. CASE UNCHANGED procVars
  BY <1>11 DEF procVars
<1> QED
  BY <1>1, <1>2, <1>3, <1>4, <1>5, <1>6, <1>7, <1>8, <1>9, <1>10, <1>11
     DEF ProcNext, StopStep

(* Whoever stopped the group, and whatever its members ignore or start     *)
(* meanwhile, once the stop is over none of them runs; nor once a forced   *)
(* kill has found the handle (Handle::stop, kill_now, Engine::kill_all).   *)
THEOREM StoppedIsGone == ProcSpec => []StoppedMeansGone
<1>1. ProcIInv => StoppedMeansGone
  BY DEF ProcIInv, Ended, StoppedMeansGone
<1> QED
  BY ProcInitHolds, ProcStep, <1>1, PTL DEF ProcSpec

(***************************************************************************)
(* ChildEnv: what children are started with.                               *)
(***************************************************************************)

(* Two runs whose keys agree found the variable in env files with the same *)
(* value, or both did not.                                                 *)
LEMMA SameFromFiles ==
  ASSUME NEW s \in Settings, NEW w \in Worlds, NEW v \in Worlds, EnvKey(s, v) = EnvKey(s, w)
  PROVE  /\ FromFiles(s, v) <=> FromFiles(s, w)
         /\ FromFiles(s, w) => Said(v) = Said(w)
BY DEF EnvKey, FromFiles

(* If they did not, and the name is keyed, they found it in the ambient    *)
(* environment with the same value, but for one that is not set.           *)
LEMMA SameAmbient ==
  ASSUME NEW s \in Settings, NEW w \in Worlds, NEW v \in Worlds, EnvKey(s, v) = EnvKey(s, w),
         s.keyed, s.inline = Unset, ~FromFiles(s, w), ~Alike(w, v)
  PROVE  v.ambient = w.ambient
<1>1. Over(s.inline, Over(v.ambient, "")) = Over(s.inline, Over(w.ambient, ""))
  BY SameFromFiles DEF EnvKey
<1>2. Over(v.ambient, "") = Over(w.ambient, "")
  BY <1>1 DEF Over
<1> QED
  BY <1>2 DEF Over, Alike

(* So what is declared of it is the same in both.                          *)
LEMMA SameDeclared ==
  ASSUME NEW s \in Settings, NEW w \in Worlds, NEW v \in Worlds, EnvKey(s, v) = EnvKey(s, w)
  PROVE  Declared(s, v) = Declared(s, w)
<1>1. CASE s.inline # Unset
  BY <1>1 DEF Declared, Over
<1>2. CASE s.inline = Unset /\ FromFiles(s, w)
  BY <1>2, SameFromFiles DEF Declared, Over, FromFiles
<1>3. CASE s.inline = Unset /\ ~FromFiles(s, w)
  <2>1. Said(w) = Unset /\ Said(v) = Unset
    BY <1>3, SameFromFiles DEF FromFiles
  <2> QED BY <1>3, <2>1 DEF Declared
<1> QED BY <1>1, <1>2, <1>3

(* A hit stands for a run whose child would have found what the recorded   *)
(* one found: run_task's key, of env files and keyed names, covers what    *)
(* child_env and spawn_with give a strict child.                           *)
THEOREM KeysCoverTheEnvironment == EnvInit => EnvKeyed
<1> SUFFICES ASSUME EnvInit, NEW s \in Settings, NEW w \in Worlds, NEW v \in Worlds,
                    s.strict, ~Unkeyed(s, w), ~Masked(s, w),
                    ~Masked(s, v), ~Alike(w, v), EnvKey(s, v) = EnvKey(s, w)
             PROVE  Sees(s, v) = Sees(s, w)
  <2>1. EnvInit => child.setting \in Settings /\ child.world \in Worlds
    BY DEF EnvInit
  <2> QED BY <2>1 DEF EnvKeyed, Cacheable
<1>1. Declared(s, v) = Declared(s, w)
  BY SameDeclared
<1>2. Declared(s, w) = Unset => s.inline = Unset /\ ~FromFiles(s, w)
  BY DEF Declared, Over, FromFiles
<1>3. CASE s.role = "forced"
  BY <1>3 DEF Sees
<1>4. CASE s.role = "term"
  <2>1. s.inline = Unset /\ Said(w) = Unset
    BY <1>4 DEF Masked
  <2>2. Declared(s, w) = Unset
    BY <1>4, <2>1 DEF Declared, Over
  <2>3. s.keyed
    BY <1>4, <2>2 DEF Unkeyed
  <2>4. v.ambient = w.ambient
    BY <1>2, <2>1, <2>2, <2>3, SameAmbient
  <2> QED BY <1>4, <2>4 DEF Sees
<1>5. CASE s.role \notin {"forced", "term"}
  <2>1. /\ Sees(s, v) = Over(Explicit(s, v), Unset)
        /\ Sees(s, w) = Over(Explicit(s, w), Unset)
    BY <1>5 DEF Sees
  <2>2. CASE Declared(s, w) # Unset
    BY <1>1, <2>1, <2>2 DEF Explicit, Over
  <2>3. CASE Declared(s, w) = Unset
    <3>1. Admitted(s, v) = Admitted(s, w)
      <4>1. CASE s.keyed
        BY <1>2, <2>3, <4>1, SameAmbient DEF Admitted
      <4>2. CASE ~s.keyed
        BY <2>3, <4>2 DEF Unkeyed, Admitted
      <4> QED BY <4>1, <4>2
    <3> QED BY <1>1, <2>1, <2>3, <3>1 DEF Explicit
  <2> QED BY <2>2, <2>3
<1> QED
  BY <1>3, <1>4, <1>5

-----------------------------------------------------------------------------
(* What a replay is, of anything that is one.                              *)
Replays(f) ==
  /\ f = [i \in 0..Len(entries) |-> IF i = 0 THEN base ELSE Apply(f[i - 1], entries[i])]
  /\ f[Len(entries)] = lives

Entry == [seq : Nat, node : Recorded, fact : Facts]

Life == [status : Statuses \cup {"pending"}, reason : {"none", "why"}, restarts : Nat,
         pid : Pids \cup {"none"}, startedAt : Nat, generation : Nat]

HistoryShape ==
  /\ entries \in Seq(Entry) /\ Len(entries) <= HistoryCap /\ nextFact \in Nat
  /\ lives \in [Recorded -> Life]
  /\ tallies \in [Recorded -> [restarts : Nat, failures : Nat]]

TalliesCount == \A n \in Recorded : tallies[n].restarts = lives[n].restarts

HistoryInv == HistoryShape /\ TalliesCount /\ \E f : Replays(f)

LEMMA HistoryInit == HistInit => HistoryInv
<1> SUFFICES ASSUME HistInit PROVE HistoryInv
  OBVIOUS
<1>1. HistoryShape
  BY HistoryAssumption DEF HistInit, HistoryShape, Seed, Life
<1>2. TalliesCount
  BY DEF HistInit, TalliesCount, Seed
<1>3. \E f : Replays(f)
  <2> DEFINE f == [i \in 0..0 |-> base]
  <2>1. Len(entries) = 0 /\ base = lives
    BY DEF HistInit
  <2>2. f = [i \in 0..0 |-> IF i = 0 THEN base ELSE Apply(f[i - 1], entries[i])]
    OBVIOUS
  <2>3. f[0] = lives
    BY <2>1
  <2> HIDE DEF f
  <2> QED BY <2>1, <2>2, <2>3 DEF Replays
<1> QED BY <1>1, <1>2, <1>3 DEF HistoryInv

LEMMA RecordingReplays ==
  ASSUME HistoryInv, NEW n \in Recorded, NEW fact \in Facts, Records(n, fact)
  PROVE  \E g : Replays(g)'
<1> DEFINE e == [seq |-> nextFact, node |-> n, fact |-> fact]
           len == Len(entries)
<1>1. PICK f : Replays(f)
  BY DEF HistoryInv
<1>2. /\ entries \in Seq(Entry) /\ len \in Nat /\ len <= HistoryCap /\ e \in Entry
      /\ HistoryCap \in Nat \ {0}
  BY HistoryAssumption DEF HistoryInv, HistoryShape, Entry
<1>3. /\ base' = IF len = HistoryCap THEN Apply(base, Head(entries)) ELSE base
      /\ entries' = Append(IF len = HistoryCap THEN Tail(entries) ELSE entries, e)
      /\ lives' = Apply(lives, e)
  BY DEF Records, Push
<1>4. /\ f[0] = base /\ f[len] = lives
      /\ \A i \in 1..len : f[i] = Apply(f[i - 1], entries[i])
  <2>1. \A i \in 0..len : f[i] = IF i = 0 THEN base ELSE Apply(f[i - 1], entries[i])
    BY <1>1 DEF Replays
  <2> QED BY <1>1, <1>2, <2>1 DEF Replays
<1> HIDE DEF e
<1>5. CASE len # HistoryCap
  <2> DEFINE g == [i \in 0..(len + 1) |-> IF i <= len THEN f[i] ELSE lives']
  <2>1. base' = base /\ entries' = Append(entries, e) /\ Len(entries') = len + 1
    BY <1>2, <1>3, <1>5
  <2>2. entries'[len + 1] = e /\ \A i \in 1..len : entries'[i] = entries[i]
    BY <1>2, <2>1
  <2>3. g[0] = base' /\ g[len + 1] = lives' /\ g[len] = lives
    BY <1>2, <1>4, <2>1
  <2>4. ASSUME NEW i \in 1..(len + 1) PROVE g[i] = Apply(g[i - 1], entries'[i])
    <3>1. CASE i = len + 1
      <4>1. i - 1 = len
        BY <1>2, <3>1
      <4> QED BY <1>3, <2>2, <2>3, <3>1, <4>1
    <3>2. CASE i # len + 1
      <4>1. i \in 1..len /\ i - 1 \in 0..len
        BY <1>2, <3>2
      <4>2. g[i] = f[i] /\ g[i - 1] = f[i - 1]
        BY <1>2, <4>1
      <4> QED BY <1>4, <2>2, <4>1, <4>2
    <3> QED BY <3>1, <3>2
  <2>5. g = [i \in 0..Len(entries') |-> g[i]]
    BY <2>1
  <2> HIDE DEF g
  <2>6. \A i \in 0..Len(entries') : g[i] = IF i = 0 THEN base' ELSE Apply(g[i - 1], entries'[i])
    BY <1>2, <2>1, <2>3, <2>4
  <2>7. g = [i \in 0..Len(entries') |-> IF i = 0 THEN base' ELSE Apply(g[i - 1], entries'[i])]
    BY <2>5, <2>6
  <2> QED BY <2>1, <2>3, <2>7 DEF Replays
<1>6. CASE len = HistoryCap
  <2> DEFINE g == [i \in 0..len |-> IF i < len THEN f[i + 1] ELSE lives']
  <2>1. /\ entries' = Append(Tail(entries), e) /\ Len(entries') = len
        /\ base' = Apply(base, entries[1])
    BY <1>2, <1>3, <1>6
  <2>2. entries'[len] = e /\ \A i \in 1..(len - 1) : entries'[i] = entries[i + 1]
    BY <1>2, <1>6, <2>1
  <2>3. g[len] = lives' /\ g[len - 1] = lives
    BY <1>2, <1>4, <1>6
  <2>4. g[0] = base'
    <3>1. g[0] = f[1] /\ 1 \in 1..len /\ 1 - 1 = 0
      BY <1>2, <1>6
    <3> QED BY <1>4, <2>1, <3>1
  <2>5. ASSUME NEW i \in 1..len PROVE g[i] = Apply(g[i - 1], entries'[i])
    <3>1. CASE i = len
      BY <1>3, <2>2, <2>3, <3>1
    <3>2. CASE i # len
      <4>1. i \in 1..(len - 1) /\ i + 1 \in 1..len /\ (i + 1) - 1 = i /\ i - 1 \in 0..len
        BY <1>2, <3>2
      <4>2. g[i] = f[i + 1] /\ g[i - 1] = f[i]
        BY <1>2, <4>1
      <4> QED BY <1>4, <2>2, <4>1, <4>2
    <3> QED BY <3>1, <3>2
  <2>6. g = [i \in 0..Len(entries') |-> g[i]]
    BY <2>1
  <2> HIDE DEF g
  <2>7. \A i \in 0..Len(entries') : g[i] = IF i = 0 THEN base' ELSE Apply(g[i - 1], entries'[i])
    BY <1>2, <2>1, <2>4, <2>5
  <2>8. g = [i \in 0..Len(entries') |-> IF i = 0 THEN base' ELSE Apply(g[i - 1], entries'[i])]
    BY <2>6, <2>7
  <2> QED BY <2>1, <2>3, <2>8 DEF Replays
<1> QED BY <1>5, <1>6

LEMMA RecordingCounts ==
  ASSUME HistoryShape, TalliesCount, NEW n \in Recorded, NEW fact \in Facts, Records(n, fact)
  PROVE  HistoryShape' /\ TalliesCount'
<1> DEFINE e == [seq |-> nextFact, node |-> n, fact |-> fact]
           len == Len(entries)
<1>1. /\ entries \in Seq(Entry) /\ len \in Nat /\ len <= HistoryCap /\ e \in Entry
      /\ HistoryCap \in Nat \ {0} /\ nextFact \in Nat
  BY HistoryAssumption DEF HistoryShape, Entry
<1>2. /\ entries' = Append(IF len = HistoryCap THEN Tail(entries) ELSE entries, e)
      /\ nextFact' = nextFact + 1
  BY DEF Records, Push
<1>3. lives' = Apply(lives, e)
  BY DEF Records
<1>4. tallies' = [tallies EXCEPT ![n] =
        [restarts |-> @.restarts + (IF fact.kind = "restarted" THEN 1 ELSE 0),
         failures |-> @.failures + (IF fact.kind = "status" /\ fact.what \in FailStatuses
                                    THEN 1 ELSE 0)]]
  BY DEF Records, Push
<1>5. entries' \in Seq(Entry) /\ Len(entries') <= HistoryCap /\ nextFact' \in Nat
  BY <1>1, <1>2
<1>6. tallies' \in [Recorded -> [restarts : Nat, failures : Nat]]
  BY <1>4 DEF HistoryShape
<1>7. /\ DOMAIN lives' = Recorded /\ lives' = [m \in Recorded |-> lives'[m]]
      /\ \A m \in Recorded \ {n} : lives'[m] = lives[m]
  BY <1>3 DEF Apply, HistoryShape
<1>8. /\ lives'[n] \in Life
      /\ lives'[n].restarts = lives[n].restarts + (IF fact.kind = "restarted" THEN 1 ELSE 0)
  <2>1. lives[n] \in Life /\ nextFact \in Nat
    BY DEF HistoryShape
  <2>2. lives'[n] = Turned(lives[n], e)
    BY <1>3 DEF Apply, HistoryShape
  <2>3. fact.kind \in {"status", "reason", "restarted", "spawned", "pid"}
    BY DEF Facts
  <2>4. CASE fact.kind = "status"
    <3> DEFINE mid == [lives[n] EXCEPT !.status = fact.what]
    <3>1. fact.what \in Statuses
      BY <2>4 DEF Facts
    <3>2. mid \in Life /\ mid.restarts = lives[n].restarts /\ mid.generation = lives[n].generation
      BY <2>1, <3>1 DEF Life
    <3>3. lives'[n] = [mid EXCEPT !.generation = @ + (IF fact.what \in ReadyStatuses THEN 1 ELSE 0)]
      BY <2>2, <2>4, <3>2 DEF Turned
    <3> HIDE DEF mid
    <3> QED BY <2>1, <2>4, <3>2, <3>3 DEF Life
  <2>5. CASE fact.kind = "reason"
    <3>1. lives'[n] = [lives[n] EXCEPT !.reason = fact.what]
      BY <2>2, <2>5 DEF Turned
    <3>2. fact.what = "why"
      BY <2>5 DEF Facts
    <3> QED BY <2>1, <2>5, <3>1, <3>2 DEF Life
  <2>6. CASE fact.kind = "restarted"
    <3> DEFINE mid == [lives[n] EXCEPT !.reason = fact.what]
    <3>1. fact.what = "why"
      BY <2>6 DEF Facts
    <3>2. mid \in Life /\ mid.restarts = lives[n].restarts /\ mid.generation = lives[n].generation
      BY <2>1, <3>1 DEF Life
    <3>3. lives'[n] = [mid EXCEPT !.restarts = @ + 1]
      BY <2>2, <2>6, <3>2 DEF Turned
    <3> HIDE DEF mid
    <3> QED BY <2>1, <2>6, <3>2, <3>3 DEF Life
  <2>7. CASE fact.kind = "spawned"
    <3> DEFINE mid == [lives[n] EXCEPT !.pid = fact.what]
    <3>1. fact.what \in Pids
      BY <2>7 DEF Facts
    <3>2. mid \in Life /\ mid.restarts = lives[n].restarts /\ mid.generation = lives[n].generation
      BY <2>1, <3>1 DEF Life
    <3>3. lives'[n] = [mid EXCEPT !.startedAt = nextFact]
      BY <2>2, <2>7, <3>2 DEF Turned
    <3> HIDE DEF mid
    <3> QED BY <2>1, <2>7, <3>2, <3>3 DEF Life
  <2>8. CASE fact.kind = "pid"
    <3>1. lives'[n] = [lives[n] EXCEPT !.pid = fact.what]
      BY <2>2, <2>8 DEF Turned
    <3>2. fact.what \in Pids
      BY <2>8 DEF Facts
    <3> QED BY <2>1, <2>8, <3>1, <3>2 DEF Life
  <2> QED BY <2>3, <2>4, <2>5, <2>6, <2>7, <2>8
<1>9. TalliesCount'
  <2>1. tallies'[n].restarts = tallies[n].restarts + (IF fact.kind = "restarted" THEN 1 ELSE 0)
    BY <1>4 DEF HistoryShape
  <2>2. \A m \in Recorded \ {n} : tallies'[m] = tallies[m]
    BY <1>4 DEF HistoryShape
  <2> QED BY <1>7, <1>8, <2>1, <2>2 DEF TalliesCount
<1>10. lives' \in [Recorded -> Life]
  BY <1>7, <1>8 DEF HistoryShape
<1> QED BY <1>5, <1>6, <1>7, <1>9, <1>10 DEF HistoryShape

(* Two replays of the same entries are the same, and Replay is one.        *)
LEMMA ReplayIsTheReplay ==
  ASSUME HistoryInv
  PROVE  Project = lives
<1>1. PICK f : Replays(f)
  BY DEF HistoryInv
<1>2. Replay = [i \in 0..Len(entries) |-> IF i = 0 THEN base ELSE Apply(Replay[i - 1], entries[i])]
  BY <1>1 DEF Replay, Replays
<1>3. Len(entries) \in Nat
  BY DEF HistoryInv, HistoryShape
<1> DEFINE other == {i \in 0..Len(entries) : Replay[i] # f[i]}
<1>4. ASSUME other # {} PROVE FALSE
  <2>1. other \in SUBSET Nat
    BY <1>3
  <2>2. PICK i \in other : \A j \in other : i <= j
    BY <1>4, <2>1, LeastNatural
  <2>3. i \in 0..Len(entries) /\ Replay[i] # f[i]
    OBVIOUS
  <2>4. /\ f[i] = IF i = 0 THEN base ELSE Apply(f[i - 1], entries[i])
        /\ Replay[i] = IF i = 0 THEN base ELSE Apply(Replay[i - 1], entries[i])
    BY <1>1, <1>2, <2>3 DEF Replays
  <2>5. i # 0 /\ i - 1 \in 0..Len(entries) /\ Replay[i - 1] # f[i - 1]
    BY <1>3, <2>3, <2>4
  <2>6. i <= i - 1
    BY <2>2, <2>5
  <2> QED BY <1>3, <2>3, <2>6
<1>5. Replay[Len(entries)] = f[Len(entries)]
  BY <1>3, <1>4
<1> QED BY <1>1, <1>5 DEF Replays, Project

(* However much of the history has been summarised, replaying it gives     *)
(* every node its present life, and the tallies count its restarts.        *)
THEOREM HistoryIsWhole == HistSpec => []HistoryWhole
<1>1. ASSUME HistoryInv, [HistNext]_historyVars PROVE HistoryInv'
  <2>1. CASE UNCHANGED historyVars
    <3>1. HistoryShape' /\ TalliesCount'
      BY <1>1, <2>1 DEF HistoryInv, HistoryShape, TalliesCount, historyVars
    <3>2. PICK f : Replays(f)
      BY <1>1 DEF HistoryInv
    <3>3. Replays(f)'
      BY <2>1, <3>2 DEF Replays, historyVars
    <3> QED BY <3>1, <3>3 DEF HistoryInv
  <2>2. ASSUME NEW n \in Recorded, NEW fact \in Facts, Records(n, fact) PROVE HistoryInv'
    <3>1. HistoryShape' /\ TalliesCount'
      BY <1>1, <2>2, RecordingCounts DEF HistoryInv
    <3>2. \E g : Replays(g)'
      BY <1>1, <2>2, RecordingReplays
    <3> QED BY <3>1, <3>2 DEF HistoryInv
  <2> QED BY <1>1, <2>1, <2>2 DEF HistNext
<1>2. HistoryInv => HistoryWhole
  BY ReplayIsTheReplay DEF HistoryInv, TalliesCount, HistoryWhole
<1> QED BY <1>1, <1>2, HistoryInit, PTL DEF HistSpec
=============================================================================
