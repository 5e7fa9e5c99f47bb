----------------------------- MODULE SelfReload -----------------------------
(***************************************************************************)
(* A service that rebuilds itself while it runs: `reload = "self"` with a  *)
(* `reloading` pattern (src/lifecycle.rs: Rebuild, Alive, running,         *)
(* reload_settle; src/engine.rs: ingest_line, reload_counters). It is      *)
(* followed by counting lines of its output: the pump counts, and the      *)
(* supervisor looks at the counts now and then, probes, and decides. Its   *)
(* liveness check goes on beside that.                                     *)
(***************************************************************************)
EXTENDS Naturals, Sequences

CONSTANTS
  MaxSaid,     \* bounds the lines that match a pattern
  MayMiss,     \* a liveness check may fail
  MissLimit    \* liveness.failures

VARIABLES
  cnt,      \* the ReloadCounters, as the pump keeps them
  word,     \* the last thing the output said: "none", "reload", "ready", "failed"
  logReady, \* the ready line has been seen since the process was started
  health,   \* the node's status: "starting", "healthy", "reloading", "unhealthy"
  rebuild,  \* Rebuild: a kind and the reload lines accounted for
  overdue,  \* the deadline of the rebuild has passed
  misses, tookDown, \* Alive
  job,      \* what the supervisor does: "starting", "looks", "probes", "checks", "waits"
  looked,   \* the counters a reload probe is to be judged with
  wasDown   \* liveness has taken the node down before

countVars  == <<cnt, word, logReady>>
aliveVars  == <<misses, tookDown, wasDown>>
reloadVars == <<countVars, health, rebuild, overdue, aliveVars, job, looked>>

ReloadInit ==
  /\ cnt = [reloads |-> 0, readies |-> 0, atReload |-> 0, errors |-> 0, failures |-> 0]
  /\ word = "none" /\ logReady = FALSE
  /\ health = "starting" /\ rebuild = [kind |-> "unknown", seen |-> 0] /\ overdue = FALSE
  /\ misses = 0 /\ tookDown = FALSE /\ wasDown = FALSE
  /\ job = "starting" /\ looked = cnt

-----------------------------------------------------------------------------
(* ingest_line: what a line that matches does to the counters.             *)
Bug_Counted(c, line) ==   \* a new rebuild does not forget the last one's failure
  CASE line = "reload" -> [c EXCEPT !.reloads = @ + 1, !.atReload = c.readies]
    [] line = "ready"  -> [c EXCEPT !.readies = @ + 1]
    [] line = "failed" -> [c EXCEPT !.failures = @ + 1]
    [] line = "error"  -> [c EXCEPT !.errors = 1]

Counted(c, line) ==
  CASE line = "reload" -> [c EXCEPT !.reloads = @ + 1, !.atReload = c.readies,
                                    !.failures = 0, !.errors = 0]
    [] line = "ready"  -> [c EXCEPT !.readies = @ + 1, !.failures = 0]
    [] line = "failed" -> [c EXCEPT !.failures = @ + 1]
    [] line = "error"  -> [c EXCEPT !.errors = 1]

Says(line) ==
  /\ cnt.reloads + cnt.readies + cnt.failures + cnt.errors < MaxSaid
  /\ cnt' = Counted(cnt, line)
  /\ word' = IF line = "error" THEN word ELSE line
  /\ logReady' = (logReady \/ line = "ready")
  /\ UNCHANGED <<health, rebuild, overdue, aliveVars, job, looked>>

-----------------------------------------------------------------------------
(* became_ready, with readiness reached or given up on: the log line is a  *)
(* part of the probe, and a reloading pattern needs one.                   *)
BecomesReady(ready) ==
  /\ job = "starting" /\ (ready => logReady)
  /\ health' = IF ready THEN "healthy" ELSE "unhealthy"
  /\ job' = "looks"
  /\ UNCHANGED <<countVars, rebuild, overdue, aliveVars, looked>>

(* The first look. Rebuilds announced so far belong to the start, unless   *)
(* one came after the last ready line.                                     *)
InFlight(c) == c.reloads > 0 /\ c.atReload = c.readies

FirstLook(c) ==
  [kind |-> IF health = "healthy" THEN "ready" ELSE "unready",
   seen |-> c.reloads - (IF InFlight(c) THEN 1 ELSE 0)]

(* Every look: a rebuild that is new is the down edge; a failure told from *)
(* ready is the down edge and the verdict; out of ready, probe.            *)
Looks ==
  /\ job = "looks"
  /\ LET known == IF rebuild.kind = "unknown" THEN FirstLook(cnt) ELSE rebuild
         first == rebuild.kind = "unknown" /\ ~InFlight(cnt)
         new   == cnt.reloads # known.seen
     IN  \/ /\ first
            /\ rebuild' = known /\ job' = "waits"
            /\ UNCHANGED <<health, overdue, looked>>
         \/ /\ ~first /\ new
            /\ health' = "reloading" /\ overdue' = FALSE
            /\ rebuild' = [kind |-> "rebuilding", seen |-> cnt.reloads]
            /\ job' = "probes" /\ looked' = cnt
         \/ /\ ~first /\ ~new /\ known.kind = "ready"
            /\ job' = "waits"
            /\ IF cnt.failures > 0
               THEN health' = "unhealthy" /\ rebuild' = [known EXCEPT !.kind = "unready"]
               ELSE rebuild' = known /\ UNCHANGED health
            /\ UNCHANGED <<overdue, looked>>
         \/ /\ ~first /\ ~new /\ known.kind # "ready"
            /\ rebuild' = known /\ job' = "probes" /\ looked' = cnt
            /\ UNCHANGED <<health, overdue>>
  /\ UNCHANGED <<countVars, aliveVars>>

(* reload_settle, with the counters read before the probe.                 *)
Settles(pass) ==
  /\ job = "probes" /\ job' = "waits"
  /\ LET c == looked
         again  == c.readies > c.atReload /\ c.failures = 0 /\ pass
         failed == rebuild.kind = "rebuilding" /\ (c.failures > 0 \/ c.errors > 0 \/ overdue)
     IN  /\ health' = IF again THEN "healthy" ELSE IF failed THEN "unhealthy" ELSE health
         /\ rebuild' = [rebuild EXCEPT !.kind =
              IF again THEN "ready" ELSE IF failed THEN "unready" ELSE @]
  /\ UNCHANGED <<countVars, overdue, aliveVars, looked>>

DeadlinePasses ==
  /\ rebuild.kind = "rebuilding" /\ ~overdue /\ overdue' = TRUE
  /\ UNCHANGED <<countVars, health, rebuild, aliveVars, job, looked>>

(* The timers: the next look, and the next liveness check, which a process *)
(* that is rebuilding is not asked for.                                    *)
LookAgain ==
  /\ job = "waits" /\ job' = "looks"
  /\ UNCHANGED <<countVars, health, rebuild, overdue, aliveVars, looked>>

Checks ==
  /\ job = "waits" /\ rebuild.kind # "rebuilding" /\ job' = "checks"
  /\ UNCHANGED <<countVars, health, rebuild, overdue, aliveVars, looked>>

Bug_Answers ==   \* whoever took the node down, an answer puts it back
  /\ job = "checks" /\ job' = "waits"
  /\ misses' = 0 /\ tookDown' = FALSE
  /\ health' = "healthy"
  /\ UNCHANGED <<countVars, rebuild, overdue, looked, wasDown>>

Answers ==
  /\ job = "checks" /\ job' = "waits"
  /\ misses' = 0 /\ tookDown' = FALSE
  /\ health' = IF tookDown THEN "healthy" ELSE health
  /\ UNCHANGED <<countVars, rebuild, overdue, looked, wasDown>>

(* For a service that is not restarted on a crash; one that is, is.        *)
Misses ==
  /\ MayMiss /\ job = "checks" /\ job' = "waits"
  /\ misses' = IF misses <= MissLimit THEN misses + 1 ELSE misses
  /\ IF misses' = MissLimit /\ misses < MissLimit
     THEN tookDown' = TRUE /\ wasDown' = TRUE /\ health' = "unhealthy"
     ELSE UNCHANGED <<tookDown, wasDown, health>>
  /\ UNCHANGED <<countVars, rebuild, overdue, looked>>

ReloadNext ==
  \/ \E line \in {"reload", "ready", "failed", "error"} : Says(line)
  \/ \E b \in BOOLEAN : BecomesReady(b) \/ Settles(b)
  \/ Looks \/ DeadlinePasses \/ LookAgain \/ Checks \/ Answers \/ Misses

(* The supervisor goes on, time passes, and a probe that a process which   *)
(* is up can answer does not fail for ever.                                *)
StartEnds == \E b \in BOOLEAN : BecomesReady(b)

ReloadFair ==
  /\ WF_reloadVars(Looks) /\ WF_reloadVars(\E b \in BOOLEAN : Settles(b))
  /\ SF_reloadVars(Settles(TRUE)) /\ SF_reloadVars(LookAgain)
  /\ WF_reloadVars(Answers \/ Misses) /\ WF_reloadVars(DeadlinePasses)

ReloadSpec == ReloadInit /\ [][ReloadNext]_reloadVars /\ WF_reloadVars(StartEnds) /\ ReloadFair

-----------------------------------------------------------------------------
(* The status shows how the rebuild stands: nobody depends on a process    *)
(* that is rebuilding, and one that came back is healthy unless liveness   *)
(* says otherwise. A failed rebuild stands until the process comes back,   *)
(* if liveness never took the node down.                                   *)
StatusAgrees ==
  /\ rebuild.kind = "rebuilding" <=> health = "reloading"
  /\ rebuild.kind = "ready" => health = "healthy" \/ tookDown
  /\ rebuild.kind = "unready" /\ ~wasDown => health = "unhealthy"

(* What the output said last is what the node becomes, for good: ready if  *)
(* it came back, not ready if a rebuild began or failed.                   *)
ReloadFollowed ==
  /\ <>[](word = "ready") => []<>(health = "healthy" \/ wasDown)
  /\ <>[](word \in {"reload", "failed"}) => <>[](health # "healthy" \/ wasDown)

(* A failed self-reload is not liveness's to clear.                        *)
FailureStands == rebuild.kind = "unready" => health # "healthy"
=============================================================================
