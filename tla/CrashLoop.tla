----------------------------- MODULE CrashLoop -----------------------------
(***************************************************************************)
(* What a crash costs a service with restart = "always" (src/lifecycle.rs: *)
(* Crashes, start_backoff, give_up, exited, spawn_failed, and the places   *)
(* that start the count or the delays over). Delays are numbers here, and  *)
(* a run either outlasted the longest of them or did not.                  *)
(***************************************************************************)
EXTENDS Integers

CONSTANTS
  BackoffMin, BackoffMax,   \* backoff_min, backoff_max
  MaxCrashes                \* max_restarts; -1 for none

ASSUME CrashAssumption ==
  BackoffMin \in Nat /\ BackoffMax \in Nat /\ MaxCrashes \in Int

VARIABLES
  stage,    \* "starting", "running", "backoff", "gaveUp"
  delay,    \* Service.backoff: the next delay
  wait,     \* the delay of the backoff under way
  crashes,  \* Crashes.restarts
  doubled,  \* history: delays served since they last started over, until the longest
  inRow     \* history: restarts for crashing since a run that lasted or a new attempt

crashVars == <<stage, delay, wait, crashes, doubled, inRow>>

CrashInit ==
  /\ stage = "starting" /\ delay = BackoffMin /\ wait = BackoffMin
  /\ crashes = 0 /\ doubled = 0 /\ inRow = 0

Limited == MaxCrashes >= 0
Doubled(d) == IF 2 * d <= BackoffMax THEN 2 * d ELSE BackoffMax

(* starting: only a probe that passes proves that the process is past what *)
(* made it crash.                                                          *)
ProbePasses ==
  /\ stage = "starting" /\ stage' = "running"
  /\ delay' = BackoffMin /\ doubled' = 0
  /\ UNCHANGED <<wait, crashes, inRow>>

UpUnproved ==
  /\ stage = "starting" /\ stage' = "running"
  /\ UNCHANGED <<delay, wait, crashes, doubled, inRow>>

(* exited, and spawn_failed after a run of no time; Crashes::exhausted.    *)
Bug_Base(lasted, before, start) == before   \* a run that lasted resets nothing

Base(lasted, before, start) == IF lasted THEN start ELSE before

Crashes(lasted) ==
  LET first  == Base(lasted, delay, BackoffMin)
      served == Base(lasted, doubled, 0)
      count  == IF lasted THEN 0 ELSE crashes
      row    == IF lasted THEN 0 ELSE inRow
  IN
  /\ stage \in {"starting", "running"} /\ (lasted => stage = "running")
  /\ \/ /\ Limited /\ count >= MaxCrashes
        /\ stage' = "gaveUp" /\ delay' = BackoffMin /\ doubled' = 0
        /\ crashes' = count /\ inRow' = row /\ UNCHANGED wait
     \/ /\ ~(Limited /\ count >= MaxCrashes)
        /\ stage' = "backoff" /\ wait' = first /\ delay' = Doubled(first)
        /\ doubled' = IF lasted THEN 1 ELSE IF first = BackoffMax THEN served ELSE served + 1
        /\ crashes' = IF Limited THEN count + 1 ELSE count
        /\ inRow' = IF Limited THEN row + 1 ELSE row

BackoffEnds ==
  /\ stage = "backoff" /\ stage' = "starting"
  /\ UNCHANGED <<delay, wait, crashes, doubled, inRow>>

(* A new attempt: a change, or someone, or for a process that is up or was *)
(* given up on a dependency.                                               *)
NewAttempt ==
  /\ stage # "starting" /\ stage' = "starting"
  /\ delay' = BackoffMin /\ doubled' = 0
  /\ crashes' = 0 /\ inRow' = 0
  /\ UNCHANGED wait

(* Mid-startup it is not one: interrupt_startup.                           *)
CrashNext ==
  \/ ProbePasses \/ UpUnproved \/ BackoffEnds \/ NewAttempt
  \/ \E lasted \in BOOLEAN : Crashes(lasted)

CrashSpec == CrashInit /\ [][CrashNext]_crashVars

-----------------------------------------------------------------------------
CrashTypeOK ==
  /\ stage \in {"starting", "running", "backoff", "gaveUp"}
  /\ delay \in Nat /\ wait \in Nat
  /\ crashes \in Nat /\ inRow \in Nat /\ doubled \in Nat

(* Doublings[i]: the shortest delay, doubled i times.                      *)
Doublings[i \in 0..doubled] == IF i = 0 THEN BackoffMin ELSE 2 * Doublings[i - 1]

(* The delay before a restart doubles with every crash in a row, from the  *)
(* shortest to the longest, wherever the shortest is not above it.         *)
DelaysDouble ==
  BackoffMin <= BackoffMax =>
    delay = IF Doublings[doubled] < BackoffMax THEN Doublings[doubled] ELSE BackoffMax

(* A service is given up on after as many restarts in a row as it is       *)
(* allowed, and neither before that nor ever without a limit.              *)
GivesUpInTime ==
  /\ inRow > 0 => Limited /\ inRow <= MaxCrashes
  /\ stage = "gaveUp" => Limited /\ inRow = MaxCrashes

CrashLoopBounded == DelaysDouble /\ GivesUpInTime
=============================================================================
