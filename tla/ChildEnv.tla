------------------------------ MODULE ChildEnv ------------------------------
(***************************************************************************)
(* What a task's child finds in its environment and what its cache key     *)
(* says of it (src/engine.rs, envfile.rs, proc.rs). The loops of       *)
(* child_env and fingerprint treat every name by itself, so one variable   *)
(* is looked at, in one of the roles a name can have; only a file that     *)
(* does not load concerns all of them. A setting is what the configuration *)
(* declares; a world is what it does not: the ambient environment of a     *)
(* `turborust run` and the env files as they are then.                     *)
(***************************************************************************)
EXTENDS Naturals, FiniteSets

CONSTANTS Values,    \* what a variable may hold; "" is one of them
          Required   \* for each env file, the project's and then the
                     \* node's, whether it must be there

Unset == "unset"     \* no value at all
Private == "private" \* the target directory a split node has to itself
Given == "given"     \* what spawn_with sets whatever the environment says

ASSUME EnvAssumption ==
  "" \in Values /\ {Unset, Private, Given} \cap Values = {}

VARIABLE child   \* the setting and the world of one child

(* SAFE_BASE_ENV, an ordinary name, CARGO_TARGET_DIR, TERM (also in the    *)
(* safe base) and the names spawn_with sets for every child.               *)
Roles == {"base", "plain", "dir", "term", "forced"}

Settings == [role : Roles, keyed : BOOLEAN, passed : BOOLEAN, strict : BOOLEAN,
             split : BOOLEAN, inline : Values \cup {Unset}]

(* What an env file says of the name, once parsed: a value, nothing of it, *)
(* or that it is not there or does not parse.                              *)
Texts == Values \cup {Unset, "missing", "malformed"}
Worlds == [ambient : Values \cup {Unset}, files : [DOMAIN Required -> Texts]]

(* EnvFiles::specs: unless an entry says otherwise its file must be there. *)
Missed(w) == {i \in DOMAIN Required : Required[i] /\ w.files[i] = "missing"}

(* envfile::load: a file that does not parse, or a required one that is    *)
(* not there, fails it; of the others the last to name the variable wins.  *)
Loadable(w) == Missed(w) = {} /\ \A i \in DOMAIN Required : w.files[i] # "malformed"
Said(w) ==
  LET by == {i \in DOMAIN Required : w.files[i] \in Values}
  IN  IF by = {} THEN Unset ELSE w.files[CHOOSE i \in by : \A j \in by : j <= i]

Over(x, y) == IF x # Unset THEN x ELSE y

(* child_env: what is inline over what the files say over a split target   *)
(* directory over what a strict child may see of the ambient environment.  *)
Admitted(s, w) ==
  IF s.strict /\ (s.role \in {"base", "term"} \/ s.keyed \/ s.passed) THEN w.ambient ELSE Unset
Declared(s, w) ==
  Over(s.inline, Over(Said(w), IF s.role = "dir" /\ s.split THEN Private ELSE Unset))
Explicit(s, w) == Over(Declared(s, w), Admitted(s, w))

(* spawn_with: a strict child starts from nothing, a loose one from the    *)
(* ambient environment; and some names are set last of all.                *)
Sees(s, w) ==
  CASE s.role = "forced" -> Given
    [] s.role = "term" -> Over(w.ambient, Given)
    [] OTHER -> Over(Explicit(s, w), IF s.strict THEN Unset ELSE w.ambient)

FromFiles(s, w) == s.inline = Unset /\ Said(w) # Unset

(* BUG: the key leaves out what comes from env files.                      *)
Bug_EnvKey(s, w) ==
  [config |-> s, envFile |-> Unset,
   env |-> IF s.keyed /\ ~FromFiles(s, w)
           THEN Over(s.inline, Over(w.ambient, "")) ELSE Unset]

(* fingerprint: what the key holds of the variable. The setting is in it   *)
(* because the configuration's hash is. A variable the files name is keyed *)
(* by the file's value unless it is inline, and then not as a keyed name.  *)
EnvKey(s, w) ==
  [config |-> s,
   envFile |-> IF FromFiles(s, w) THEN Said(w) ELSE Unset,
   env |-> IF s.keyed /\ ~FromFiles(s, w)
           THEN Over(s.inline, Over(w.ambient, "")) ELSE Unset]

(* run_task: files that do not load leave no key and no child; a task that *)
(* sees variables its key cannot account for is never taken from the cache.*)
Cacheable(s, w) == Loadable(w) /\ s.strict

EnvInit == child \in [setting : Settings, world : Worlds]

-----------------------------------------------------------------------------
(* Meant to reach the child without a part in its key: an ambient value of *)
(* the safe base, or one that is passed through.                           *)
Unkeyed(s, w) ==
  ~s.keyed /\ Declared(s, w) = Unset /\ (s.role \in {"base", "term"} \/ s.passed)

(* proc.rs sets TERM after everything else, so a value declared for it is  *)
(* keyed and never seen.                                                   *)
Masked(s, w) == s.role = "term" /\ (s.inline # Unset \/ Said(w) # Unset)

(* The key does not tell a variable that is not set from one that is empty.*)
Alike(w, v) == {w.ambient, v.ambient} = {Unset, ""}

(* A hit stands for a run whose child would have found what the recorded   *)
(* one found: whenever two runs of a task share a key, a variable its      *)
(* strict child may see has the same value in both wherever it comes from, *)
(* but for the ambient ones declared to pass unkeyed.                      *)
EnvKeyed ==
  LET s == child.setting
      w == child.world
  IN  Cacheable(s, w) /\ ~Unkeyed(s, w) /\ ~Masked(s, w) =>
        \A v \in Worlds :
          /\ Cacheable(s, v) /\ ~Masked(s, v) /\ ~Alike(w, v)
          /\ EnvKey(s, v) = EnvKey(s, w)
          => Sees(s, v) = Sees(s, w)
=============================================================================
