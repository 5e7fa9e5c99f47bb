------------------------------- MODULE Resolve -------------------------------
(***************************************************************************)
(* From what turborust.toml declares of a service to what its supervisor   *)
(* does: which declarations are accepted (src/config.rs, plan.rs), the *)
(* node each becomes, the settings its lifecycle takes from that, and how  *)
(* these decide what readiness, an edit and a check mean for it            *)
(* (src/lifecycle.rs).                                                 *)
(***************************************************************************)

(* A name or a value stands as whether, or as which of the kinds the code  *)
(* tells apart, it was given: a crate that has a binary, has none or is    *)
(* not in the workspace; a readiness probe that asks (a port, a URL or a   *)
(* command), waits for a line, does both, or names neither; a liveness     *)
(* check that names nothing to ask, allows no miss, or is right.           *)
Health   == {"none", "asks", "log", "both", "neither"}
Liveness == {"none", "unasked", "zero", "asks"}
OnChange == {"restart", "queue", "signal", "ignore"}
Reload   == {"restart", "self"}

Declarations ==
  [cmd : BOOLEAN, serve : BOOLEAN, port : BOOLEAN, watch : BOOLEAN,
   crate : {"none", "bin", "lib", "unknown"},
   health : Health, liveness : Liveness,
   on_change : OnChange, signal : BOOLEAN,
   reload : Reload, reloading : BOOLEAN]

VARIABLE declared   \* a service's section of turborust.toml

HasCmd(d) == d.cmd \/ d.crate = "bin"

(* The probes that wait for a line. *)
LogProbes == {"log", "both"}

(* BUG: on_change is not looked at when the service reloads itself.        *)
Bug_CheckReload(d) ==
  CASE d.reload = "restart" -> ~d.reloading
    [] d.reload = "self" -> d.reloading => d.health \in LogProbes

(* check_reload: "Rejects reload settings that would be silently ignored." *)
CheckReload(d) ==
  CASE d.reload = "restart" -> ~d.reloading
    [] d.reload = "self" -> /\ d.on_change \in {"restart", "ignore"}
                            /\ d.reloading => d.health \in LogProbes

(* validate, resolve_node: a crate has to be there, and to have something  *)
(* to run where no command is given, also for a service that is hosted.    *)
Accepted(d) ==
  /\ d.cmd \/ d.serve \/ d.crate # "none"
  /\ d.crate # "unknown" /\ (d.crate = "lib" => d.cmd)
  /\ CheckReload(d)
  /\ d.liveness \notin {"unasked", "zero"}

(* The node and its ServiceConfig: the sources are the crate's where none  *)
(* are named, and a port, or that of a hosted directory, is asked where no *)
(* probe is.                                                               *)
Configured(d) ==
  [has_cmd |-> HasCmd(d), port |-> d.port,
   sources |-> IF d.watch THEN "named" ELSE IF d.crate # "none" THEN "derived" ELSE "none",
   probe   |-> IF d.health # "none" THEN d.health
               ELSE IF d.port THEN "port" ELSE IF d.serve THEN "served" ELSE "none",
   on_change |-> d.on_change, signal |-> d.signal, reload |-> d.reload,
   follows |-> d.reload = "self" /\ d.reloading,
   checks  |-> d.liveness = "asks"]

-----------------------------------------------------------------------------
(* Service::after_gate, Spawning, ready_probe: what makes it ready, all of *)
(* what its probe names. Without a command it is as soon as its            *)
(* dependencies are.                                                       *)
ReadyBy(n) == IF ~n.has_cmd THEN "gate" ELSE IF n.probe = "none" THEN "spawn" ELSE n.probe

(* What a Restart, which is what an edit sends, does in each phase that    *)
(* hears it: nothing where no source is watched.                           *)
OnEdit(n, phase) ==
  IF n.sources = "none" THEN "nothing" ELSE
  CASE phase \in {"parked", "backoff", "served"} -> "anew"
    [] phase = "starting" ->
         IF n.on_change = "restart" /\ n.reload = "restart" THEN "anew" ELSE "nothing"
    [] phase = "running" ->
         IF n.reload = "self" \/ n.on_change = "ignore" THEN "nothing"
         ELSE IF n.on_change # "signal" THEN "anew"
         ELSE IF n.signal THEN "signal" ELSE "complaint"

Phases(n) == IF n.has_cmd THEN {"starting", "running", "backoff", "parked"} ELSE {"served"}

(* How a rebuild of its own is known to be over.                           *)
RebuildEnds(n) == IF ~n.has_cmd \/ ~n.follows THEN "unfollowed"
                  ELSE IF n.probe \in LogProbes THEN "line" ELSE "never"

(* All that a service's settings decide of its supervision.                *)
Behaves(n) ==
  [ready |-> ReadyBy(n), edit |-> [phase \in Phases(n) |-> OnEdit(n, phase)],
   rebuild |-> RebuildEnds(n), checked |-> n.has_cmd /\ n.checks,
   reclaims |-> n.has_cmd /\ n.port]

ResolveInit == declared \in Declarations

-----------------------------------------------------------------------------
Heeded == {"port", "health", "liveness", "on_change", "reload", "reloading"}

Ways == [f \in Heeded |-> {e[f] : e \in Declarations}]

(* "`ignore` is accepted because it says the same thing".                  *)
SaysTheSame(d, e, f) ==
  \/ f = "on_change" /\ d.reload = "self"
       /\ {d.on_change, e.on_change} = {"restart", "ignore"}
  \/ f = "reload" /\ d.on_change = "ignore"

(* Nothing that a service with a command and watched sources says of its   *)
(* readiness, its changes and its checks is silently ignored: whichever    *)
(* setting is written differently, either that is refused or the           *)
(* supervisor does something else. And a rebuild whose beginning is looked *)
(* for has an end that is. (check_reload: "Each of these used to be a way  *)
(* to write a config that looked supervised and was not".)                 *)
SettingsHeard ==
  LET d == declared IN
  Accepted(d) /\ HasCmd(d) /\ Configured(d).sources # "none" =>
    /\ RebuildEnds(Configured(d)) # "never"
    /\ \A f \in Heeded : \A v \in Ways[f] \ {d[f]} :
         LET e == [d EXCEPT ![f] = v] IN
         Accepted(e) /\ ~SaysTheSame(d, e, f)
           => Behaves(Configured(e)) # Behaves(Configured(d))
=============================================================================
