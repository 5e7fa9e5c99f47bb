--------------------------------- MODULE Up ---------------------------------
(***************************************************************************)
(* `turborust up` from its start to its end, and the control socket it     *)
(* serves meanwhile (cmd_up in src/main.rs, src/control.rs).       *)
(* Several of them may be started in one workspace: they share the path of *)
(* the socket, and whoever asks for a board or a terminal finds the one    *)
(* that listens there.                                                     *)
(***************************************************************************)

CONSTANTS Ups    \* terminals in which `turborust up` is run, again and again

Nobody == "nobody"

ASSUME UpAssumption == Nobody \notin Ups

VARIABLES
  run,      \* where cmd_up of each stands
  warned,   \* the ones asked to stop since they have handlers for it
  sock,     \* where its socket task stands
  file,     \* the one whose socket is at the path
  listens   \* the ones with an open listener
VARIABLES
  rivals,   \* who was opening its socket while another was
  robbed,   \* whose file, or the stale one it had seen, another's end took
  turned    \* who was refused while another was listening

runVars == <<run, warned>>
sockVars == <<sock, file, listens, turned>>
tales == <<rivals, robbed>>
upVars == <<runVars, sockVars, tales>>

Live == {x \in Ups : run[x] # "gone"}

(* The ones that have begun to set up a socket and do not serve it yet.    *)
Opening == {x \in Live : sock[x] \in {"looks", "stale", "binds", "bound"}}

(* transport::connect: who asks at the path finds the one listening there, *)
(* or that none is running.                                                *)
Reached == IF file \in listens THEN file ELSE Nobody

UpInit ==
  /\ run = [x \in Ups |-> "gone"]
  /\ sock = [x \in Ups |-> "idle"]
  /\ file = Nobody
  /\ listens = {} /\ warned = {}
  /\ rivals = {} /\ robbed = {} /\ turned = {}

To(x, at) == run' = [run EXCEPT ![x] = at]

(* The process ends, and what it had and what is told of it with it, but   *)
(* for the file at the path.                                               *)
Vanishes(x) ==
  /\ To(x, "gone") /\ sock' = [sock EXCEPT ![x] = "idle"]
  /\ listens' = listens \ {x} /\ warned' = warned \ {x}
  /\ rivals' = rivals \ {x} /\ robbed' = robbed \ {x} /\ turned' = turned \ {x}

SockTo(x, at) ==
  /\ sock' = [sock EXCEPT ![x] = at]
  /\ turned' = IF at = "refused" /\ listens \ {x} # {} THEN turned \cup {x} ELSE turned

-----------------------------------------------------------------------------
(* The command: configuration, plan, watcher and engine; the signals, so   *)
(* that no child ever runs while one would end turborust outright; the     *)
(* supervisors, the watch dispatch and the socket; then waiting to be      *)
(* asked to stop.                                                           *)
Begins(x) ==
  /\ run[x] = "gone" /\ To(x, "loads")
  /\ UNCHANGED <<warned, sockVars, tales>>

Arms(x) == /\ run[x] = "loads" /\ To(x, "armed")
           /\ UNCHANGED <<warned, sockVars, tales>>

Supervises(x) ==
  /\ run[x] = "armed" /\ To(x, "runs")
  /\ SockTo(x, "looks")
  /\ rivals' = rivals \cup (IF Opening = {} THEN {} ELSE Opening \cup {x})
  /\ UNCHANGED <<warned, file, listens, robbed>>

(* Before there are handlers a request ends the process. Then the first is *)
(* kept until it is asked for; and the next, or any once a shutdown has    *)
(* begun, kills every child and exits, with the socket's file left behind. *)
Requested(x) ==
  /\ x \in Live
  /\ \/ run[x] = "loads" /\ Vanishes(x)
     \/ /\ run[x] \in {"armed", "runs"} /\ x \notin warned
        /\ warned' = warned \cup {x} /\ UNCHANGED <<run, sockVars, tales>>
     \/ /\ run[x] # "loads" /\ (x \in warned \/ run[x] \notin {"armed", "runs"})
        /\ Vanishes(x)
  /\ UNCHANGED file

(* The request is read, or the dashboard is quit or fails.                 *)
Stops(x) == /\ run[x] = "runs" /\ To(x, "stops")
            /\ UNCHANGED <<warned, sockVars, tales>>

(* shutdown returns with every child stopped; the file at the path is then *)
(* removed, whoever's it is; and the process ends.                         *)
ShutsDown(x) ==
  /\ run[x] = "stops" /\ To(x, "stopped")
  /\ UNCHANGED <<warned, sockVars, tales>>

RemovesFile(x) ==
  /\ run[x] = "stopped" /\ To(x, "leaves")
  /\ file' = Nobody
  /\ robbed' = robbed \cup {y \in Live \ {x} : Reached = y \/ sock[y] = "stale"}
  /\ UNCHANGED <<warned, sock, listens, turned, rivals>>

(* Also where what it loads is refused.                                    *)
Leaves(x) ==
  /\ run[x] \in {"loads", "leaves"} /\ Vanishes(x)
  /\ UNCHANGED file

(* Killed from outside: nothing is cleaned up.                             *)
IsKilled(x) ==
  /\ x \in Live /\ Vanishes(x)
  /\ UNCHANGED file

-----------------------------------------------------------------------------
(* BUG: any file at the path is taken for a running `up`.                  *)
Bug_Looks(x) ==
  /\ x \in Live /\ sock[x] = "looks"
  /\ SockTo(x, IF file = Nobody THEN "binds" ELSE "refused")
  /\ UNCHANGED <<runVars, file, listens, tales>>

(* reclaim: a file that nobody listens behind is what a killed `up` left.  *)
Looks(x) ==
  /\ x \in Live /\ sock[x] = "looks"
  /\ SockTo(x, IF file = Nobody THEN "binds"
               ELSE IF Reached = Nobody THEN "stale" ELSE "refused")
  /\ UNCHANGED <<runVars, file, listens, tales>>

(* Removed by its name: what is there now may be another's. It is an error *)
(* when nothing is.                                                        *)
Reclaims(x) ==
  /\ x \in Live /\ sock[x] = "stale"
  /\ file' = Nobody
  /\ SockTo(x, IF file = Nobody THEN "refused" ELSE "binds")
  /\ UNCHANGED <<runVars, listens, tales>>

Binds(x) ==
  /\ x \in Live /\ sock[x] = "binds"
  /\ \/ file = Nobody /\ file' = x /\ listens' = listens \cup {x} /\ SockTo(x, "bound")
     \/ file # Nobody /\ SockTo(x, "refused") /\ UNCHANGED <<file, listens>>
  /\ UNCHANGED <<runVars, tales>>

(* restrict, by the path as well: with no file there it fails, and the     *)
(* listener is dropped. Then clients are accepted until the process ends.  *)
Serves(x) ==
  /\ x \in Live /\ sock[x] = "bound"
  /\ SockTo(x, IF file = Nobody THEN "refused" ELSE "serves")
  /\ listens' = IF file = Nobody THEN listens \ {x} ELSE listens
  /\ UNCHANGED <<runVars, file, tales>>

UpNext == \E x \in Ups :
  \/ Begins(x) \/ Arms(x) \/ Supervises(x) \/ Requested(x) \/ Stops(x)
  \/ ShutsDown(x) \/ RemovesFile(x) \/ Leaves(x) \/ IsKilled(x)
  \/ Looks(x) \/ Reclaims(x) \/ Binds(x) \/ Serves(x)

UpSpec == UpInit /\ [][UpNext]_upVars

-----------------------------------------------------------------------------
(* An `up` that opened its socket while no other did is found at the path  *)
(* until it begins to leave, unless another has ended meanwhile; and it is *)
(* not turned away by what a killed one left: only another that listens    *)
(* turns it away, or takes its file by ending. (control.rs reclaim, serve; *)
(* main.rs:995.)                                                           *)
UpAnswers ==
  \A x \in Live \ (rivals \cup robbed) : run[x] # "leaves" =>
    /\ sock[x] = "serves" => Reached = x
    /\ sock[x] = "refused" => x \in turned
=============================================================================
