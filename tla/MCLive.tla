------------------------------- MODULE MCLive -------------------------------
(***************************************************************************)
(* Instances for TLC of the parts that have to make progress and share no  *)
(* state with each other: a control queue, a process group and those who   *)
(* end it, a service that rebuilds itself, the way of an edit, and the     *)
(* ticks of the board. A behaviour is one of one part; the others stay as  *)
(* they began.                                                             *)
(***************************************************************************)
EXTENDS CtlInv, MCWatch, Procs, SelfReload, BoardTicks

CONSTANTS watcher, tui   \* model values: who sends Restarts

VARIABLE part

Parts == {"ctl", "procs", "reload", "watch", "board"}
liveVars == <<vars, watchVars, procVars, reloadVars, tickVars, part>>

(* Where a part starts that is not looked at.                              *)
LiveInit ==
  /\ part \in Parts
  /\ CtlInit /\ (part # "ctl" => rcv = "idle")
  /\ ProcInit /\ (part # "procs" => deaf = {})
  /\ WatchInit /\ (part # "watch" => polls)
  /\ ReloadInit
  /\ TickInit /\ (part # "board" => unseen = [p_ \in Parties |-> FALSE])

LiveNext ==
  \/ part = "ctl" /\ Next /\ UNCHANGED <<watchVars, procVars, reloadVars, tickVars, part>>
  \/ part = "procs" /\ ProcNext /\ UNCHANGED <<vars, watchVars, reloadVars, tickVars, part>>
  \/ part = "reload" /\ ReloadNext /\ UNCHANGED <<vars, watchVars, procVars, tickVars, part>>
  \/ part = "watch" /\ WatchNext /\ UNCHANGED <<vars, procVars, reloadVars, tickVars, part>>
  \/ part = "board" /\ TickNext /\ UNCHANGED <<vars, watchVars, procVars, reloadVars, part>>
  \/ part # "ctl" /\ UNCHANGED liveVars   \* only a control queue may not be stuck

(* Where they start, nothing of the fairness of the other three is enabled. *)
LiveSpec ==
  /\ LiveInit /\ [][LiveNext]_liveVars
  /\ WF_vars(part = "ctl" /\ Supervisor)
  /\ WF_reloadVars(part = "reload" /\ StartEnds) /\ ReloadFair
  /\ ProcFair /\ WatchFair /\ TickFair
=============================================================================
