------------------------------ MODULE Notices ------------------------------
(***************************************************************************)
(* What the board promises those who read it: a status changes and         *)
(* everybody is owed a look, in one step; a look takes in all that is      *)
(* shown, in one step; and who is owed one gets it. This is the board as   *)
(* Engine has it. BoardTicks, which takes the lock, the mark and the tick  *)
(* one at a time as the code does, implements it.                          *)
(***************************************************************************)
EXTENDS Naturals

CONSTANTS Parties, Below, Statuses, ReadyStatuses

VARIABLES
  shown,   \* shown[p]: the status and the generation of p's node
  view,    \* view[p]: what p knows of those below it
  owed     \* owed[p]: p will look again

noticeVars == <<shown, view, owed>>

Unstarted == [status |-> "pending", generation |-> 0]

NoticeInit ==
  /\ shown = [p \in Parties |-> Unstarted]
  /\ view = [p \in Parties |-> [d \in Below[p] |-> Unstarted]]
  /\ owed \in [Parties -> BOOLEAN]

Shows(p, s) ==
  /\ shown' = [shown EXCEPT ![p] = [status |-> s,
       generation |-> @.generation + (IF s \in ReadyStatuses THEN 1 ELSE 0)]]
  /\ owed' = [q \in Parties |-> TRUE]
  /\ UNCHANGED view

(* It may be owed another all the same: a tick that is late wakes it once   *)
(* more.                                                                   *)
Looks(p) ==
  /\ view' = [view EXCEPT ![p] = [d \in Below[p] |-> shown[d]]]
  /\ \E again \in BOOLEAN : owed' = [owed EXCEPT ![p] = again]
  /\ UNCHANGED shown

(* Something else happens to p's node.                                     *)
Stirs(p) == owed' = [owed EXCEPT ![p] = TRUE] /\ UNCHANGED <<shown, view>>

NoticeNext == \E p \in Parties : Looks(p) \/ Stirs(p) \/ \E s \in Statuses : Shows(p, s)

NoticeSafe == NoticeInit /\ [][NoticeNext]_noticeVars
NoticeSpec == NoticeSafe /\ \A p \in Parties : WF_noticeVars(owed[p] /\ Looks(p))
=============================================================================
