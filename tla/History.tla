------------------------------ MODULE History ------------------------------
(***************************************************************************)
(* What happened to every node, kept in a bounded history that forgets     *)
(* nothing (src/state.rs: apply, History, AppState::record). The lifecycle *)
(* fields of a node change only by a fact; an entry that falls off the     *)
(* front of the history is folded into `base`.                             *)
(***************************************************************************)
EXTENDS Naturals, Sequences, FiniteSets

CONSTANTS
  Recorded,      \* the nodes of the plan
  Statuses,      \* the statuses a fact may set
  ReadyStatuses, \* those dependents may start on
  FailStatuses,  \* those counted as a failure
  Pids,          \* what a spawn or a pid report may carry
  HistoryCap,    \* entries kept in detail
  MaxFacts       \* bounds the facts recorded

ASSUME HistoryAssumption == HistoryCap \in Nat \ {0}

VARIABLES
  lives,   \* lives[n]: the lifecycle half of n's NodeState
  base,    \* base[n]: what the entries dropped so far made of n
  entries, \* the facts kept, oldest first
  nextFact,\* the number of the next fact
  tallies  \* tallies[n]: restarts and failures, counted as they were recorded

historyVars == <<lives, base, entries, nextFact, tallies>>

Facts == [kind : {"status"}, what : Statuses] \cup [kind : {"spawned", "pid"}, what : Pids]
           \cup [kind : {"reason", "restarted"}, what : {"why"}]

Seed == [n \in Recorded |-> [status |-> "pending", reason |-> "none", restarts |-> 0,
                             pid |-> "none", startedAt |-> 0, generation |-> 0]]

HistInit ==
  /\ lives = Seed /\ base = Seed /\ entries = <<>> /\ nextFact = 1
  /\ tallies = [n \in Recorded |-> [restarts |-> 0, failures |-> 0]]

(* apply: the one function the live state and a replay are both built by.  *)
Turned(life, e) ==
  CASE e.fact.kind = "status" -> [life EXCEPT !.status = e.fact.what,
         !.generation = @ + (IF e.fact.what \in ReadyStatuses THEN 1 ELSE 0)]
    [] e.fact.kind = "reason"    -> [life EXCEPT !.reason = e.fact.what]
    [] e.fact.kind = "restarted" -> [life EXCEPT !.reason = e.fact.what, !.restarts = @ + 1]
    [] e.fact.kind = "spawned"   -> [life EXCEPT !.pid = e.fact.what, !.startedAt = e.seq]
    [] OTHER                     -> [life EXCEPT !.pid = e.fact.what]

Apply(ns, e) == [ns EXCEPT ![e.node] = Turned(@, e)]

(* History::push.                                                          *)
Bug_Push(e) ==   \* the oldest entry is dropped, not folded
  /\ base' = base
  /\ entries' = Append(IF Len(entries) = HistoryCap THEN Tail(entries) ELSE entries, e)
  /\ nextFact' = nextFact + 1
  /\ UNCHANGED tallies

Push(e) ==
  LET full == Len(entries) = HistoryCap IN
  /\ base' = IF full THEN Apply(base, Head(entries)) ELSE base
  /\ entries' = Append(IF full THEN Tail(entries) ELSE entries, e)
  /\ nextFact' = nextFact + 1
  /\ tallies' = [tallies EXCEPT ![e.node] =
       [restarts |-> @.restarts + (IF e.fact.kind = "restarted" THEN 1 ELSE 0),
        failures |-> @.failures + (IF e.fact.kind = "status" /\ e.fact.what \in FailStatuses
                                   THEN 1 ELSE 0)]]

(* AppState::record, for a node of the plan; other facts are dropped.      *)
Records(n, fact) ==
  LET e == [seq |-> nextFact, node |-> n, fact |-> fact] IN
  /\ nextFact <= MaxFacts
  /\ lives' = Apply(lives, e)
  /\ Push(e)

HistNext == \E n \in Recorded, fact \in Facts : Records(n, fact)

HistSpec == HistInit /\ [][HistNext]_historyVars

(* History::project: the lives, from nothing but the history. Replay[i] is *)
(* what is known after the first i entries.                                *)
Replay[i \in 0..Len(entries)] == IF i = 0 THEN base ELSE Apply(Replay[i - 1], entries[i])

Project == Replay[Len(entries)]

(* However much has been summarised, a replay gives every node its present *)
(* life, and the tallies still count its restarts.                         *)
HistoryWhole ==
  /\ Project = lives
  /\ \A n \in Recorded : tallies[n].restarts = lives[n].restarts
=============================================================================
