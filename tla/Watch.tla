------------------------------- MODULE Watch -------------------------------
(***************************************************************************)
(* From an edit to the runs it causes (src/watch.rs; src/engine.rs:        *)
(* spawn_watch_dispatch, note_changed, take_changed; src/plan.rs:          *)
(* dispatch_roots, watch_quiet).                                           *)
(*                                                                         *)
(* The OS, or a scan of the tree, reports changed paths; the debounce      *)
(* thread groups them into a batch; the handler turns the batch into a set *)
(* of paths; the dispatcher notes them for every node that watches one,    *)
(* and signals the upstream-most of those. The rest of the graph is told   *)
(* by its dependencies' new results.                                       *)
(***************************************************************************)
EXTENDS Naturals, Sequences, FiniteSets

CONSTANTS
  Files,      \* the files anyone watches
  Folder,     \* a directory, which the OS reports in place of what is in it
  InFolder,   \* the files in it
  Watchers,   \* the nodes that watch something
  Watched,    \* Watched[n]: the files n's globs match
  Feeds,      \* Feeds[n]: the nodes n depends on, directly; acyclic
  Heeds,      \* the nodes that a change restarts: not on_change = "ignore"
  QueueCap    \* bounds the batches the dispatcher is behind

(* A plan's edges lead to its nodes and make no cycle.                     *)
ASSUME WatchAssumption ==
  /\ Watched \in [Watchers -> SUBSET Files] /\ Feeds \in [Watchers -> SUBSET Watchers]
  /\ \E rank \in [Watchers -> 0..Cardinality(Watchers)] :
       \A n \in Watchers : \A m \in Feeds[n] : rank[m] < rank[n]
  /\ InFolder \subseteq Files /\ Folder \notin Files
  /\ Heeds \subseteq Watchers /\ QueueCap \in Nat

VARIABLES
  polls,      \* the backend scans the tree, and is told nothing
  unscanned,  \* files edited since the last scan
  raw,        \* events in the debouncer's channel
  bundle,     \* the events of the batch being gathered; {} when there is none
  longest,    \* LONGEST_BATCH has passed since its first
  batches,    \* the sets of paths on their way to the dispatcher
  noted,      \* noted[n]: Engine.changed
  due,        \* due[n]: a Restart is queued for n
  moved,      \* moved[n]: something n depends on has a new result
  busy,       \* busy[n]: n runs, and a result that others wait for is not out yet
  stale       \* stale[n]: files n watches edited since its last run began

eventVars == <<polls, unscanned, raw, bundle, longest>>
nodeVars  == <<noted, due, moved, busy, stale>>
watchVars == <<eventVars, batches, nodeVars>>

NobodyIs == [n \in Watchers |-> FALSE]

WatchInit ==
  /\ polls \in BOOLEAN /\ unscanned = {} /\ raw = {} /\ bundle = {} /\ longest = FALSE
  /\ batches = <<>> /\ noted = [n \in Watchers |-> {}]
  /\ due = NobodyIs /\ moved = NobodyIs /\ busy = NobodyIs
  /\ stale = [n \in Watchers |-> {}]

-----------------------------------------------------------------------------
(* The backends. The OS reports the path, or for some files the directory  *)
(* it is in and nothing else. A scan reports what differs from the last.   *)
Edits(f) ==
  /\ stale' = [n \in Watchers |-> stale[n] \cup ({f} \cap Watched[n])]
  /\ IF polls THEN unscanned' = unscanned \cup {f} /\ UNCHANGED raw
              ELSE raw' = raw \cup {IF f \in InFolder THEN Folder ELSE f} /\ UNCHANGED unscanned
  /\ UNCHANGED <<polls, bundle, longest, batches, noted, due, moved, busy>>

Scans ==
  /\ unscanned # {} /\ raw' = raw \cup unscanned /\ unscanned' = {}
  /\ UNCHANGED <<polls, bundle, longest, batches, nodeVars>>

(* Reading a directory is reported too. is_access drops that, as does      *)
(* Unchanged where a read is reported as a modification.                   *)
Bug_Read(dirs, events) == events \cup dirs   \* a read is an event like another

Read(dirs, events) == events

-----------------------------------------------------------------------------
(* debounce_loop: a batch ends when nothing new has come for the quiet     *)
(* window, or when the longest wait is over.                               *)
Gathers(e) ==
  /\ e \in raw /\ ~longest
  /\ raw' = raw \ {e} /\ bundle' = bundle \cup {e}
  /\ UNCHANGED <<polls, unscanned, longest, batches, nodeVars>>

LongestPasses ==
  /\ bundle # {} /\ ~longest /\ longest' = TRUE
  /\ UNCHANGED <<polls, unscanned, raw, bundle, batches, nodeVars>>

(* The handler: a directory stands for the files in it, one level down.    *)
Paths(events) == (events \cap Files) \cup (IF Folder \in events THEN InFolder ELSE {})

BatchEnds == raw = {} \/ longest

Delivers ==
  /\ bundle # {} /\ BatchEnds /\ Len(batches) < QueueCap
  /\ batches' = Append(batches, Paths(bundle))
  /\ raw' = Read(bundle \cap {Folder}, raw)
  /\ bundle' = {} /\ longest' = FALSE
  /\ UNCHANGED <<polls, unscanned, nodeVars>>

-----------------------------------------------------------------------------
(* What each node depends on, directly or not: the least set that has what *)
(* it depends on, and what they do.                                        *)
Closed(S) == \A m \in S : Feeds[m] \subseteq S

Upstream ==
  [n \in Watchers |-> {m \in Watchers :
     \A S \in SUBSET Watchers : Feeds[n] \subseteq S /\ Closed(S) => m \in S}]

Bug_Roots(hits) == {n \in hits : Feeds[n] = {}}   \* only what depends on nothing

Roots(hits) == {n \in hits : Upstream[n] \cap hits = {}}

(* spawn_watch_dispatch: one set of paths.                                 *)
Dispatches ==
  /\ batches # <<>> /\ batches' = Tail(batches)
  /\ LET paths == Head(batches)
         hits  == {n \in Watchers : Watched[n] \cap paths # {}}
     IN  /\ noted' = [n \in Watchers |-> noted[n] \cup (Watched[n] \cap paths)]
         /\ due' = [n \in Watchers |-> due[n] \/ n \in Roots(hits) \cap Heeds]
  /\ UNCHANGED <<eventVars, moved, busy, stale>>

(* A node starts, or starts over, when it was told to or a dependency has  *)
(* a new result, and its dependencies have theirs. It takes what was noted *)
(* for it. Control and gate are modules of their own: Ctl, Engine.         *)
Begins(n) ==
  /\ due[n] \/ moved[n]
  /\ \A m \in Feeds[n] : ~busy[m] /\ ~due[m] /\ ~moved[m]
  /\ due' = [due EXCEPT ![n] = FALSE] /\ moved' = [moved EXCEPT ![n] = FALSE]
  /\ busy' = [busy EXCEPT ![n] = \E m \in Watchers : n \in Feeds[m]]
  /\ noted' = [noted EXCEPT ![n] = {}]
  /\ stale' = [stale EXCEPT ![n] = {}]
  /\ UNCHANGED <<eventVars, batches>>

Results(n) ==
  /\ busy[n] /\ busy' = [busy EXCEPT ![n] = FALSE]
  /\ moved' = [m \in Watchers |-> moved[m] \/ n \in Feeds[m]]
  /\ UNCHANGED <<eventVars, batches, noted, due, stale>>

WatchNext ==
  \/ \E f \in Files : Edits(f)
  \/ \E e \in Files \cup {Folder} : Gathers(e)
  \/ Scans \/ LongestPasses \/ Delivers \/ Dispatches
  \/ \E n \in Watchers : Begins(n) \/ Results(n)

(* The threads run, time passes, and commands end; no event waits in the   *)
(* channel for ever, which is a queue. Nobody has to edit, or to stop.     *)
WatchFair ==
  /\ WF_watchVars(Scans) /\ WF_watchVars(LongestPasses)
  /\ \A e \in Files \cup {Folder} : SF_watchVars(Gathers(e))
  /\ WF_watchVars(Delivers) /\ WF_watchVars(Dispatches)
  /\ \A n \in Watchers : WF_watchVars(Begins(n)) /\ WF_watchVars(Results(n))

WatchSpec == WatchInit /\ [][WatchNext]_watchVars /\ WatchFair

-----------------------------------------------------------------------------
(* A node an edit was noted for is coming, if edits restart it: it was     *)
(* signalled, or something it depends on was, or runs.                     *)
Coming(n) == \E m \in Upstream[n] \cup {n} : due[m] \/ moved[m] \/ (m # n /\ busy[m])

HitsPropagate == \A n \in Heeds : noted[n] # {} => Coming(n)

(* An edit nobody has run for yet is on its way, to a node that is coming. *)
NoEditLost ==
  /\ \A n \in Watchers :
       stale[n] \subseteq noted[n] \cup unscanned \cup Paths(raw \cup bundle)
                            \cup UNION {batches[i] : i \in DOMAIN batches}
  /\ HitsPropagate

(* Every edit is followed by a run that began after it: on a node that     *)
(* depends on nothing whatever else is edited meanwhile, on every node     *)
(* once the editing stops. And when it stops, so do the runs.              *)
EditsStop == <>[][\A f \in Files : ~Edits(f)]_watchVars

EditsHeard ==
  /\ \A n \in Watchers, f \in Files :
       Feeds[n] = {} => (f \in stale[n] ~> f \notin stale[n])
  /\ EditsStop => <>[](\A n \in Watchers : stale[n] = {})
  /\ EditsStop => <>[][\A n \in Watchers : ~Begins(n)]_watchVars
=============================================================================
