------------------------------- MODULE Select -------------------------------
(***************************************************************************)
(* Which nodes a command acts on, and in which order (src/config.rs:       *)
(* detect_cycle, topo_closure; src/filter.rs; src/affected.rs; src/cargo.rs*)
(* closure, source_globs; src/main.rs: select, cmd_run). Each question is  *)
(* an initial state.                                                       *)
(***************************************************************************)
EXTENDS Naturals, Sequences, FiniteSets, SequencesExt, FiniteSetsExt

CONSTANTS
  Names,      \* nodes; each is derived from a crate of the same name
  MaxPatterns \* bounds the filters of one command

VARIABLE question

Graphs == [Names -> SUBSET Names]

(* A pattern names some nodes, and may pull in what they depend on and     *)
(* what depends on them: `name...`, `...name`.                             *)
Patterns == [names : (SUBSET Names) \ {{}}, dependencies : BOOLEAN, dependents : BOOLEAN]

-----------------------------------------------------------------------------
(* detect_cycle: depth first; a node met while it is on the stack is a     *)
(* cycle. `mark` is 1 on the stack and 2 when done.                        *)
RECURSIVE Walks(_, _, _)
Walks(deps, n, st) ==
  IF st.cyclic \/ st.mark[n] = 2 THEN st
  ELSE IF st.mark[n] = 1 THEN [st EXCEPT !.cyclic = TRUE]
  ELSE LET on   == [st EXCEPT !.mark[n] = 1]
           over == FoldSet(LAMBDA d, s : Walks(deps, d, s), on, deps[n])
       IN  [over EXCEPT !.mark[n] = 2]

HasCycle(deps) ==
  FoldSet(LAMBDA n, s : Walks(deps, n, s),
          [mark |-> [n \in Names |-> 0], cyclic |-> FALSE], Names).cyclic

(* topo_closure: everything the roots need, dependencies first.            *)
RECURSIVE Visits(_, _, _)
Visits(deps, n, st) ==
  IF n \in st.seen THEN st
  ELSE LET below == FoldSet(LAMBDA d, s : Visits(deps, d, s),
                            [st EXCEPT !.seen = @ \cup {n}], deps[n])
       IN  [below EXCEPT !.out = Append(@, n)]

TopoClosure(deps, roots) ==
  FoldSet(LAMBDA n, s : Visits(deps, n, s), [seen |-> {}, out |-> <<>>], roots).out

-----------------------------------------------------------------------------
(* walk: what is reached from a set of nodes is added to what has been     *)
(* selected, and nothing is looked for beyond a node that already was.     *)
RECURSIVE WalkInto(_, _, _)
WalkInto(next, edges, into) ==
  LET new == edges \ into
  IN  IF new = {} THEN into
      ELSE WalkInto(next, UNION {next[n] : n \in new}, into \cup new)

Reversed(deps) == [n \in Names |-> {m \in Names : n \in deps[m]}]

Bug_PullsIn(deps, into, p) ==   \* a node that was selected is not walked from
  FoldSet(LAMBDA n, s :
            LET down == IF p.dependencies THEN WalkInto(deps, deps[n], s \cup {n}) ELSE s \cup {n}
            IN  IF p.dependents THEN WalkInto(Reversed(deps), Reversed(deps)[n], down)
                                ELSE down,
          into, p.names \ into)

PullsIn(deps, into, p) ==
  FoldSet(LAMBDA n, s :
            LET with == s \cup {n}
                down == IF p.dependencies THEN WalkInto(deps, deps[n], with) ELSE with
            IN  IF p.dependents THEN WalkInto(Reversed(deps), Reversed(deps)[n], down)
                                ELSE down,
          into, p.names)

(* expand: pattern after pattern, into one set.                            *)
Expand(deps, patterns) == FoldLeft(LAMBDA s, p : PullsIn(deps, s, p), {}, patterns)

-----------------------------------------------------------------------------
(* A crate and what it is built from in the workspace; its globs match the *)
(* files of those.                                                         *)
CrateClosure(local, c) == WalkInto(local, local[c], {c})

(* affected::select: what a change touches, and what depends on it.        *)
AffectedBy(deps, local, changed) ==
  LET hit == {n \in Names : CrateClosure(local, n) \cap changed # {}}
  IN  hit \cup UNION {WalkInto(Reversed(deps), Reversed(deps)[n], {}) : n \in hit}

(* cmd_run: --affected narrows what was named, or stands alone.            *)
Targets(deps, named, hit) == IF named = {} THEN hit ELSE named \cap hit

-----------------------------------------------------------------------------
(* What follows what, by any number of edges.                              *)
Beyond(deps) ==
  LET far[i \in 0..Cardinality(Names)] ==
        IF i = 0 THEN deps
        ELSE [n \in Names |-> far[i-1][n] \cup UNION {far[i-1][m] : m \in far[i-1][n]}]
  IN  far[Cardinality(Names)]

Cyclic(deps) == \E n \in Names : n \in Beyond(deps)[n]
Acyclic == {deps \in Graphs : ~Cyclic(deps)}

SelectInit ==
  question \in [kind : {"order"}, deps : Graphs, roots : SUBSET Names]
          \cup [kind : {"filter"}, deps : Acyclic,
                patterns : UNION {[1..k -> Patterns] : k \in 1..MaxPatterns}
                             \cup [1..MaxPatterns + 1 -> {one \in Patterns : Cardinality(one.names) = 1}]]
          \cup [kind : {"affected"}, deps : Acyclic, local : Acyclic,
                changed : SUBSET Names, named : SUBSET Names]

(* A plan is refused if and only if it has a cycle; otherwise it holds     *)
(* what the roots need and nothing else, every node once and after all it  *)
(* depends on.                                                             *)
Ordered(q) ==
  IF Cyclic(q.deps) THEN HasCycle(q.deps)
  ELSE LET order == TopoClosure(q.deps, q.roots)
       IN  /\ ~HasCycle(q.deps)
           /\ ToSet(order) = q.roots \cup UNION {Beyond(q.deps)[n] : n \in q.roots}
           /\ \A i, j \in DOMAIN order :
                /\ i # j => order[i] # order[j]
                /\ order[j] \in q.deps[order[i]] => j < i

(* --affected leaves nothing out whose sources, or the sources of anything *)
(* it depends on, were changed; and takes in nothing else. That holds of   *)
(* the plan, which adds what a target needs.                               *)
BuiltFrom(q, n) ==
  LET nodes == {n} \cup Beyond(q.deps)[n]
  IN  nodes \cup UNION {Beyond(q.local)[m] : m \in nodes}

CoversChange(q) ==
  Targets(q.deps, q.named, AffectedBy(q.deps, q.local, q.changed))
    = {n \in Names : BuiltFrom(q, n) \cap q.changed # {}} \cap (IF q.named = {} THEN Names ELSE q.named)

(* What a pattern asks for: its names, and what they reach along its dots. *)
Sides(deps, p) == (IF p.dependencies THEN {deps} ELSE {})
                    \cup (IF p.dependents THEN {Reversed(deps)} ELSE {})

Asked(deps, p) ==
  p.names \cup UNION {Beyond(next)[n] : next \in Sides(deps, p), n \in p.names}

(* What the patterns before the i-th ask for, and its names other than n.  *)
AskedElse(q, i, n) ==
  UNION {Asked(q.deps, q.patterns[j]) : j \in 1..i-1}
    \cup Asked(q.deps, [q.patterns[i] EXCEPT !.names = @ \ {n}])

(* What n reaches without going on from a node of `stops`.                 *)
ReachedPast(next, stops, n) ==
  Beyond([m \in Names |-> IF m \in stops \ {n} THEN {} ELSE next[m]])[n]

(* No filter takes in what none asks for. Every one selects what it names  *)
(* and, along its dots, all it reaches but by going on from what an earlier*)
(* one, or another of its names, asks for. Where the dots are all on one   *)
(* side, and nothing without dots comes first, the selection is the union  *)
(* of what is asked for; it is not where sides are mixed (filter.rs: walk).*)
Filtered(q) ==
  LET chosen == Expand(q.deps, q.patterns)
      every  == DOMAIN q.patterns
      union  == UNION {Asked(q.deps, q.patterns[i]) : i \in every}
      sides  == [i \in every |-> Sides(q.deps, q.patterns[i])]
  IN  /\ chosen \subseteq union
      /\ \A i \in every : \A n \in q.patterns[i].names :
           /\ n \in chosen
           /\ \A next \in sides[i] : ReachedPast(next, AskedElse(q, i, n), n) \subseteq chosen
      /\ (\E next \in {q.deps, Reversed(q.deps)} :
            /\ \A i \in every : sides[i] \subseteq {next}
            /\ \A i, j \in every : i < j /\ sides[i] = {} => sides[j] = {})
         => chosen = union

(* Each question is answered as asked.                                     *)
SelectionRight ==
  CASE question.kind = "order"    -> Ordered(question)
    [] question.kind = "affected" -> CoversChange(question)
    [] question.kind = "filter"   -> Filtered(question)
=============================================================================
