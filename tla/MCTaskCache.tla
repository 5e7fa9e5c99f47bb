---------------------------- MODULE MCTaskCache ----------------------------
(***************************************************************************)
(* Instances of TaskCache for TLC.                                         *)
(***************************************************************************)
EXTENDS TaskCache, TLC

CONSTANTS p, q, t, u, v, big   \* model values

(* Two worktrees build one task, or one of them builds a chain of two and  *)
(* a task apart whose outputs are too large to archive.                    *)
AllTasks   == {t, u, v, big}
AllDeps    == (t :> {}) @@ (u :> {t}) @@ (v :> {}) @@ (big :> {})
AllInputs  == (t :> {1, 2}) @@ (u :> {1}) @@ (v :> {1, 2}) @@ (big :> {1})
TwoOrChain == {(p :> {v}) @@ (q :> {v}), (p :> {t, u}) @@ (q :> {}),
               (p :> {big}) @@ (q :> {})}

One       == {t}
OneDeps   == (t :> {})
OneInputs == (t :> {1, 2})
Alone     == {(p :> {t})}

(* One of them builds a task, the other that and a task apart.             *)
Two       == {t, v}
TwoDeps   == [x \in Two |-> {}]
TwoInputs == [x \in Two |-> {1}]
OneAndTwo == {(p :> {t}) @@ (q :> {t, v})}
=============================================================================
