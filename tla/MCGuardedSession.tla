-------------------------- MODULE MCGuardedSession --------------------------
(***************************************************************************)
(* A small instance of GuardedSession for TLC: one branch that the built-in *)
(* rules protect, one that only a configuration protects, and the policies *)
(* and requests that make the guards of a session disagree.                *)
(***************************************************************************)
EXTENDS GuardedSession

\* Also protects the feature branch, asks an explicit confirmation of medium
\* risks and turns staging off.
Strict ==
  [DefaultPolicy EXCEPT !.protected = {"feature"}, !.medium = ExplicitConfirmation,
                        !.disabled = {"Stage"}]

TwoPolicies == {DefaultPolicy, Strict}

Request(kind, target) == [kind |-> kind, target |-> target]

Commit    == Request("Commit", NoBranch)
Push      == Request("PushCurrentBranch", NoBranch)
StageOne  == Request("StagePaths", NoBranch)
Abort     == Request("MergeAbort", NoBranch)
OntoMain  == Request("Rebase", "main")
ToFeature == Request("Checkout", "feature")

Singles   == {StageOne, Abort, OntoMain}
Sequences == {<<ToFeature, Commit, Push>>}

=============================================================================
