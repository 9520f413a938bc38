--------------------------- MODULE MCGuardedCommit ---------------------------
(***************************************************************************)
(* A small instance of GuardedCommit for TLC: two branches, two contents   *)
(* of one file, a first commit, its successor, and the commit without a    *)
(* change that could follow it.                                            *)
(***************************************************************************)
EXTENDS GuardedCommit

CONSTANTS c1, c2, c3, t0, t1, t2

Line    == {<<c1, c1>>, <<c1, c2>>, <<c1, c3>>,
            <<c2, c2>>, <<c2, c3>>, <<c3, c3>>}
Content == [c \in Commits |-> IF c = c1 THEN t1 ELSE t2]
Parent  == [c \in Commits |-> CASE c = c1 -> Nil [] c = c2 -> c1 [] c = c3 -> c2]
Listed  == [p \in Trees \X Trees |-> IF p[1] = p[2] THEN {} ELSE {"file"}]

=============================================================================
