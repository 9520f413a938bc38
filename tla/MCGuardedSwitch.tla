-------------------------- MODULE MCGuardedSwitch --------------------------
(***************************************************************************)
(* A small instance of GuardedSwitch for TLC: a fork of three commits, a   *)
(* remote branch, and a local branch that has the short name of the remote *)
(* one as soon as somebody creates it.                                     *)
(***************************************************************************)
EXTENDS GuardedSwitch

CONSTANTS c1, c2, c3

History == {<<c, c>> : c \in {c1, c2, c3}} \cup {<<c1, c2>>, <<c1, c3>>}

Tracks == [n \in RemoteNames |-> "topic"]

On(op, name, base) == [op |-> op, name |-> name, base |-> base]
Wanted ==
  {On("checkout", "topic", Nil), On("checkout", "origin/topic", Nil),
   On("create", "topic", Nil), On("create", "topic", "origin/topic"),
   On("merge", "topic", Nil), On("merge", "origin/topic", Nil),
   On("rebase", "topic", Nil)}

MCInit ==
  /\ Init
  /\ head \in {"main", c1}
  /\ tip["main"] = c1
  /\ tip["origin/topic"] = Nil
  /\ tracking["origin/topic"] = c2

MCSpec == MCInit /\ [][Next]_vars

=============================================================================
