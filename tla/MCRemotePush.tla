---------------------------- MODULE MCRemotePush ----------------------------
(***************************************************************************)
(* A small instance of RemotePush for TLC.  A commit and its child make a  *)
(* push forward or a rewind; the configurations redirect it: no upstream,  *)
(* pushes to a fork, one remote with two push URLs.                        *)
(***************************************************************************)
EXTENDS RemotePush

CONSTANTS c1, c2

History == {<<c1, c1>>, <<c1, c2>>, <<c2, c2>>}

Tracked ==
  [pushRemote |-> [b \in Branches |-> Nil], pushDefault |-> Nil, mode |-> "simple",
   defaultRemote |-> "origin",
   upstream |-> [b \in Branches |-> IF b = "main" THEN <<"origin", "main">> ELSE Nil],
   urls |-> [r \in Remotes |-> IF r = "origin" THEN {"u1"} ELSE {"u2"}],
   fetch |-> [r \in Remotes |-> IF r = "origin" THEN "u1" ELSE "u2"]]
Untracked  == [Tracked EXCEPT !.upstream["main"] = Nil]
Triangular == [Tracked EXCEPT !.pushDefault = "fork"]
Mirrored   == [Untracked EXCEPT !.urls["origin"] = {"u1", "u2"}]

Redirections == {Tracked, Untracked, Triangular, Mirrored}

=============================================================================
