---------------------------- MODULE MCRemotePull ----------------------------
(***************************************************************************)
(* A small instance of RemotePull for TLC: one branch, which HEAD may also *)
(* be detached from, and its upstream on a history that forks.             *)
(***************************************************************************)
EXTENDS RemotePull

CONSTANTS c1, c2, d

Fork == {<<c1, c1>>, <<c1, c2>>, <<c2, c2>>, <<c1, d>>, <<d, d>>}

=============================================================================
