--------------------------- MODULE MCBoundedCommand ---------------------------
(***************************************************************************)
(* A small instance of BoundedCommand for TLC: a pipe holds one chunk, one *)
(* chunk of a stream is kept and two are within the capture limit.         *)
(***************************************************************************)
EXTENDS BoundedCommand
=============================================================================
