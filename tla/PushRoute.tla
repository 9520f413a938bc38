------------------------------ MODULE PushRoute ------------------------------
(***************************************************************************)
(* Where a push of a branch goes: the part of the Git configuration that   *)
(* decides it, and the decision (crates/bitbygit-git/src/lib.rs,           *)
(* typed_push_target).  A push and a pull request both start from it.      *)
(***************************************************************************)
EXTENDS LocalRepository

CONSTANTS
  Remotes,  \* names of configured remotes
  Urls,     \* the repositories they may point to
  Configs   \* the Git configurations a user may write

Destinations == Remotes \X Branches

\* branch.*.pushRemote, remote.pushDefault, push.default, the remote taken
\* when nothing is configured, branch.*.remote and merge, push and fetch URLs.
ConfigRecords ==
  [pushRemote : [Branches -> Remotes \cup {Nil}], pushDefault : Remotes \cup {Nil},
   mode : {"simple", "upstream", "current", "nothing", "other"},
   defaultRemote : Remotes \cup {Nil},
   upstream : [Branches -> Destinations \cup {Nil}],
   urls : [Remotes -> SUBSET Urls],
   fetch : [Remotes -> Urls \cup {Nil}]]

ASSUME PushAssumption ==
  /\ Configs \subseteq ConfigRecords
  /\ Nil \notin Destinations \cup Remotes \cup Urls

VARIABLE config  \* the Git configuration of the repository

-----------------------------------------------------------------------------
OrElse(x, y) == IF x # Nil THEN x ELSE y

ChosenRemote(branch, upstream) ==
  OrElse(config.pushRemote[branch],
    OrElse(config.pushDefault,
      IF upstream # Nil THEN upstream[1] ELSE config.defaultRemote))

TypedPushTarget(branch, upstream) ==
  LET chosen == ChosenRemote(branch, upstream)
      own    == <<chosen, branch>>
  IN IF chosen = Nil THEN Nil
     ELSE IF upstream = Nil THEN own
     ELSE CASE config.mode = "current"  -> own
            [] config.mode = "simple"   -> IF chosen = upstream[1] THEN upstream ELSE own
            [] config.mode = "upstream" -> upstream
            [] OTHER                    -> Nil

=============================================================================
