--------------------------- MODULE LocalRepository ---------------------------
(***************************************************************************)
(* The part of a Git repository every guarded operation reads: HEAD and    *)
(* the local branches, shared with all other Git clients of the machine    *)
(* (crates/bitbygit-git/src/lib.rs, HeadTarget).  Commits are a given set  *)
(* with its ancestry: making one is picking one that fits.                 *)
(***************************************************************************)
CONSTANTS
  Branches,  \* local branch names, and the same names on a remote
  Commits,   \* commit objects
  Ancestry,  \* pairs <<a, b>> with a reachable from b
  Nil        \* no object, no ref, no setting

ASSUME GraphAssumption ==
  /\ Ancestry \subseteq Commits \X Commits
  /\ \A c \in Commits : <<c, c>> \in Ancestry
  /\ \A a, b, c \in Commits :
       <<a, b>> \in Ancestry /\ <<b, c>> \in Ancestry => <<a, c>> \in Ancestry
  /\ Branches \cap Commits = {}
  /\ Nil \notin Branches \cup Commits

VARIABLES
  head,  \* the branch HEAD is a symbolic reference to, or a commit (detached)
  tip    \* the commit of each branch, Nil where there is none

Oids == Commits \cup {Nil}
Refs == Branches \cup {Nil}

LocalTypeOK ==
  /\ head \in Branches \cup Commits
  /\ tip \in [Branches -> Oids]

\* merge-base --is-ancestor
IsAncestor(a, b) == <<a, b>> \in Ancestry

(***************************************************************************)
(* HeadTarget.  The code asks Git for the two parts one after the other,   *)
(* so they are two operators, and every reader takes two steps.            *)
(***************************************************************************)
HeadOid == IF head \in Branches THEN tip[head] ELSE head
HeadRef == IF head \in Branches THEN head ELSE Nil

\* On a branch that has a commit (branch_name in bitbygit-tui).
OnBornBranch == head \in Branches /\ tip[head] # Nil

-----------------------------------------------------------------------------
(***************************************************************************)
(* Other clients of the repository: any switch, detached or to an unborn   *)
(* branch too, and any commit, reset, creation or deletion of a branch.    *)
(***************************************************************************)
SwitchHead ==
  /\ head' \in (Branches \cup Commits) \ {head}
  /\ UNCHANGED tip

MoveBranch ==
  /\ \E b \in Branches, oid \in Oids : tip' = [tip EXCEPT ![b] = oid]
  /\ UNCHANGED head

OtherLocalClient == SwitchHead \/ MoveBranch

=============================================================================
