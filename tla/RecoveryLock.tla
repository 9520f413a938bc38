---------------------------- MODULE RecoveryLock -----------------------------
(***************************************************************************)
(* The lock under which a merge or rebase is recovered                     *)
(* (crates/bitbygit-git/src/lib.rs: acquire_recovery_lock_until,           *)
(* RecoveryLock, recover_exact_with_checks, run_bounded_command).  A       *)
(* session opens and locks two files for the repository, the guard and     *)
(* then the lock, and never waits.  It makes sure three times that its     *)
(* open files are still those at the two paths, since a lock binds the     *)
(* file that was opened and anyone may put another one in its place: when  *)
(* it has locked both, when the last checks before Git begin, and between  *)
(* the two validations of its fingerprint (RecoveryFence).                 *)
(*                                                                         *)
(* Sessions are processes that recover the same repository.  The directory *)
(* of the two files is replaced by replacing both; its identity, the       *)
(* repository's root and the number of links are checked too and can only  *)
(* refuse more, which is Fail.                                             *)
(***************************************************************************)
EXTENDS Integers

CONSTANTS
  Sessions,
  Inodes,     \* identities of files
  NoFile,        \* no file
  Meddled,    \* the files others may remove or replace
  GitOutlives,  \* a Git outlives its session: TRUE on Unix, where it has a
                \* process group of its own; FALSE on Windows, where its job
                \* object ends with the session
  MaxOrphans  \* bound on Git processes that have outlived their session

Names == {"guard", "lock"}

ASSUME LockAssumption ==
  /\ NoFile \notin Inodes
  /\ Meddled \subseteq Names
  /\ GitOutlives \in BOOLEAN
  /\ MaxOrphans \in Nat

VARIABLES
  path,      \* the file at each of the two paths
  file,      \* the files a session has open
  held,      \* those it has locked
  passed,    \* comparisons it has passed: the lock first, then the guard
  running,   \* sessions that wait for the Git recovery they started
  orphans,   \* Git recoveries whose session has been killed
  replaced   \* history: names at which a session's file has been missing
             \* at some moment since the session last compared it

lockVars == <<path, file, held, passed, running, orphans, replaced>>

Closed == [n \in Names |-> NoFile]

\* Three times two comparisons.
Comparisons == 6
Compared(k) == IF k % 2 = 0 THEN "lock" ELSE "guard"

\* A file that is neither at a path nor open: a number still in use is not
\* given to a new file.
Unused(i) == /\ \A n \in Names : path[n] # i
             /\ \A s \in Sessions, n \in Names : file[s][n] # i

-----------------------------------------------------------------------------
\* The file at the path, which is created when there is none.
Open(s, n) ==
  /\ file[s][n] = NoFile
  /\ held[s] = (IF n = "guard" THEN {} ELSE {"guard"})
  /\ \E i \in Inodes :
       /\ IF path[n] = NoFile THEN Unused(i) ELSE path[n] = i
       /\ path' = [path EXCEPT ![n] = i]
       /\ file' = [file EXCEPT ![s][n] = i]
  /\ UNCHANGED <<held, passed, running, orphans, replaced>>

Contended(s, n) ==
  \E t \in Sessions \ {s} : \E m \in held[t] : file[t][m] = file[s][n]

\* try_lock_exclusive: a session that finds the file locked gives up.
TryLock(s, n) ==
  /\ file[s][n] # NoFile
  /\ n \notin held[s]
  /\ ~Contended(s, n)
  /\ held' = [held EXCEPT ![s] = @ \cup {n}]
  /\ UNCHANGED <<path, file, passed, running, orphans, replaced>>

\* Faulty variant: the guard is locked, but not compared.
EnsureLockIdentity(s) ==
  LET n == Compared(passed[s]) IN
  /\ held[s] = Names
  /\ passed[s] < Comparisons
  /\ n = "lock" => path[n] = file[s][n]
  /\ passed' = [passed EXCEPT ![s] = @ + 1]
  /\ replaced' = [replaced EXCEPT ![s] = @ \ {n}]
  /\ UNCHANGED <<path, file, held, running, orphans>>

\* RecoveryLock::ensure_identity.
EnsureIdentity(s) ==
  LET n == Compared(passed[s]) IN
  /\ held[s] = Names
  /\ passed[s] < Comparisons
  /\ path[n] = file[s][n]
  /\ passed' = [passed EXCEPT ![s] = @ + 1]
  /\ replaced' = [replaced EXCEPT ![s] = @ \ {n}]
  /\ UNCHANGED <<path, file, held, running, orphans>>

StartRecovery(s) ==
  /\ passed[s] = Comparisons
  /\ s \notin running
  /\ running' = running \cup {s}
  /\ UNCHANGED <<path, file, held, passed, orphans, replaced>>

\* Closing the files releases the locks.
Close(s) ==
  /\ file' = [file EXCEPT ![s] = Closed]
  /\ held' = [held EXCEPT ![s] = {}]
  /\ passed' = [passed EXCEPT ![s] = 0]
  /\ replaced' = [replaced EXCEPT ![s] = {}]
  /\ UNCHANGED path

RecoveryEnds(s) ==
  /\ s \in running
  /\ running' = running \ {s}
  /\ UNCHANGED orphans
  /\ Close(s)

\* Any refusal and any error before Git is started.
Fail(s) ==
  /\ file[s] # Closed
  /\ s \notin running
  /\ UNCHANGED <<running, orphans>>
  /\ Close(s)

-----------------------------------------------------------------------------
\* A session dies.  The system closes its files, which Git does not inherit.
Kill(s) ==
  /\ file[s] # Closed
  /\ running' = running \ {s}
  /\ IF s \in running /\ GitOutlives
     THEN orphans < MaxOrphans /\ orphans' = orphans + 1
     ELSE UNCHANGED orphans
  /\ Close(s)

OrphanEnds ==
  /\ orphans > 0
  /\ orphans' = orphans - 1
  /\ UNCHANGED <<path, file, held, passed, running, replaced>>

\* Others remove one of the files or put another one there.
Meddle(n) ==
  /\ \E i \in Inodes \cup {NoFile} :
       /\ i # NoFile => Unused(i)
       /\ path' = [path EXCEPT ![n] = i]
  /\ replaced' = [s \in Sessions |->
                    replaced[s] \cup (IF file[s][n] = NoFile THEN {} ELSE {n})]
  /\ UNCHANGED <<file, held, passed, running, orphans>>

LockInit ==
  /\ path \in {p \in [Names -> Inodes \cup {NoFile}] :
                 p["guard"] = p["lock"] => p["guard"] = NoFile}
  /\ file = [s \in Sessions |-> Closed]
  /\ held = [s \in Sessions |-> {}]
  /\ passed = [s \in Sessions |-> 0]
  /\ running = {}
  /\ orphans = 0
  /\ replaced = [s \in Sessions |-> {}]

LockNext ==
  \/ \E s \in Sessions :
       \/ \E n \in Names : Open(s, n) \/ TryLock(s, n)
       \/ EnsureIdentity(s) \/ StartRecovery(s) \/ RecoveryEnds(s) \/ Fail(s) \/ Kill(s)
  \/ OrphanEnds
  \/ \E n \in Meddled : Meddle(n)

LockSpec == LockInit /\ [][LockNext]_lockVars

-----------------------------------------------------------------------------
(***************************************************************************)
(* Properties.                                                             *)
(***************************************************************************)

\* Every variable has its type; only open files are locked, only a session
\* that holds both compares them, and only one that has compared them runs Git.
LockTypeOK ==
  /\ path \in [Names -> Inodes \cup {NoFile}]
  /\ file \in [Sessions -> [Names -> Inodes \cup {NoFile}]]
  /\ held \in [Sessions -> SUBSET Names]
  /\ passed \in [Sessions -> 0..Comparisons]
  /\ running \subseteq Sessions
  /\ orphans \in 0..MaxOrphans
  /\ replaced \in [Sessions -> SUBSET Names]
  /\ \A s \in Sessions :
       /\ \A n \in held[s] : file[s][n] # NoFile
       /\ passed[s] > 0 => held[s] = Names
       /\ s \in running => passed[s] = Comparisons

\* Two sessions can only run a recovery at the same time if others have
\* replaced both files since one of the two sessions last looked at them:
\* either file alone keeps them apart.
Exclusive ==
  \A s, t \in running : s # t => replaced[s] \cup replaced[t] = Names

\* "The lock serializes BitByGit recovery processes for the repository", and is
\* held through execution: of all Git recoveries that sessions have started, at
\* most one runs, whether or not its session still lives.
Serialized ==
  /\ \A s, t \in running : s = t
  /\ orphans > 0 => orphans = 1 /\ running = {}

=============================================================================
