---------------------------- MODULE RecoveryFence ----------------------------
(***************************************************************************)
(* The fingerprint that ties a recovery of a merge or rebase to its        *)
(* preview (crates/bitbygit-git/src/lib.rs: prepare_recovery,              *)
(* recover_exact, recovery_state_until_with, RecoveryInputFence,           *)
(* run_bounded_command).  It covers what cannot be read at once: files,    *)
(* kept open and compared by identity and change time, and the output of   *)
(* Git commands, compared by value.  So everything is read once and then   *)
(* validated twice, while others write.                                    *)
(*                                                                         *)
(* The inputs have a fixed order in the code; here they are read in any.   *)
(* One file is read as one step, because the code compares its change time *)
(* before and after.  A path at which there is nothing leaves nothing to   *)
(* keep open; only that there is still nothing can be validated.  Whatever *)
(* is refused for another reason than a change (unsafe configuration, an   *)
(* unsupported backend, a colliding path, a limit) is Refuse.              *)
(***************************************************************************)
CONSTANTS
  Files,   \* control files, hooks, attributes, untracked data
  Index,   \* the file Git reads first when it starts
  Probes,  \* Git commands: status, diff, refs, configuration
  Values,  \* contents of a file, outputs of a command
  Absent,  \* nothing at that path, no output
  Nil      \* not read

Inputs == Files \cup Probes
Outcomes == {"done", "failed", "timed out", "refused"}

ASSUME FenceAssumption ==
  /\ Index \in Files
  /\ Files \cap Probes = {}
  /\ Absent \in Values
  /\ Nil \notin Values \cup Outcomes

VARIABLES
  content,  \* what reading each input would give
  late,     \* the deadline has passed
  pc,       \* what the session does next
  plan,     \* the fingerprint that was previewed
  seen,     \* what has been read for the present fingerprint
  same,     \* files that were there and have not been written since
  checked,  \* inputs that have passed the present validation
  outcome,  \* what the last execution reported
  since,    \* history: what has held since the final validation began
  effect    \* history: the Git recovery that was started

vars == <<content, late, pc, plan, seen, same, checked, outcome, since, effect>>

Unread == [i \in Inputs |-> Nil]
Nothing == [together |-> FALSE, index |-> FALSE, each |-> {}]

Passes == {"first pass", "final pass"}
Bounded == {"read", "hook", "fingerprinted"} \cup Passes

-----------------------------------------------------------------------------
(***************************************************************************)
(* History.  The reference is the preview; while that is being made, it is *)
(* what has been read for it.                                              *)
(***************************************************************************)
Reference == IF plan = Unread THEN seen ELSE plan

AsReferred(i) == content'[i] = Reference'[i]

AllElseChecked == pc = "fingerprinted" \/ checked = Inputs \ {Index}

Observe ==
  since' = IF pc' \in {"final pass", "fingerprinted", "confirm"}
           THEN [together |-> since.together \/
                                \A f \in Files : Reference'[f] # Absent => AsReferred(f),
                 index    |-> since.index \/ (AllElseChecked /\ AsReferred(Index)),
                 each     |-> since.each \cup {i \in Inputs : AsReferred(i)}]
           ELSE Nothing

-----------------------------------------------------------------------------
(***************************************************************************)
(* A preview and an execution begin with a deadline of their own and end   *)
(* with the fingerprint; in between they are the same.                     *)
(***************************************************************************)
Begin ==
  /\ pc' = "read"
  /\ late' = FALSE
  /\ seen' = Unread
  /\ same' = {}
  /\ checked' = {}
  /\ UNCHANGED content
  /\ Observe

Preview ==
  /\ pc = "idle"
  /\ plan' = Unread
  /\ outcome' = Nil
  /\ effect' = {}
  /\ Begin

Confirm ==
  /\ pc = "confirm"
  /\ UNCHANGED <<plan, outcome, effect>>
  /\ Begin

Read(i) ==
  /\ pc = "read"
  /\ ~late
  /\ seen[i] = Nil
  /\ seen' = [seen EXCEPT ![i] = content[i]]
  /\ same' = IF i \in Files /\ content[i] # Absent THEN same \cup {i} ELSE same
  /\ pc' = IF \E j \in Inputs : seen'[j] = Nil THEN "read" ELSE "first pass"
  /\ UNCHANGED <<content, late, plan, checked, outcome, effect>>
  /\ Observe

(***************************************************************************)
(* RecoveryInputFence::validate.                                           *)
(***************************************************************************)

\* First all commands, then the files, the index last.
InOrder(i) ==
  /\ i \in Files => Probes \subseteq checked
  /\ i = Index => Inputs \ {Index} \subseteq checked

\* Faulty variant: a file is compared by its contents.
UnchangedByValue(i) == content[i] = seen[i]

Unchanged(i) ==
  IF i \in Files /\ seen[i] # Absent THEN i \in same ELSE content[i] = seen[i]

Check(i) ==
  /\ pc \in Passes
  /\ ~late
  /\ i \notin checked
  /\ InOrder(i)
  /\ Unchanged(i)
  /\ IF checked \cup {i} = Inputs
     THEN pc' = (IF pc = "first pass" THEN "hook" ELSE "fingerprinted") /\ checked' = {}
     ELSE checked' = checked \cup {i} /\ UNCHANGED pc
  /\ UNCHANGED <<content, same, late, plan, seen, outcome, effect>>
  /\ Observe

\* Faulty variant: what was validated before the hook is not validated again.
HookOnly ==
  /\ pc = "hook"
  /\ pc' = "fingerprinted"
  /\ UNCHANGED <<content, same, late, plan, seen, checked, outcome, effect>>
  /\ Observe

\* An execution confirms here that its lock is still the repository's lock.
Hook ==
  /\ pc = "hook"
  /\ pc' = "final pass"
  /\ UNCHANGED <<content, same, late, plan, seen, checked, outcome, effect>>
  /\ Observe

-----------------------------------------------------------------------------
Show ==
  /\ pc = "fingerprinted"
  /\ plan = Unread
  /\ plan' = seen
  /\ pc' = "confirm"
  /\ UNCHANGED <<content, same, late, seen, checked, outcome, effect>>
  /\ Observe

\* The closure passed to run_bounded_command has compared the fingerprints;
\* the deadline is looked at once more, then Git is started.
Spawn ==
  /\ pc = "fingerprinted"
  /\ plan # Unread
  /\ seen = plan
  /\ ~late
  /\ pc' = "running"
  /\ effect' = {since}
  /\ UNCHANGED <<content, same, late, plan, seen, checked, outcome>>
  /\ Observe

End(result) ==
  /\ pc' = "idle"
  /\ outcome' = result
  /\ plan' = Unread
  /\ UNCHANGED <<content, same, late, seen, checked, effect>>
  /\ Observe

\* A recovery that has been started is waited for, whatever the deadline.
GitEnds == pc = "running" /\ \E result \in {"done", "failed"} : End(result)

\* Faulty variant: the deadline ends a recovery that runs.
TimeOutAlways == pc \in Bounded \cup {"running"} /\ late /\ End("timed out")

TimeOut == pc \in Bounded /\ late /\ End("timed out")

\* Whatever was found changed or unsafe, and the user who cancels.
Refuse == pc \in Bounded \cup {"confirm"} /\ End("refused")

-----------------------------------------------------------------------------
\* Time passes, and others write: Git clients, editors, a recovery that runs.
Tick ==
  /\ pc \in Bounded \cup {"running"}
  /\ late' = TRUE
  /\ UNCHANGED <<content, same, pc, plan, seen, checked, outcome, effect>>
  /\ Observe

Write ==
  /\ \E i \in Inputs, v \in Values :
       /\ content' = [content EXCEPT ![i] = v]
       /\ same' = same \ {i}
  /\ UNCHANGED <<late, pc, plan, seen, checked, outcome, effect>>
  /\ Observe

Init ==
  /\ content \in [Inputs -> Values]
  /\ late = FALSE
  /\ pc = "idle"
  /\ plan = Unread
  /\ seen = Unread
  /\ same = {}
  /\ checked = {}
  /\ outcome = Nil
  /\ since = Nothing
  /\ effect = {}

Next ==
  \/ Preview \/ Confirm
  \/ \E i \in Inputs : Read(i) \/ Check(i)
  \/ Hook \/ Show \/ Spawn \/ GitEnds \/ TimeOut \/ Refuse
  \/ Tick \/ Write

Spec == Init /\ [][Next]_vars

-----------------------------------------------------------------------------
(***************************************************************************)
(* Properties.                                                             *)
(***************************************************************************)
Histories == [together : BOOLEAN, index : BOOLEAN, each : SUBSET Inputs]

\* Every variable has its type, and a fingerprint to compare with exists
\* only from the preview to the end of the execution.
TypeOK ==
  /\ content \in [Inputs -> Values]
  /\ late \in BOOLEAN
  /\ pc \in {"idle", "confirm", "running"} \cup Bounded
  /\ plan \in [Inputs -> Values \cup {Nil}]
  /\ seen \in [Inputs -> Values \cup {Nil}]
  /\ same \subseteq Files
  /\ checked \subseteq Inputs
  /\ outcome \in Outcomes \cup {Nil}
  /\ since \in Histories
  /\ effect \subseteq Histories
  /\ pc = "idle" => plan = Unread
  /\ pc \in {"confirm", "running"} => plan # Unread

\* What is previewed has existed: at one moment all existing files together
\* were as the fingerprint says, although they were read one after the other.
PreviewIsSnapshot == pc = "confirm" => since.together

\* A recovery is started only after a moment, later than the confirmation and
\* than the last look at the lock, at which all existing files together were
\* as previewed; and every command's output and every absent path has been as
\* previewed since then, though it may have changed and changed back.  The
\* index, which Git reads at once, is still as previewed after all the rest.
RecoversConfirmedState ==
  \A e \in effect : e.together /\ e.each = Inputs /\ e.index

\* An execution that reports a refusal or a timeout has not started Git: the
\* deadline bounds the checks and never interrupts a recovery.
RefusalChangesNothing == outcome \in {"refused", "timed out"} => effect = {}

=============================================================================
