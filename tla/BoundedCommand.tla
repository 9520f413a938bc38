---------------------------- MODULE BoundedCommand ----------------------------
(***************************************************************************)
(* One Git command run under a deadline and an output limit: the spawn,    *)
(* the two threads that drain its output, and the loop that waits for it   *)
(* (crates/bitbygit-git/src/lib.rs, run_bounded_command).  Every read and  *)
(* every command of a conflict recovery goes through it.                   *)
(*                                                                         *)
(* The caller, the two drains, Git, a process Git has started and the      *)
(* clock are concurrent.  Output is counted in chunks of one read each.    *)
(***************************************************************************)
EXTENDS Naturals, FiniteSets, FiniteSetsExt

CONSTANTS
  OutputLimit,   \* chunks of a stream that are kept
  CaptureLimit,  \* chunks of a stream a diagnostic command may write
  PipeSize,      \* chunks a pipe holds before its writers block
  Deadline,      \* the time at which the deadline has passed
  MaxOutput      \* bound: chunks written to both streams

ASSUME BoundAssumption ==
  /\ {OutputLimit, CaptureLimit, PipeSize, Deadline, MaxOutput} \subseteq Nat \ {0}
  /\ OutputLimit <= CaptureLimit

Policies  == {"Diagnostic", "Digest", "RecoveryExecution"}
Streams   == {"stdout", "stderr"}
Processes == {"git", "helper"}

VARIABLES
  commandPolicy, \* the BoundedCommandPolicy of the call
  now,       \* the clock
  caller,    \* where the caller is
  verdict,   \* what has made the caller stop waiting
  process,   \* "none", "running" or "ended"
  group,     \* the processes in the process group of Git
  fate,      \* history: how Git ended, "killed" or "exited"
  reaped,    \* the caller has the exit status of Git
  pipe,      \* chunks written to each stream and not yet read
  written,   \* history: chunks written to each stream
  drain,     \* each drain: its state and what it has counted
  exceeded,  \* capture_exceeded, shared by the drains and the caller
  result     \* what the call has returned

processes == <<process, group, fate>>
streams   == <<pipe, written, drain, exceeded>>
commandVars == <<commandPolicy, now, caller, verdict, processes, reaped, streams, result>>

NoDrain == [state |-> "none", total |-> 0, digested |-> 0, kept |-> 0]

-----------------------------------------------------------------------------
(***************************************************************************)
(* The caller.                                                             *)
(***************************************************************************)
Late == now >= Deadline

CallerStep == UNCHANGED <<commandPolicy, now>>
Goto(next) == caller' = next /\ UNCHANGED <<verdict, result>>
Return(r) == caller' = "returned" /\ result' = r /\ UNCHANGED verdict

\* The checks of the deadline up to the one that precedes before_spawn.
CheckDeadline ==
  /\ caller = "start"
  /\ IF Late THEN Return("TimedOut") ELSE Goto("beforeSpawn")
  /\ CallerStep /\ UNCHANGED <<processes, reaped, streams>>

\* before_spawn, which may fail, and the check after it.
BeforeSpawn ==
  /\ caller = "beforeSpawn"
  /\ \/ Return("Refused")
     \/ IF Late THEN Return("TimedOut") ELSE Goto("spawn")
  /\ CallerStep /\ UNCHANGED <<processes, reaped, streams>>

SpawnFails ==
  /\ caller = "spawn"
  /\ Return("Io")
  /\ CallerStep /\ UNCHANGED <<processes, reaped, streams>>

\* Git in a process group of its own, and the two drains.
Spawn ==
  /\ caller = "spawn"
  /\ process' = [process EXCEPT !["git"] = "running"]
  /\ group' = {"git"}
  /\ drain' = [s \in Streams |-> [NoDrain EXCEPT !.state = "reading"]]
  /\ Goto(IF commandPolicy = "RecoveryExecution" THEN "wait" ELSE "pollOutput")
  /\ CallerStep /\ UNCHANGED <<fate, reaped, pipe, written, exceeded>>

StopFor(v, next) == verdict' = v /\ caller' = next /\ UNCHANGED result

\* child.wait() of a recovery, which no deadline cuts short.
Wait ==
  /\ caller = "wait"
  /\ \/ process["git"] = "ended" /\ reaped' = TRUE /\ StopFor("exit", "killRest")
     \/ UNCHANGED reaped /\ StopFor("Io", "kill")
  /\ CallerStep /\ UNCHANGED <<processes, streams>>

PollOutput ==
  /\ caller = "pollOutput"
  /\ IF commandPolicy = "Diagnostic" /\ exceeded THEN StopFor("output", "kill") ELSE Goto("pollExit")
  /\ CallerStep /\ UNCHANGED <<processes, reaped, streams>>

\* child.try_wait(); the call is given up where it stands when that fails.
PollExit ==
  /\ caller = "pollExit"
  /\ \/ process["git"] = "ended" /\ reaped' = TRUE /\ StopFor("exit", "killRest")
     \/ process["git"] # "ended" /\ UNCHANGED reaped /\ Goto("pollDeadline")
     \/ UNCHANGED reaped /\ Return("Io")
  /\ CallerStep /\ UNCHANGED <<processes, streams>>

\* Faulty variant: the call returns as the checks before the spawn do.
PollDeadlineReturns ==
  /\ caller = "pollDeadline"
  /\ IF Late THEN Return("TimedOut") ELSE Goto("pollOutput")
  /\ CallerStep /\ UNCHANGED <<processes, reaped, streams>>

\* Followed by a sleep of at most five milliseconds.
PollDeadline ==
  /\ caller = "pollDeadline"
  /\ IF Late THEN StopFor("TimedOut", "kill") ELSE Goto("pollOutput")
  /\ CallerStep /\ UNCHANGED <<processes, reaped, streams>>

Killed(killable) ==
  /\ process' = [p \in Processes |-> IF p \in killable /\ process[p] = "running"
                                     THEN "ended" ELSE process[p]]
  /\ fate' = IF process["git"] = "running" /\ "git" \in killable THEN "killed" ELSE fate
  /\ UNCHANGED group

\* Faulty variant: Git alone is killed.
KillGitOnly == Killed({"git"})

\* kill_process_tree: the group, and Git itself.
KillProcessTree == Killed(group \cup {"git"})

Kill ==
  /\ caller = "kill"
  /\ KillProcessTree
  /\ Goto("reap")
  /\ CallerStep /\ UNCHANGED <<reaped, streams>>

\* Only the path of the output limit looks at the outcome of this wait.
Reap ==
  /\ caller = "reap"
  /\ process["git"] = "ended"
  /\ \/ reaped' = TRUE /\ Goto("killRest")
     \/ UNCHANGED reaped /\ IF verdict = "output" THEN Return("Io") ELSE Goto("killRest")
  /\ CallerStep /\ UNCHANGED <<processes, streams>>

KillRest ==
  /\ caller = "killRest"
  /\ KillProcessTree
  /\ Goto("joinStdout")
  /\ CallerStep /\ UNCHANGED <<reaped, streams>>

\* join_capture_reader; the failure of a drain is dropped after a failed wait.
Join(at, s, next) ==
  /\ caller = at
  /\ drain[s].state \in {"done", "failed"}
  /\ IF drain[s].state = "failed" /\ verdict # "Io" THEN Return("Io") ELSE Goto(next)
  /\ CallerStep /\ UNCHANGED <<processes, reaped, streams>>

\* Faulty variant: only the flag the loop has seen is looked at.
OverTheLimitSeen == commandPolicy = "Diagnostic" /\ verdict = "output"

OverTheLimit == commandPolicy = "Diagnostic" /\ (verdict = "output" \/ exceeded)

Finish ==
  /\ caller = "finish"
  /\ Return(IF verdict \in {"Io", "TimedOut"} THEN verdict
            ELSE IF OverTheLimit THEN "Blocked"
            ELSE "Ok")
  /\ CallerStep /\ UNCHANGED <<processes, reaped, streams>>

Caller ==
  \/ CheckDeadline \/ BeforeSpawn \/ SpawnFails \/ Spawn
  \/ Wait \/ PollOutput \/ PollExit \/ PollDeadline
  \/ Kill \/ Reap \/ KillRest
  \/ Join("joinStdout", "stdout", "joinStderr") \/ Join("joinStderr", "stderr", "finish")
  \/ Finish

-----------------------------------------------------------------------------
(***************************************************************************)
(* drain_bounded_output, one thread for each stream.                       *)
(***************************************************************************)
Drain == UNCHANGED <<commandPolicy, now, caller, verdict, processes, reaped, written, result>>

\* Faulty variant: all that is captured is kept.
KeptAll(drained, within) == drained.kept + within

Kept(drained, within) == Min({OutputLimit, drained.kept + within})

Captured(total) == commandPolicy = "Diagnostic" => total < CaptureLimit

Read(s) ==
  /\ drain[s].state = "reading"
  /\ pipe[s] > 0
  /\ pipe' = [pipe EXCEPT ![s] = @ - 1]
  /\ LET d      == drain[s]
         within == IF Captured(d.total) THEN 1 ELSE 0
     IN /\ drain' = [drain EXCEPT ![s] =
                       [d EXCEPT !.total = @ + 1,
                                 !.digested = IF commandPolicy = "RecoveryExecution" THEN @ ELSE @ + within,
                                 !.kept = Kept(d, within)]]
        /\ exceeded' = (exceeded \/ ~Captured(d.total))
  /\ Drain

\* The end of the stream: no process has it open.
ReadEnd(s) ==
  /\ drain[s].state = "reading"
  /\ pipe[s] = 0
  /\ \A p \in Processes : process[p] # "running"
  /\ drain' = [drain EXCEPT ![s].state = "done",
                            ![s].digested = IF commandPolicy = "RecoveryExecution"
                                            THEN drain[s].kept ELSE @]
  /\ UNCHANGED <<pipe, exceeded>>
  /\ Drain

ReadFails(s) ==
  /\ drain[s].state = "reading"
  /\ drain' = [drain EXCEPT ![s].state = "failed"]
  /\ UNCHANGED <<pipe, exceeded>>
  /\ Drain

-----------------------------------------------------------------------------
(***************************************************************************)
(* Git, what it starts, and the clock.                                     *)
(***************************************************************************)
Environment == UNCHANGED <<commandPolicy, caller, verdict, reaped, drain, exceeded, result>>

Output == written["stdout"] + written["stderr"]

Write(p, s) ==
  /\ process[p] = "running"
  /\ pipe[s] < PipeSize
  /\ Output < MaxOutput
  /\ pipe' = [pipe EXCEPT ![s] = @ + 1]
  /\ written' = [written EXCEPT ![s] = @ + 1]
  /\ UNCHANGED <<now, processes>>
  /\ Environment

Fork ==
  /\ process["git"] = "running"
  /\ process["helper"] = "none"
  /\ process' = [process EXCEPT !["helper"] = "running"]
  /\ group' = group \cup {"helper"}
  /\ UNCHANGED <<fate, now, pipe, written>>
  /\ Environment

\* A daemon begins a session of its own, and with it a process group.
Detach ==
  /\ process["helper"] = "running"
  /\ group' = group \ {"helper"}
  /\ UNCHANGED <<process, fate, now, pipe, written>>
  /\ Environment

Exit(p) ==
  /\ process[p] = "running"
  /\ process' = [process EXCEPT ![p] = "ended"]
  /\ fate' = IF p = "git" THEN "exited" ELSE fate
  /\ UNCHANGED <<group, now, pipe, written>>
  /\ Environment

Tick ==
  /\ now < Deadline
  /\ now' = now + 1
  /\ UNCHANGED <<processes, pipe, written>>
  /\ Environment

CommandInit ==
  /\ commandPolicy \in Policies
  /\ now = 0
  /\ caller = "start"
  /\ verdict = "none"
  /\ process = [p \in Processes |-> "none"]
  /\ group = {}
  /\ fate = "none"
  /\ reaped = FALSE
  /\ pipe = [s \in Streams |-> 0]
  /\ written = [s \in Streams |-> 0]
  /\ drain = [s \in Streams |-> NoDrain]
  /\ exceeded = FALSE
  /\ result = "none"

Returned == caller = "returned" /\ UNCHANGED commandVars

CommandNext ==
  \/ Caller
  \/ \E s \in Streams : Read(s) \/ ReadEnd(s) \/ ReadFails(s)
  \/ \E p \in Processes, s \in Streams : Write(p, s)
  \/ \E p \in Processes : Exit(p)
  \/ Fork \/ Detach \/ Tick
  \/ Returned

(***************************************************************************)
(* The threads of the session run and the clock goes on.  Nothing is       *)
(* assumed of Git: it may run forever, silent or not.                      *)
(***************************************************************************)
Fairness ==
  /\ WF_commandVars(Caller)
  /\ \A s \in Streams : WF_commandVars(Read(s)) /\ WF_commandVars(ReadEnd(s))
  /\ WF_commandVars(Tick)

CommandSpec == CommandInit /\ [][CommandNext]_commandVars /\ Fairness

-----------------------------------------------------------------------------
(***************************************************************************)
(* Properties.                                                             *)
(***************************************************************************)
Results == {"Ok", "TimedOut", "Blocked", "Refused", "Io"}

\* Every variable has its type; a result exists once the call has returned.
TypeOK ==
  /\ commandPolicy \in Policies
  /\ now \in 0..Deadline
  /\ verdict \in {"none", "exit", "output", "TimedOut", "Io"}
  /\ process \in [Processes -> {"none", "running", "ended"}]
  /\ group \subseteq Processes
  /\ fate \in {"none", "killed", "exited"}
  /\ reaped \in BOOLEAN
  /\ pipe \in [Streams -> 0..PipeSize]
  /\ written \in [Streams -> 0..MaxOutput]
  /\ drain \in [Streams -> [state : {"none", "reading", "done", "failed"},
                            total : 0..MaxOutput, digested : 0..MaxOutput,
                            kept : 0..OutputLimit]]
  /\ exceeded \in BOOLEAN
  /\ result \in Results \cup {"none"}
  /\ caller = "returned" <=> result # "none"

\* The digest of a command that was let through covers all that its processes
\* have written, whichever of the last output, the exit of Git and the polls of
\* the caller came first: no state is compared by a part of what describes it.
OkDigestsEverything ==
  result = "Ok" /\ commandPolicy # "RecoveryExecution" =>
    \A s \in Streams : drain[s].digested = written[s] /\ drain[s].total = written[s]

\* A call that returns without an I/O error leaves nothing behind that it has
\* started: Git is reaped, no process in its group runs, the drains are done.
LeavesNothingBehind ==
  /\ result \in {"Ok", "TimedOut", "Blocked"}
  /\ process["git"] # "none"
  => /\ process["git"] = "ended"
     /\ \A p \in group : process[p] # "running"
     /\ \A s \in Streams : drain[s].state = "done"

Detached == \E p \in Processes \ group : process[p] = "running"

\* A diagnostic command returns whatever Git does: it may fill a pipe, never
\* end, or leave a process behind in its group that keeps the pipes open.  A
\* recovery returns once Git has ended.  Only a daemon that has left the group
\* can hold a call up.
EveryCallReturns ==
  /\ (commandPolicy # "RecoveryExecution") ~> (caller = "returned" \/ Detached)
  /\ (process["git"] = "ended") ~> (caller = "returned" \/ Detached)

\* The comment on the last kill: descendants cannot keep inherited pipe
\* writers open when the drains are joined.
NoWriterAtTheJoin ==
  caller \in {"joinStdout", "joinStderr"} =>
    \A p \in Processes : process[p] # "running"

=============================================================================
