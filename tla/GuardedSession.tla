--------------------------- MODULE GuardedSession ---------------------------
(***************************************************************************)
(* The interactive session: previews, confirmations, and the execution of  *)
(* confirmed operations and prompt sequences under a policy that is read   *)
(* again from disk while other programs edit the configuration and use the *)
(* repository (crates/bitbygit-tui/src/lib.rs: App, OperationPlanner,      *)
(* PlanExecutor, PromptSequenceExecutor).                                  *)
(*                                                                         *)
(* The repository is reduced to what the guards of a session tell apart:   *)
(* the branch HEAD names and the merge or rebase in progress.  What a Git  *)
(* command does beyond that, and what it re-checks, is the subject of the  *)
(* Git modules.  Every plan the planner builds has exactly one step.       *)
(***************************************************************************)
EXTENDS Policy, Sequences

CONSTANTS
  Policies,         \* the configurations a user may write
  SingleRequests,   \* requests submitted alone
  SequenceRequests, \* prompt sequences: tuples of requests
  Corrupt,          \* the content of a configuration that does not parse
  None              \* nothing pending, running, or done

\* The requests an operation kind stands for; target is the branch argument.
RequestKinds == Kinds \ (ReadKinds \cup {"PushSetUpstream"})
Requests == [kind : RequestKinds, target : Branches \cup {NoBranch}]

\* Key bindings stage and unstage; the prompt submits every other request.
DirectKinds   == StageKinds \cup UnstageKinds
SequenceKinds == RequestKinds \ DirectKinds

ASSUME SessionAssumption ==
  /\ Policies \subseteq PolicyRecords
  /\ Corrupt \notin Policies
  /\ SingleRequests \subseteq Requests
  /\ SequenceRequests \subseteq Seq(Requests)
  /\ None \notin {"merge", "rebase", "completed", "error"}

VARIABLES
  file,     \* content of the configuration file
  policy,   \* App.policy
  repo,     \* the repository as every program sees it
  pending,  \* the single slot of the operation queue
  pc,       \* where the session's thread is
  run,      \* the confirmed operation or sequence being executed
  journal,  \* last entry of the audit log
  consent,  \* history: confirmation the user gave for this run
  shown,    \* history: protected-branch reasons displayed when it was given
  fresh,    \* history: policies on disk since this step of the run began
  effect,   \* history: what the current step did to the repository
  moved     \* history: HEAD was switched after the last look at it

vars == <<file, policy, repo, pending, pc, run, journal,
          consent, shown, fresh, effect, moved>>
history == <<consent, shown, fresh, effect, moved>>

-----------------------------------------------------------------------------
(***************************************************************************)
(* Reading the configuration.  At run time an unreadable file keeps the    *)
(* last valid policy; at startup it yields the fallback that blocks all.   *)
(***************************************************************************)
LoadPolicyKeepsFirst(fallback) == fallback
LoadPolicyFailsOpen(fallback) == IF file = Corrupt THEN DefaultPolicy ELSE file

LoadPolicy(fallback) == IF file = Corrupt THEN fallback ELSE file
StartupPolicy == LoadPolicy(SafeFallback)

\* For the history only: what a reader of the file would now hold.
OnDisk(retained) == {IF file = Corrupt THEN retained ELSE file}

-----------------------------------------------------------------------------
(***************************************************************************)
(* Conflict mode.                                                          *)
(***************************************************************************)
ConflictModeKinds == DirectKinds \cup RecoveryKinds \cup {"Fetch", "Branches"}

RecoveredOperation(kind) == IF kind \in MergeRecovery THEN "merge" ELSE "rebase"

ConflictModeAllows(requests) ==
  \A i \in DOMAIN requests :
    LET kind == requests[i].kind
    IN /\ repo.op # None => kind \in ConflictModeKinds
       /\ kind \in RecoveryKinds => repo.op = RecoveredOperation(kind)

-----------------------------------------------------------------------------
(***************************************************************************)
(* Planning one request: the snapshot of HEAD its payload holds, and the   *)
(* policy applied to the branch the payload names.                         *)
(***************************************************************************)
PolicyBranchKinds == PushKinds \cup PullKinds \cup {"Commit", "Merge", "Rebase"}
HeadBoundKinds    == PolicyBranchKinds \cup {"Checkout", "CreateBranch"}
CleanKinds        == {"Checkout", "CreateBranch", "Merge", "Rebase"}
NeedsBranch       == HeadBoundKinds \ {"Commit", "Checkout", "CreateBranch"}

PlannedKinds(request) ==
  IF request.kind \in PushKinds THEN PushKinds ELSE {request.kind}

PolicyBranch(plan) == IF plan.kind \in PolicyBranchKinds THEN plan.head ELSE NoBranch

EvaluatePlan(p, plan) == Evaluate(p, RiskOf(plan.kind), plan.kind, PolicyBranch(plan))
EvaluateSequencePlan(p, plan) ==
  Evaluate(p, SequenceRisk(RiskOf(plan.kind)), plan.kind, PolicyBranch(plan))

Plans == [kind : Kinds, target : Branches \cup {NoBranch},
          head : Branches \cup {NoBranch}, requirement : Requirements,
          reasons : SUBSET Reasons]

Prepare(p, request, kind) ==
  LET branch == IF kind \in PolicyBranchKinds THEN repo.branch ELSE NoBranch
      ev     == Evaluate(p, RiskOf(kind), kind, branch)
  IN [kind |-> kind, target |-> request.target, head |-> repo.branch,
      requirement |-> MaxOf(RiskFloor(RiskOf(kind)), ev.requirement),
      reasons |-> ev.reasons]

CanPlan(p, request) ==
  /\ ~IsDisabled(p, request.kind)
  /\ ConflictModeAllows(<<request>>)
  /\ request.kind \in NeedsBranch => repo.branch # NoBranch

-----------------------------------------------------------------------------
(***************************************************************************)
(* Previewing a prompt sequence: each step is evaluated on the branch the  *)
(* preceding checkouts and branch creations will have selected.            *)
(***************************************************************************)
SwitchKinds == {"Checkout", "CreateBranch"}

BranchAt(requests, branch, i) ==
  LET switches == {j \in DOMAIN requests : j < i /\ requests[j].kind \in SwitchKinds}
  IN IF switches = {} THEN branch
     ELSE requests[CHOOSE j \in switches : \A k \in switches : k <= j].target

StepEvaluations(p, requests, branch) ==
  [i \in DOMAIN requests |->
    Evaluate(p, RiskOf(requests[i].kind), requests[i].kind, BranchAt(requests, branch, i))]

SequenceEvaluations(p, requests, branch) ==
  [i \in DOMAIN requests |->
    Evaluate(p, SequenceRisk(RiskOf(requests[i].kind)), requests[i].kind,
             BranchAt(requests, branch, i))]

Reaches(evaluations, level) ==
  \E i \in DOMAIN evaluations : evaluations[i].requirement >= level

CombinedRequirement(evaluations) ==
  IF Reaches(evaluations, Blocked) THEN Blocked
  ELSE IF Reaches(evaluations, ExplicitConfirmation) THEN ExplicitConfirmation
  ELSE IF Reaches(evaluations, VisiblePlan) THEN VisiblePlan
  ELSE NormalSelection

CombinedReasons(evaluations) ==
  UNION {evaluations[i].reasons : i \in DOMAIN evaluations}

CanPlanSequence(p, requests) ==
  /\ Len(requests) >= 2
  /\ \A i \in DOMAIN requests :
       /\ requests[i].kind \in SequenceKinds
       /\ requests[i].kind \in RecoveryKinds => i = 1
       /\ ~IsDisabled(p, requests[i].kind)
  /\ ConflictModeAllows(requests)

-----------------------------------------------------------------------------
(***************************************************************************)
(* State of the queue and of a run.                                        *)
(***************************************************************************)
Repositories == [branch : Branches \cup {NoBranch}, op : {None, "merge", "rebase"}]

Running == {"seqLoad", "seqCheck", "check", "begin", "run", "act", "finish",
            "planLoad", "plan", "recheck", "wrap"}

Pendings == [requests : Seq(Requests), plan : Plans, requirement : Requirements,
             reasons : SUBSET Reasons,
             evals : Seq(Evaluations), seqEvals : Seq(Evaluations)]

IsSequence(requests) == Len(requests) > 1

\* A run of what was pending; results holds whether each step so far succeeded.
StartRun(p, operation) ==
  [requests |-> operation.requests, plan |-> operation.plan,
   confirmed |-> operation.requirement,
   evals |-> operation.evals, seqEvals |-> operation.seqEvals,
   policy |-> p, branch |-> NoBranch, results |-> <<>>, outcome |-> None]

Runs == [requests : Seq(Requests), plan : Plans, confirmed : Requirements,
         evals : Seq(Evaluations), seqEvals : Seq(Evaluations),
         policy : Policies \cup {SafeFallback}, branch : Branches \cup {NoBranch},
         results : Seq(BOOLEAN), outcome : {None, "completed", "error"}]

Entries == [status : {None, "started", "completed", "error"}, kind : Kinds \cup {None}]
Entry(status, kind) == [status |-> status, kind |-> kind]

TypeOK ==
  /\ file \in Policies \cup {Corrupt}
  /\ policy \in Policies \cup {SafeFallback}
  /\ repo \in Repositories
  /\ pending \in Pendings \cup {None}
  /\ pc \in Running \cup {"idle", "down"}
  /\ run \in Runs \cup {None}
  /\ journal \in Entries
  /\ consent \in Requirements
  /\ shown \subseteq Reasons
  /\ fresh \subseteq PolicyRecords
  /\ effect \in [kind : Kinds, branch : Branches \cup {NoBranch}] \cup {None}
  /\ moved \in BOOLEAN

Init ==
  /\ file \in Policies \cup {Corrupt}
  /\ policy = StartupPolicy
  /\ repo \in {r \in Repositories : r.op = None}
  /\ pending = None
  /\ pc = "idle"
  /\ run = None
  /\ journal = Entry(None, None)
  /\ consent = NormalSelection
  /\ shown = {}
  /\ fresh = {}
  /\ effect = None
  /\ moved = FALSE

-----------------------------------------------------------------------------
(***************************************************************************)
(* The event loop.  The policy is reloaded before each event is handled,   *)
(* and every second without one.  A request that is refused while it is    *)
(* planned leaves no more behind than such a reload.                       *)
(***************************************************************************)
ReloadTick ==
  /\ pc = "idle"
  /\ policy' = LoadPolicy(policy)
  /\ UNCHANGED <<file, repo, pending, pc, run, journal, history>>

Begin(first, p, operation, level, reasons) ==
  /\ run' = StartRun(p, operation)
  /\ pc' = first
  /\ pending' = None
  /\ consent' = level
  /\ shown' = reasons
  /\ fresh' = OnDisk(policy)
  /\ UNCHANGED <<effect, moved>>

\* submit_operation: the least requirement runs at once, any other is queued.
SubmitRequest(request) ==
  LET p == LoadPolicy(policy)
  IN /\ pc = "idle" /\ pending = None
     /\ request.kind \in DirectKinds \/ p.prompt
     /\ CanPlan(p, request)
     /\ policy' = p
     /\ \E kind \in PlannedKinds(request) :
          LET plan      == Prepare(p, request, kind)
              operation == [requests |-> <<request>>, plan |-> plan,
                            requirement |-> plan.requirement, reasons |-> plan.reasons,
                            evals |-> <<>>, seqEvals |-> <<>>]
          IN IF plan.requirement = NormalSelection
             THEN Begin("check", p, operation, NormalSelection, {})
             ELSE /\ pending' = operation
                  /\ UNCHANGED <<pc, run, history>>
     /\ UNCHANGED <<file, repo, journal>>

SubmitSequence(requests) ==
  LET p        == LoadPolicy(policy)
      evals    == StepEvaluations(p, requests, repo.branch)
      seqEvals == SequenceEvaluations(p, requests, repo.branch)
      all      == evals \o seqEvals
      blocked  == Reaches(all, Blocked)
  IN /\ pc = "idle" /\ pending = None
     /\ p.prompt
     /\ CanPlanSequence(p, requests)
     /\ blocked \/ CanPlan(p, requests[1])
     /\ policy' = p
     /\ \E kind \in PlannedKinds(requests[1]) :
          pending' = [requests |-> requests,
                      plan |-> Prepare(p, requests[1], kind),
                      requirement |-> CombinedRequirement(all),
                      reasons |-> CombinedReasons(all),
                      evals |-> evals, seqEvals |-> seqEvals]
     /\ UNCHANGED <<file, repo, pc, run, journal, history>>

Confirm(level) ==
  LET p == LoadPolicy(policy)
  IN /\ policy' = p
     /\ Begin(IF IsSequence(pending.requests) THEN "seqLoad" ELSE "check",
              p, pending, level, pending.reasons)

Confirms(key) ==
  \/ key = "Y" /\ pending.requirement = ExplicitConfirmation
  \/ key = "y" /\ pending.requirement \notin {ExplicitConfirmation, Blocked}

KeyLevel(key) == IF key = "Y" THEN ExplicitConfirmation ELSE VisiblePlan

\* A lower-case y on an explicit confirmation only reminds; any key that does
\* not confirm, and a left click, cancels.
HandleKey(key) ==
  /\ pc = "idle" /\ pending # None
  /\ IF Confirms(key) THEN Confirm(KeyLevel(key))
     ELSE /\ policy' = LoadPolicy(policy)
          /\ pending' = IF key = "y" /\ pending.requirement = ExplicitConfirmation
                        THEN pending ELSE None
          /\ UNCHANGED <<pc, run, history>>
  /\ UNCHANGED <<file, repo, journal>>

-----------------------------------------------------------------------------
(***************************************************************************)
(* Steps of a run.                                                         *)
(***************************************************************************)
StepNumber == Len(run.results) + 1
Plan       == run.plan

\* A step that is refused before anything happened ends the run.
Refused ==
  /\ run' = [run EXCEPT !.results = Append(@, FALSE), !.outcome = None]
  /\ pc' = "wrap"

\* Any step that reads the repository or prepares a plan may fail to.
StepRefused ==
  /\ pc \in {"seqCheck", "plan", "check"}
  /\ Refused
  /\ UNCHANGED <<file, policy, repo, pending, journal, history>>

\* execute_confirmed reloads the policy and settles the branch of step one.
SequenceLoad ==
  /\ pc = "seqLoad"
  /\ run' = [run EXCEPT !.policy = LoadPolicy(@),
                        !.branch = IF PolicyBranch(Plan) # NoBranch
                                   THEN PolicyBranch(Plan) ELSE repo.branch]
  /\ pc' = "seqCheck"
  /\ UNCHANGED <<file, policy, repo, pending, journal, history>>

\* Faulty variant, for trying the properties.
StepNotCompared(p, i) == i \in DOMAIN run.evals

StepCovered(p, i) ==
  /\ ConfirmationCovers(Plan.requirement, run.confirmed, run.evals[i],
                        EvaluatePlan(p, Plan))
  /\ ConfirmationCovers(Plan.requirement, run.confirmed, run.seqEvals[i],
                        EvaluateSequencePlan(p, Plan))

\* ... then reloads it once more and compares the whole preview with it.
SequenceCheck ==
  LET p == LoadPolicy(run.policy)
  IN /\ pc = "seqCheck"
     /\ SequenceConfirmationCovers(run.confirmed, run.evals,
                                   StepEvaluations(p, run.requests, run.branch))
     /\ SequenceConfirmationCovers(run.confirmed, run.seqEvals,
                                   SequenceEvaluations(p, run.requests, run.branch))
     /\ StepCovered(p, 1)
     /\ ConflictModeAllows(run.requests)
     /\ run' = [run EXCEPT !.policy = p]
     /\ pc' = "check"
     /\ UNCHANGED <<file, policy, repo, pending, journal, history>>

ValidatePolicy ==
  LET current == EvaluatePlan(run.policy, Plan)
  IN /\ ~IsDisabled(run.policy, Plan.kind)
     /\ Plan.requirement # Blocked
     /\ current.requirement <= Plan.requirement
     /\ ReasonsCovered(Plan.reasons, current)

\* PlanExecutor::execute: conflict mode and policy, then the plan's only step.
CheckPlan ==
  /\ pc = "check"
  /\ ConflictModeAllows(<<run.requests[StepNumber]>>)
  /\ ValidatePolicy
  /\ pc' = "begin"
  /\ UNCHANGED <<file, policy, repo, pending, run, journal, history>>

\* The audit entry that announces the step must be on disk before the step
\* runs.  A failed append may leave the entry in the log all the same.
AuditBegin ==
  /\ pc = "begin"
  /\ \/ /\ journal' = Entry("started", Plan.kind)
        /\ pc' = "run"
        /\ UNCHANGED run
     \/ /\ journal' \in {journal, Entry("started", Plan.kind)}
        /\ Refused
  /\ UNCHANGED <<file, policy, repo, pending, history>>

\* Faulty variant, for trying the properties.
PayloadIgnored == TRUE

\* The executor compares HEAD with the snapshot in the payload, and a recovery
\* the state it was previewed for, before it spawns the command that acts.  The
\* kinds that need a clean worktree also find no operation in progress.
PayloadStillHolds ==
  /\ Plan.kind \in HeadBoundKinds => repo.branch = Plan.head
  /\ Plan.kind \in CleanKinds => repo.op = None
  /\ Plan.kind \in RecoveryKinds => repo.op = RecoveredOperation(Plan.kind)

CheckPayload ==
  /\ pc = "run"
  /\ PayloadStillHolds
  /\ moved' = FALSE
  /\ pc' = "act"
  /\ UNCHANGED <<file, policy, repo, pending, run, journal, consent, shown, fresh, effect>>

\* A push, and a commit on a branch, name the ref they work on; every other
\* command works on whatever HEAD is when Git reads it.
NamesItsRef(plan) == plan.kind \in PushKinds \cup {"Commit"} /\ plan.head # NoBranch
ActsOn(plan) == IF NamesItsRef(plan) THEN plan.head ELSE repo.branch

\* Git itself refuses these while another operation is in progress.
GitAllows(kind) ==
  /\ kind \in CleanKinds \cup PullKinds => repo.op = None
  /\ kind \in RecoveryKinds => repo.op = RecoveredOperation(kind)

\* What a successful step does to HEAD and to the operation in progress.
ReposAfter(kind, target) ==
  IF kind \in SwitchKinds THEN {[repo EXCEPT !.branch = target]}
  ELSE IF kind \in MergeRecovery THEN {[repo EXCEPT !.op = None]}
  ELSE IF kind \in RebaseRecovery THEN {[branch |-> b, op |-> None] : b \in Branches}
  ELSE {repo}

\* What a step that fails may have done: a rebase stops at a conflict.
ReposAfterFailure(kind) ==
  IF kind \in {"Rebase", "PullRebase"} THEN {[branch |-> NoBranch, op |-> "rebase"]}
  ELSE IF kind \in RecoveryKinds \/ kind \in PushKinds \cup {"OpenPullRequest"} THEN {repo}
  ELSE {}

RunStep ==
  /\ pc = "act"
  /\ GitAllows(Plan.kind)
  /\ effect' = [kind |-> Plan.kind, branch |-> ActsOn(Plan)]
  /\ \/ /\ repo' \in ReposAfter(Plan.kind, Plan.target)
        /\ run' = [run EXCEPT !.outcome = "completed"]
     \/ /\ repo' \in ReposAfterFailure(Plan.kind)
        /\ run' = [run EXCEPT !.outcome = "error"]
  /\ pc' = "finish"
  /\ UNCHANGED <<file, policy, pending, journal, consent, shown, fresh, moved>>

\* The step finds the repository changed, or its command fails, without effect.
StepFails ==
  /\ pc \in {"run", "act"}
  /\ run' = [run EXCEPT !.outcome = "error"]
  /\ pc' = "finish"
  /\ UNCHANGED <<file, policy, repo, pending, journal, history>>

\* Faulty variant, for trying the properties.
StepSucceededUnaudited(written) == run.outcome = "completed"

\* The terminal audit entry.  The step succeeded only if its command did and
\* this entry was written; after a failure nothing else of the run executes.
StepSucceeded(written) == run.outcome = "completed" /\ written

AfterStep(succeeded) ==
  IF succeeded /\ Len(run.results) + 1 < Len(run.requests) THEN "planLoad" ELSE "wrap"

AuditFinish ==
  /\ pc = "finish"
  /\ \E written \in BOOLEAN :
       /\ journal' \in {Entry(run.outcome, Plan.kind)} \cup
                       (IF written THEN {} ELSE {journal})
       /\ run' = [run EXCEPT !.results = Append(@, StepSucceeded(written)),
                             !.outcome = None]
       /\ pc' = AfterStep(StepSucceeded(written))
  /\ effect' = None /\ moved' = FALSE
  /\ UNCHANGED <<file, policy, repo, pending, consent, shown, fresh>>

-----------------------------------------------------------------------------
(***************************************************************************)
(* A deferred step of a sequence: reload, plan afresh, reload, compare.    *)
(***************************************************************************)
DeferredLoad ==
  /\ pc = "planLoad"
  /\ run' = [run EXCEPT !.policy = LoadPolicy(@)]
  /\ fresh' = OnDisk(run.policy)
  /\ pc' = "plan"
  /\ UNCHANGED <<file, policy, repo, pending, journal, consent, shown, effect, moved>>

DeferredPlan ==
  LET request == run.requests[StepNumber]
  IN /\ pc = "plan"
     /\ CanPlan(run.policy, request)
     /\ \E kind \in PlannedKinds(request) :
          run' = [run EXCEPT !.plan = Prepare(run.policy, request, kind)]
     /\ pc' = "recheck"
     /\ UNCHANGED <<file, policy, repo, pending, journal, history>>

\* Faulty variant, for trying the properties.
DeferredRecheckOnlyIfCovered ==
  LET p == LoadPolicy(run.policy)
  IN /\ pc = "recheck"
     /\ StepCovered(p, StepNumber)
     /\ run' = [run EXCEPT !.policy = p]
     /\ pc' = "check"
     /\ UNCHANGED <<file, policy, repo, pending, journal, history>>

DeferredRecheck ==
  LET p == LoadPolicy(run.policy)
  IN /\ pc = "recheck"
     /\ IF StepCovered(p, StepNumber)
        THEN run' = [run EXCEPT !.policy = p] /\ pc' = "check"
        ELSE run' = [run EXCEPT !.policy = p, !.results = Append(@, FALSE)]
             /\ pc' = "wrap"
     /\ UNCHANGED <<file, policy, repo, pending, journal, history>>

\* The session adopts the policy of the run, reloads it and is idle again.
Wrap ==
  /\ pc = "wrap"
  /\ policy' = LoadPolicy(IF IsSequence(run.requests) THEN run.policy ELSE policy)
  /\ run' = None
  /\ pc' = "idle"
  /\ consent' = NormalSelection /\ shown' = {} /\ fresh' = {}
  /\ UNCHANGED <<file, repo, pending, journal, effect, moved>>

Executor ==
  \/ StepRefused \/ SequenceLoad \/ SequenceCheck \/ CheckPlan
  \/ AuditBegin \/ CheckPayload \/ RunStep \/ StepFails \/ AuditFinish
  \/ DeferredLoad \/ DeferredPlan \/ DeferredRecheck \/ Wrap

-----------------------------------------------------------------------------
(***************************************************************************)
(* The process ends by a quit or a crash at any point: pending operations  *)
(* and the run are lost, the repository and the audit log are not.         *)
(***************************************************************************)
Stop ==
  /\ pc # "down"
  /\ pc' = "down"
  /\ pending' = None /\ run' = None /\ effect' = None /\ moved' = FALSE
  /\ consent' = NormalSelection /\ shown' = {} /\ fresh' = {}
  /\ UNCHANGED <<file, policy, repo, journal>>

Restart ==
  /\ pc = "down"
  /\ pc' = "idle"
  /\ policy' = StartupPolicy
  /\ UNCHANGED <<file, repo, pending, run, journal, history>>

(***************************************************************************)
(* Everyone else: editors of the configuration and other Git clients.      *)
(***************************************************************************)
EditConfig(content) ==
  /\ content # file
  /\ file' = content
  /\ fresh' = IF pc \in Running /\ content # Corrupt THEN fresh \cup {content} ELSE fresh
  /\ UNCHANGED <<policy, repo, pending, pc, run, journal, consent, shown, effect, moved>>

OtherGitClient ==
  /\ \/ repo.op = None /\ repo' \in {r \in Repositories : r.op = None}
     \/ repo.op = None /\ repo' = [repo EXCEPT !.op = "merge"]
     \/ repo.op = None /\ repo' = [branch |-> NoBranch, op |-> "rebase"]
     \/ repo.op # None /\ repo' \in {r \in Repositories : r.op = None}
  /\ moved' = (moved \/ (pc = "act" /\ repo'.branch # repo.branch))
  /\ UNCHANGED <<file, policy, pending, pc, run, journal, consent, shown, fresh, effect>>

User ==
  \/ \E request \in SingleRequests : SubmitRequest(request)
  \/ \E requests \in SequenceRequests : SubmitSequence(requests)
  \/ \E key \in {"y", "Y", "n"} : HandleKey(key)

Next ==
  \/ ReloadTick \/ User \/ Executor \/ Stop \/ Restart
  \/ \E content \in Policies \cup {Corrupt} : EditConfig(content)
  \/ OtherGitClient

Spec == Init /\ [][Next]_vars

\* The session's thread runs on by itself, and polls at least every second.
FairSpec == Spec /\ WF_vars(Executor) /\ WF_vars(ReloadTick)

-----------------------------------------------------------------------------
(***************************************************************************)
(* Properties.                                                             *)
(***************************************************************************)

\* Whatever step touched the repository, the confirmation the user gave is at
\* least what the policy in force demands of that kind of operation on the
\* branch HEAD really named at that moment; nothing that policy blocks or
\* disables ever runs, in a single operation or in any step of a sequence
\* (handle_key, validate_policy, execute_confirmed).
EffectAuthorized ==
  effect # None =>
    LET risk == IF IsSequence(run.requests) THEN SequenceRisk(RiskOf(effect.kind))
                                            ELSE RiskOf(effect.kind)
    IN Evaluate(run.policy, risk, effect.kind, effect.branch).requirement <= consent

\* An operation that commits to, pushes, merges into or rebases a protected
\* branch runs only if the preview the user confirmed named that rule for that
\* branch, however the branch came to be checked out (confirmation_covers).  The
\* commands that work on whatever HEAD is are exempt when another program
\* switched it in the moment between the executor's last look and the command;
\* a push and a commit on a branch never are.
ProtectionWasShown ==
  effect # None /\ effect.kind \in PolicyBranchKinds /\ (moved => NamesItsRef(Plan)) =>
    Evaluate(run.policy, RiskOf(effect.kind), effect.kind, effect.branch).reasons
      \subseteq shown

\* A step acts under a policy that was in the file at some moment since the step
\* began (since the confirming key, for the first one), or under the last valid
\* one while the file is broken: a rule written before a step of a sequence
\* starts is never missed by it (execute_confirmed's repeated load_policy).
FreshPolicy ==
  effect # None => run.policy \in fresh

\* A failed, refused or unaudited step is the last one of its run: no later step
\* of a sequence touches the repository ("Stop a multi-step operation after the
\* first failed step", docs/guardrails.md).
StopsAtFirstFailure ==
  run # None =>
    /\ \A i \in DOMAIN run.results : i < Len(run.results) => run.results[i]
    /\ effect # None => \A i \in DOMAIN run.results : run.results[i]

\* No operation touches the repository unless the last entry of the audit log
\* announces it, so that a crash right after leaves a trace of it; and a run
\* goes on to a further step only from a log that says the previous one
\* completed (execute_step).
AuditTrailTruthful ==
  /\ effect # None => journal = Entry("started", effect.kind)
  /\ pc = "planLoad" => journal = Entry("completed", Plan.kind)

\* A run ends, whatever fails in it, unless the process does.
RunEnds == (pc \in Running) ~> (pc \in {"idle", "down"})

\* A configuration that stays in the file is adopted by a session that is not
\* stopped, whatever it retained before (POLICY_RELOAD_INTERVAL).
ConfigAdopted ==
  \A p \in Policies :
    (<>[](file = p /\ pc # "down")) => <>[](pc = "idle" => policy = p)

=============================================================================
