------------------------------- MODULE Policy -------------------------------
(***************************************************************************)
(* The guardrail policy of BitByGit: how an operation's risk, the          *)
(* configuration and the branch it works on decide which confirmation the  *)
(* user must give (crates/bitbygit-core/src/policy.rs), and how the        *)
(* evaluations of a preview and of a later moment are compared             *)
(* (crates/bitbygit-tui/src/lib.rs).                                       *)
(*                                                                         *)
(* A branch pattern is abstracted to the set of branches it matches, and a *)
(* reason to the pair <<branch, action label>> of a protected-branch rule: *)
(* the other reasons are displayed and decide nothing.                     *)
(***************************************************************************)
EXTENDS Naturals, FiniteSets

CONSTANTS
  Branches,          \* names of branches
  BuiltInProtected,  \* those matched by main, master, develop or release/*
  NoBranch           \* no branch: a detached HEAD, or an operation bound to none

ASSUME BranchAssumption ==
  /\ BuiltInProtected \subseteq Branches
  /\ NoBranch \notin Branches

-----------------------------------------------------------------------------
(***************************************************************************)
(* Confirmation requirements and risk levels, both ordered.                *)
(***************************************************************************)
NormalSelection      == 0
VisiblePlan          == 1
ExplicitConfirmation == 2
Blocked              == 3
Requirements         == NormalSelection .. Blocked

Low              == 0
Medium           == 1
High             == 2
BlockedByDefault == 3
RiskLevels       == Low .. BlockedByDefault

\* The requirement a risk level has before any configuration.
RiskFloor(risk) == risk

MaxOf(a, b) == IF a >= b THEN a ELSE b

-----------------------------------------------------------------------------
(***************************************************************************)
(* Operation kinds and the family a configuration disables them by.        *)
(***************************************************************************)
StageKinds    == {"StagePaths", "StageAll"}
UnstageKinds  == {"UnstagePaths", "UnstageAll"}
PushKinds     == {"PushCurrentBranch", "PushSetUpstream"}
PullKinds     == {"PullFastForward", "PullRebase"}
MergeRecovery == {"MergeContinue", "MergeAbort"}
RebaseRecovery == {"RebaseContinue", "RebaseAbort", "RebaseSkip"}
RecoveryKinds == MergeRecovery \cup RebaseRecovery
ReadKinds     == {"RefreshStatus", "ViewDiff"}
SelfNamed     == {"RefreshStatus", "ViewDiff", "Fetch", "Commit", "Branches",
                  "Checkout", "CreateBranch", "OpenPullRequest"}
Kinds == StageKinds \cup UnstageKinds \cup PushKinds \cup PullKinds
           \cup RecoveryKinds \cup SelfNamed \cup {"Merge", "Rebase"}

Families == SelfNamed \cup {"Stage", "Unstage", "Push", "Pull", "Merge", "Rebase"}

OperationFamily(kind) ==
  IF kind \in StageKinds THEN "Stage"
  ELSE IF kind \in UnstageKinds THEN "Unstage"
  ELSE IF kind \in PushKinds THEN "Push"
  ELSE IF kind \in PullKinds THEN "Pull"
  ELSE IF kind \in MergeRecovery THEN "Merge"
  ELSE IF kind \in RebaseRecovery THEN "Rebase"
  ELSE kind

\* The two push kinds are one action in a reason; every other kind is its own.
ActionLabel(kind) == IF kind \in PushKinds THEN "Push" ELSE kind

\* The risk the plan builders give the single step of each kind.
HighKinds == {"PullRebase", "Rebase"} \cup RecoveryKinds
LowKinds  == ReadKinds \cup {"Fetch", "Branches", "StagePaths", "UnstagePaths"}
RiskOf(kind) ==
  IF kind \in HighKinds THEN High ELSE IF kind \in LowKinds THEN Low ELSE Medium

\* A step of a prompt sequence is never shown as less than medium risk.
SequenceRisk(risk) == MaxOf(risk, Medium)

-----------------------------------------------------------------------------
(***************************************************************************)
(* A policy, and what it demands.                                          *)
(***************************************************************************)
PolicyRecords ==
  [protected : SUBSET Branches,
   low : Requirements, medium : Requirements, high : Requirements,
   disabled : SUBSET Families,
   prompt : BOOLEAN]

DefaultPolicy ==
  [protected |-> {}, low |-> NormalSelection, medium |-> VisiblePlan,
   high |-> ExplicitConfirmation, disabled |-> {}, prompt |-> TRUE]

\* What the session runs under when the configuration cannot be read at startup.
SafeFallback ==
  [protected |-> {}, low |-> Blocked, medium |-> Blocked, high |-> Blocked,
   disabled |-> Families, prompt |-> FALSE]

IsProtected(p, branch) == branch \in BuiltInProtected \cup p.protected

IsDisabled(p, kind) == OperationFamily(kind) \in p.disabled

\* A configured level below the floor of its risk is raised to the floor.
ConfirmationRequirement(p, risk) ==
  IF risk = Low THEN MaxOf(p.low, NormalSelection)
  ELSE IF risk = Medium THEN MaxOf(p.medium, VisiblePlan)
  ELSE IF risk = High THEN MaxOf(p.high, ExplicitConfirmation)
  ELSE Blocked

\* The kinds with a minimum on a protected branch; the others have none.
ProtectedVisibleKinds  == PushKinds \cup {"Commit"}
ProtectedExplicitKinds == {"PullRebase", "Rebase"} \cup RecoveryKinds
ProtectedMinimum(kind) ==
  IF kind \in ProtectedVisibleKinds THEN VisiblePlan
  ELSE IF kind \in ProtectedExplicitKinds THEN ExplicitConfirmation
  ELSE NormalSelection

ProtectionApplies(p, kind, branch) ==
  /\ branch \in Branches
  /\ IsProtected(p, branch)
  /\ kind \in ProtectedVisibleKinds \cup ProtectedExplicitKinds

Evaluate(p, risk, kind, branch) ==
  LET applies == ProtectionApplies(p, kind, branch)
      base    == ConfirmationRequirement(p, risk)
  IN [requirement |-> IF IsDisabled(p, kind) THEN Blocked
                      ELSE IF applies THEN MaxOf(base, ProtectedMinimum(kind))
                      ELSE base,
      reasons     |-> IF applies THEN {<<branch, ActionLabel(kind)>>} ELSE {}]

Reasons     == Branches \X (Kinds \cup {"Push"})
Evaluations == [requirement : Requirements, reasons : SUBSET Reasons]

-----------------------------------------------------------------------------
(***************************************************************************)
(* Comparing the evaluation the user saw with the current one.             *)
(***************************************************************************)

ReasonsCovered(previewed, current) == current.reasons \subseteq previewed

ConfirmationCovers(planRequirement, confirmed, previewed, current) ==
  /\ planRequirement # Blocked
  /\ planRequirement <= confirmed
  /\ current.requirement <= previewed.requirement
  /\ ReasonsCovered(previewed.reasons, current)

SequenceConfirmationCovers(confirmed, previewed, current) ==
  /\ confirmed # Blocked
  /\ DOMAIN previewed = DOMAIN current
  /\ \A i \in DOMAIN previewed :
       /\ previewed[i].requirement # Blocked
       /\ current[i].requirement # Blocked
       /\ previewed[i].requirement <= confirmed
       /\ current[i].requirement <= previewed[i].requirement
       /\ ReasonsCovered(previewed[i].reasons, current[i])

=============================================================================
