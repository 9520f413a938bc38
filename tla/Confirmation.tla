----------------------------- MODULE Confirmation -----------------------------
(***************************************************************************)
(* What the user reads before a key carries out a plan: the prompt of the  *)
(* plan, rewritten when the policy demands more than its risk              *)
(* (crates/bitbygit-tui/src/lib.rs, apply_policy_evaluation), and the      *)
(* panels that name the key, the reason and the action (queue_panel_text,  *)
(* compact_queue_panel).                                                   *)
(*                                                                         *)
(* A sentence is the record of what it says: the key it names and the      *)
(* steps it speaks of.                                                     *)
(***************************************************************************)
EXTENDS Policy, Lists, Functions

CONSTANTS
  NoPlan,
  Rules,            \* the policies the session may run under
  PromptSequences   \* sequences of steps: a kind, and the branch it switches to

ASSUME ConfirmationAssumption ==
  /\ Rules \subseteq PolicyRecords
  /\ PromptSequences \subseteq Seq([kind : Kinds, target : Branches \cup {NoBranch}])
  /\ \A steps \in PromptSequences : steps # <<>>

VARIABLES
  rules,       \* the policy in force
  checkedOut,  \* the branch HEAD names, or NoBranch
  queued       \* the plan that waits for a key, or NoPlan

confirmationVars == <<rules, checkedOut, queued>>

-----------------------------------------------------------------------------
(***************************************************************************)
(* Reasons, in the order they are given.                                   *)
(***************************************************************************)
Reason(rule, subject, demands) == [rule |-> rule, subject |-> subject, demands |-> demands]

\* evaluate_confirmation; what the policy disables is refused before it could be
\* shown, so that reason is not among these.
ReasonList(p, risk, kind, branch) ==
  <<Reason("risk", <<risk>>, ConfirmationRequirement(p, risk))>>
  \o (IF ProtectionApplies(p, kind, branch)
      THEN <<Reason("protected", <<branch, ActionLabel(kind)>>, ProtectedMinimum(kind))>>
      ELSE <<>>)

Explained(p, risk, kind, branch) ==
  [requirement |-> Evaluate(p, risk, kind, branch).requirement,
   reasons     |-> ReasonList(p, risk, kind, branch)]

\* combined_policy_evaluation
Demanded(evaluations, level) ==
  \E i \in DOMAIN evaluations : evaluations[i].requirement >= level

Highest(evaluations) ==
  IF Demanded(evaluations, Blocked) THEN Blocked
  ELSE IF Demanded(evaluations, ExplicitConfirmation) THEN ExplicitConfirmation
  ELSE IF Demanded(evaluations, VisiblePlan) THEN VisiblePlan
  ELSE NormalSelection

\* The reasons that are not among the given ones yet.
Further(reasons, given) == Sublist(reasons, Range(reasons) \ Range(given))

AllReasons(evaluations) ==
  LET all[i \in 0..Len(evaluations)] ==
        IF i = 0 THEN <<>>
        ELSE all[i - 1] \o Further(evaluations[i].reasons, all[i - 1])
  IN all[Len(evaluations)]

Combined(evaluations) ==
  [requirement |-> Highest(evaluations), reasons |-> AllReasons(evaluations)]

-----------------------------------------------------------------------------
(***************************************************************************)
(* Plans and their prompts.                                                *)
(***************************************************************************)
\* "Press y to ...", "press uppercase Y to ...", "Policy blocks ... Press n to
\* dismiss", or nothing.
Sentence(key, steps) == [key |-> key, steps |-> steps]

KeyFor(requirement) ==
  IF requirement = NormalSelection THEN "none"
  ELSE IF requirement = VisiblePlan THEN "y"
  ELSE IF requirement = ExplicitConfirmation THEN "Y"
  ELSE "dismiss"

NewPlan(steps, risk, sentence) ==
  [steps |-> steps, requirement |-> RiskFloor(risk), reasons |-> <<>>, sentence |-> sentence]

\* The plan builders: stage_paths_plan to open_pull_request_plan.
PlanFor(kind) ==
  NewPlan(<<kind>>, RiskOf(kind),
          IF RiskOf(kind) = Low THEN Sentence("none", <<>>)
          ELSE Sentence(IF RiskOf(kind) = High THEN "Y" ELSE "y", <<kind>>))

\* prompt_sequence_plan
HasHighRisk(kinds) == \E i \in DOMAIN kinds : RiskOf(kinds[i]) >= High

SequencePlan(kinds) ==
  NewPlan(kinds, IF HasHighRisk(kinds) THEN High ELSE Medium,
          Sentence(IF HasHighRisk(kinds) THEN "Y" ELSE "y", kinds))

\* Faulty variant: a prompt that names no action is read as the first step's.
ActionOfFirstStep(plan) ==
  IF plan.sentence.key \in {"y", "Y"} THEN plan.sentence.steps ELSE <<plan.steps[1]>>

\* confirmation_action
ConfirmationAction(plan) ==
  IF plan.sentence.key \in {"y", "Y"} THEN plan.sentence.steps ELSE plan.steps

\* confirmation_prompt
ConfirmationPrompt(plan, requirement) ==
  IF requirement = NormalSelection THEN Sentence("none", <<>>)
  ELSE Sentence(KeyFor(requirement), ConfirmationAction(plan))

\* Faulty variant: the prompt stays as it was written for the risk alone.
ApplyToRequirement(plan, evaluation) ==
  [plan EXCEPT !.requirement = MaxOf(plan.requirement, evaluation.requirement),
               !.reasons = evaluation.reasons]

\* apply_policy_evaluation
ApplyEvaluation(plan, evaluation) ==
  LET requirement == MaxOf(plan.requirement, evaluation.requirement)
  IN [steps       |-> plan.steps,
      requirement |-> requirement,
      reasons     |-> evaluation.reasons,
      sentence    |-> IF requirement = plan.requirement THEN plan.sentence
                      ELSE ConfirmationPrompt(plan, requirement)]

-----------------------------------------------------------------------------
(***************************************************************************)
(* The panels.                                                             *)
(***************************************************************************)

\* policy_reason: first what demands the requirement in force, and of that the
\* rules of protected branches.
OrderedReasons(plan) ==
  LET Controlling == {r \in Range(plan.reasons) : r.demands = plan.requirement}
      Protecting  == {r \in Range(plan.reasons) : r.rule = "protected"}
      Others      == Range(plan.reasons) \ Controlling
  IN Sublist(plan.reasons, Controlling \cap Protecting)
       \o Sublist(plan.reasons, Controlling \ Protecting)
       \o Sublist(plan.reasons, Others \cap Protecting)
       \o Sublist(plan.reasons, Others \ Protecting)

\* queue_panel_text
QueuePanel(plan) ==
  [key |-> KeyFor(plan.requirement), reasons |-> OrderedReasons(plan),
   action |-> ConfirmationAction(plan), steps |-> plan.steps]

\* compact_queue_panel, on a small terminal
CompactPanel(plan) ==
  [key |-> KeyFor(plan.requirement), reason |-> OrderedReasons(plan)[1],
   action |-> ConfirmationAction(plan)]

-----------------------------------------------------------------------------
(***************************************************************************)
(* Steps.                                                                  *)
(***************************************************************************)
\* policy_branch
BoundKinds == PushKinds \cup PullKinds \cup {"Commit", "Merge", "Rebase"}

\* submit_operation
QueueRequest ==
  /\ queued = NoPlan
  /\ \E kind \in Kinds \ ReadKinds :
       LET branch == IF kind \in BoundKinds THEN checkedOut ELSE NoBranch
           plan   == ApplyEvaluation(PlanFor(kind), Explained(rules, RiskOf(kind), kind, branch))
       IN /\ ~IsDisabled(rules, kind)
          /\ plan.requirement # NormalSelection
          /\ queued' = plan
  /\ UNCHANGED <<rules, checkedOut>>

\* The branch a step finds checked out if the steps before it succeed.
BranchBefore(steps, i) ==
  LET switches == {j \in 1..(i - 1) : steps[j].target # NoBranch}
  IN IF switches = {} THEN checkedOut
     ELSE steps[CHOOSE j \in switches : \A k \in switches : k <= j].target

\* prompt_sequence_policy_evaluations: each step at its own risk, then each at
\* that of a sequence.
StepEvaluation(steps, i, risk) ==
  Explained(rules, risk, steps[i].kind, BranchBefore(steps, i))

SequenceEvaluations(steps) ==
  [i \in 1..Len(steps) |-> StepEvaluation(steps, i, RiskOf(steps[i].kind))]
  \o [i \in 1..Len(steps) |-> StepEvaluation(steps, i, SequenceRisk(RiskOf(steps[i].kind)))]

\* plan_prompt_sequence
QueueSequence ==
  /\ queued = NoPlan
  /\ \E steps \in PromptSequences :
       LET kinds == [i \in 1..Len(steps) |-> steps[i].kind]
       IN /\ \A i \in 1..Len(steps) : ~IsDisabled(rules, kinds[i])
          /\ queued' = ApplyEvaluation(SequencePlan(kinds), Combined(SequenceEvaluations(steps)))
  /\ UNCHANGED <<rules, checkedOut>>

\* handle_key
CarriesOut(key, requirement) ==
  \/ key = "Y" /\ requirement = ExplicitConfirmation
  \/ key = "y" /\ requirement \notin {ExplicitConfirmation, Blocked}

\* The plan is carried out, cancelled, or left for the right key.
PressKey ==
  /\ queued # NoPlan
  /\ \E key \in {"y", "Y", "n"} :
       queued' = IF key = "y" /\ queued.requirement = ExplicitConfirmation
                 THEN queued ELSE NoPlan
  /\ UNCHANGED <<rules, checkedOut>>

\* A reload of the policy, and other clients.
RulesChange  == rules' \in Rules /\ UNCHANGED <<checkedOut, queued>>
BranchChange == checkedOut' \in Branches \cup {NoBranch} /\ UNCHANGED <<rules, queued>>

ConfirmationInit ==
  /\ rules \in Rules
  /\ checkedOut \in Branches \cup {NoBranch}
  /\ queued = NoPlan

ConfirmationNext == QueueRequest \/ QueueSequence \/ PressKey \/ RulesChange \/ BranchChange

ConfirmationSpec == ConfirmationInit /\ [][ConfirmationNext]_confirmationVars

-----------------------------------------------------------------------------
(***************************************************************************)
(* Properties.                                                             *)
(***************************************************************************)

\* The key that the plan, the queue panel and the small panel name is the one
\* that carries the plan out, and no other key does, whatever policy, sequence
\* or protected branch has raised what the risk alone would ask for.
KeyIsTheOneNamed ==
  queued # NoPlan =>
    \A key \in {"y", "Y", "n"} :
      LET carriesOut == CarriesOut(key, queued.requirement)
      IN /\ carriesOut <=> queued.sentence.key = key
         /\ carriesOut <=> QueuePanel(queued).key = key
         /\ carriesOut <=> CompactPanel(queued).key = key

\* The prompt and both panels speak of all steps that will be run, also after the
\* prompt was rewritten and when the plan is blocked; and the one reason a small
\* terminal has room for demands the requirement in force, and is the protected
\* branch if that does.
ShowsWhatWillRunAndWhy ==
  queued # NoPlan =>
    LET reason == CompactPanel(queued).reason
    IN /\ queued.sentence.steps = queued.steps
       /\ QueuePanel(queued).action = queued.steps
       /\ CompactPanel(queued).action = queued.steps
       /\ reason.demands = queued.requirement
       /\ \A i \in DOMAIN queued.reasons :
            /\ queued.reasons[i].demands = queued.requirement
            /\ queued.reasons[i].rule = "protected"
            => reason.rule = "protected"

=============================================================================
