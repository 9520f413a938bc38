--------------------------- MODULE Session_proofs ---------------------------
(***************************************************************************)
(* What the policy and the session guarantee for every set of branches,    *)
(* policies and requests: the floors of the policy; the types of a         *)
(* session, and the inductive invariant that carries what the user         *)
(* confirmed from the preview to the command.                              *)
(***************************************************************************)
EXTENDS GuardedSession, TLAPS

USE DEF NormalSelection, VisiblePlan, ExplicitConfirmation, Blocked, Requirements,
        Low, Medium, High, BlockedByDefault, RiskLevels

\* The risk of a kind, alone or in a sequence, is a risk level, and a sequence
\* never lowers it.
LEMMA RiskType ==
  ASSUME NEW kind
  PROVE  /\ RiskOf(kind) \in {Low, Medium, High}
         /\ SequenceRisk(RiskOf(kind)) \in {Medium, High}
         /\ RiskOf(kind) <= SequenceRisk(RiskOf(kind))
  BY DEF RiskOf, SequenceRisk, MaxOf

\* A configuration that lowers the level of a risk is raised to the floor of
\* that risk (EffectivePolicy::confirmation_requirement).
LEMMA RequirementType ==
  ASSUME NEW p \in PolicyRecords, NEW risk \in RiskLevels
  PROVE  /\ ConfirmationRequirement(p, risk) \in Requirements
         /\ RiskFloor(risk) <= ConfirmationRequirement(p, risk)
  <1>1. p.low \in Requirements /\ p.medium \in Requirements /\ p.high \in Requirements
    BY DEF PolicyRecords
  <1>2. QED
    BY <1>1 DEF ConfirmationRequirement, MaxOf, RiskFloor

\* What a policy evaluates to is a requirement and a set of reasons.
LEMMA EvaluateType ==
  ASSUME NEW p \in PolicyRecords, NEW risk \in RiskLevels,
         NEW kind \in Kinds, NEW branch
  PROVE  Evaluate(p, risk, kind, branch) \in Evaluations
  <1>1. ConfirmationRequirement(p, risk) \in Requirements
    BY RequirementType
  <1>2. ProtectedMinimum(kind) \in Requirements
    BY DEF ProtectedMinimum
  <1>3. Evaluate(p, risk, kind, branch).requirement \in Requirements
    BY <1>1, <1>2 DEF Evaluate, MaxOf
  <1>4. ActionLabel(kind) \in Kinds \cup {"Push"}
    BY DEF ActionLabel
  <1>5. Evaluate(p, risk, kind, branch).reasons \subseteq Reasons
    BY <1>4 DEF Evaluate, ProtectionApplies, Reasons
  <1>6. QED
    BY <1>3, <1>5 DEF Evaluations, Evaluate

\* No configuration weakens the built-in floor: an operation always needs at
\* least the confirmation its risk has without one.
THEOREM FloorIsKept ==
  ASSUME NEW p \in PolicyRecords, NEW risk \in RiskLevels,
         NEW kind \in Kinds, NEW branch
  PROVE  RiskFloor(risk) <= Evaluate(p, risk, kind, branch).requirement
  <1>1. /\ ConfirmationRequirement(p, risk) \in Requirements
        /\ RiskFloor(risk) <= ConfirmationRequirement(p, risk)
    BY RequirementType
  <1>2. ProtectedMinimum(kind) \in Requirements
    BY DEF ProtectedMinimum
  <1>3. RiskFloor(risk) \in Requirements
    BY DEF RiskFloor
  <1>4. QED
    BY <1>1, <1>2, <1>3 DEF Evaluate, MaxOf

\* The minimum a protected branch sets is never above the floor of the risk its
\* kind is planned with, so that the requirement of a plan does not depend on
\* the branch: protection is shown as a reason, and it is the reason, not the
\* requirement, that tells a protected branch from another one.
THEOREM RequirementIgnoresBranch ==
  ASSUME NEW p \in PolicyRecords, NEW kind \in Kinds, NEW branch, NEW other,
         NEW risk \in {RiskOf(kind), SequenceRisk(RiskOf(kind))}
  PROVE  Evaluate(p, risk, kind, branch).requirement
           = Evaluate(p, risk, kind, other).requirement
  <1>1. risk \in RiskLevels /\ RiskOf(kind) <= risk /\ RiskOf(kind) \in RiskLevels
    BY RiskType
  <1>2. /\ ConfirmationRequirement(p, risk) \in Requirements
        /\ risk <= ConfirmationRequirement(p, risk)
    BY <1>1, RequirementType DEF RiskFloor
  <1>3. ProtectedMinimum(kind) <= RiskOf(kind) /\ ProtectedMinimum(kind) \in Requirements
    BY DEF ProtectedMinimum, RiskOf, ProtectedVisibleKinds, ProtectedExplicitKinds,
           PushKinds, HighKinds, LowKinds, ReadKinds, RecoveryKinds, MergeRecovery,
           RebaseRecovery
  <1>4. MaxOf(ConfirmationRequirement(p, risk), ProtectedMinimum(kind))
          = ConfirmationRequirement(p, risk)
    BY <1>1, <1>2, <1>3 DEF MaxOf
  <1>5. QED
    BY <1>4 DEF Evaluate

\* An operation that needs no confirmation has no protected-branch reason that
\* a user ought to have seen.
LEMMA NothingToShow ==
  ASSUME NEW p \in PolicyRecords, NEW kind \in Kinds, NEW branch,
         Evaluate(p, RiskOf(kind), kind, branch).requirement = NormalSelection
  PROVE  Evaluate(p, RiskOf(kind), kind, branch).reasons = {}
  <1>1. RiskOf(kind) = Low
    BY FloorIsKept, RiskType DEF RiskFloor
  <1>2. kind \notin ProtectedVisibleKinds \cup ProtectedExplicitKinds
    BY <1>1 DEF RiskOf, ProtectedVisibleKinds, ProtectedExplicitKinds,
           PushKinds, HighKinds, LowKinds, ReadKinds, RecoveryKinds, MergeRecovery,
           RebaseRecovery
  <1>3. QED
    BY <1>2 DEF Evaluate, ProtectionApplies

\* The built-in policy and the fallback are policies.
LEMMA KnownPolicies == DefaultPolicy \in PolicyRecords /\ SafeFallback \in PolicyRecords
  BY DEF DefaultPolicy, SafeFallback, PolicyRecords

-----------------------------------------------------------------------------
(***************************************************************************)
(* The inductive invariant.                                                *)
(***************************************************************************)
\* A run exists exactly while the session executes one, and an effect only
\* while its step is being finished.
RunExists ==
  /\ pc \in Running => run \in Runs
  /\ pc \notin Running => run = None
  /\ effect # None => pc = "finish" /\ effect.kind = Plan.kind

\* What is queued shows what it asks for.
PendingShows ==
  pending # None =>
    IF IsSequence(pending.requests)
    THEN /\ DOMAIN pending.evals = DOMAIN pending.requests
         /\ \A i \in DOMAIN pending.evals : pending.evals[i].reasons \subseteq pending.reasons
    ELSE /\ Len(pending.requests) = 1
         /\ pending.plan.requirement = pending.requirement
         /\ pending.plan.reasons = pending.reasons

\* The shape of a run at each place: only a sequence has deferred steps, and a
\* step that is planned or executed is one of its requests.
Deferring == {"planLoad", "plan", "recheck"}
Executing == {"begin", "run", "act", "finish"}

RunShape ==
  /\ pc \in Running => Len(run.requests) >= 1
  /\ pc \in {"seqLoad", "seqCheck"} => IsSequence(run.requests) /\ run.results = <<>>
  /\ pc \in Deferring => IsSequence(run.requests)
  /\ pc \in {"check"} \cup Executing \cup Deferring => StepNumber <= Len(run.requests)

\* What was confirmed for a sequence covers each of its steps.
SequenceCovered ==
  pc \in {"check"} \cup Executing \cup Deferring /\ IsSequence(run.requests) =>
    /\ DOMAIN run.evals = DOMAIN run.requests
    /\ DOMAIN run.seqEvals = DOMAIN run.requests
    /\ \A i \in DOMAIN run.requests : run.seqEvals[i].requirement <= run.confirmed

\* The risk a plan has in the run it belongs to.
PlanRisk ==
  IF IsSequence(run.requests) THEN SequenceRisk(RiskOf(Plan.kind)) ELSE RiskOf(Plan.kind)

\* The plan about to run asks for no more than what was confirmed.
PlanAuthorized ==
  /\ pc \in Running => run.confirmed <= consent
  /\ pc \in Running /\ ~IsSequence(run.requests) => Plan.requirement <= run.confirmed
  /\ \/ pc \in Executing
     \/ pc = "check" /\ IsSequence(run.requests)
     => Evaluate(run.policy, PlanRisk, Plan.kind, PolicyBranch(Plan)).requirement
          <= run.confirmed
  /\ EffectAuthorized

\* The reasons that apply to the plan about to run were shown, and its branch is
\* the one it acts on.
PlanShown ==
  /\ pc \in Running /\ IsSequence(run.requests) =>
       \A i \in DOMAIN run.evals : run.evals[i].reasons \subseteq shown
  /\ pc \in Running /\ ~IsSequence(run.requests) => Plan.reasons \subseteq shown
  /\ \/ pc \in Executing
     \/ pc = "check" /\ IsSequence(run.requests)
     => EvaluatePlan(run.policy, Plan).reasons \subseteq shown
  /\ pc = "act" /\ ~moved /\ Plan.kind \in HeadBoundKinds => repo.branch = Plan.head
  /\ ProtectionWasShown

\* The policy of a run is one the file held since the step began.
PolicyIsFresh ==
  /\ pc \in Running \ {"planLoad", "wrap"} =>
       /\ run.policy \in fresh
       /\ file # Corrupt => file \in fresh
  /\ FreshPolicy

\* Every step before the current one succeeded.
SucceededSoFar ==
  /\ pc \in Running \ {"wrap"} => \A i \in DOMAIN run.results : run.results[i]
  /\ pc = "wrap" => \A i \in DOMAIN run.results : i < Len(run.results) => run.results[i]

\* The audit log announces the step being executed.
Announced ==
  /\ pc \in {"run", "act", "finish"} => journal = Entry("started", Plan.kind)
  /\ AuditTrailTruthful

Safe ==
  /\ SequenceCovered /\ PlanAuthorized /\ PlanShown
  /\ PolicyIsFresh /\ SucceededSoFar /\ Announced

-----------------------------------------------------------------------------
(***************************************************************************)
(* Facts about the operators of the model.                                 *)
(***************************************************************************)
\* Reading the configuration gives a policy, whatever is in the file.
LEMMA LoadPolicyType ==
  ASSUME file \in Policies \cup {Corrupt}, NEW p
  PROVE  /\ p \in PolicyRecords => LoadPolicy(p) \in PolicyRecords
         /\ p \in Policies \cup {SafeFallback} => LoadPolicy(p) \in Policies \cup {SafeFallback}
         /\ p \in PolicyRecords => OnDisk(p) \subseteq PolicyRecords
         /\ OnDisk(p) = {LoadPolicy(p)}
         /\ file # Corrupt => LoadPolicy(p) = file
  BY SessionAssumption DEF LoadPolicy, OnDisk

LEMMA SessionPolicies == Policies \cup {SafeFallback} \subseteq PolicyRecords
  BY SessionAssumption, KnownPolicies

\* The kinds a request is planned as are kinds.
LEMMA PlannedKindsType ==
  ASSUME NEW request \in Requests, NEW kind \in PlannedKinds(request)
  PROVE  kind \in Kinds
  BY DEF Requests, RequestKinds, PlannedKinds, Kinds

\* A plan is a plan, and carries the requirement and reasons of its evaluation.
LEMMA PrepareType ==
  ASSUME NEW p \in PolicyRecords, NEW request \in Requests,
         NEW kind \in PlannedKinds(request), repo \in Repositories
  PROVE  Prepare(p, request, kind) \in Plans
  <1> DEFINE branch == IF kind \in PolicyBranchKinds THEN repo.branch ELSE NoBranch
             ev     == Evaluate(p, RiskOf(kind), kind, branch)
  <1>1. kind \in Kinds
    BY PlannedKindsType
  <1>2. RiskOf(kind) \in RiskLevels
    BY RiskType
  <1>3. ev \in Evaluations
    BY <1>1, <1>2, EvaluateType
  <1>4. ev.requirement \in Requirements /\ ev.reasons \in SUBSET Reasons
    BY <1>3 DEF Evaluations
  <1>5. MaxOf(RiskFloor(RiskOf(kind)), ev.requirement) \in Requirements
    BY <1>2, <1>4 DEF MaxOf, RiskFloor
  <1>6. request.target \in Branches \cup {NoBranch} /\ repo.branch \in Branches \cup {NoBranch}
    BY DEF Requests, Repositories
  <1> HIDE DEF ev, branch
  <1>7. Prepare(p, request, kind)
          = [kind |-> kind, target |-> request.target, head |-> repo.branch,
             requirement |-> MaxOf(RiskFloor(RiskOf(kind)), ev.requirement),
             reasons |-> ev.reasons]
    BY DEF Prepare, ev, branch
  <1>8. QED
    BY <1>1, <1>4, <1>5, <1>6, <1>7 DEF Plans

\* The evaluations of a sequence are a sequence of evaluations, one a request.
LEMMA EvaluationsType ==
  ASSUME NEW p \in PolicyRecords, NEW requests \in Seq(Requests), NEW branch
  PROVE  /\ StepEvaluations(p, requests, branch) \in Seq(Evaluations)
         /\ SequenceEvaluations(p, requests, branch) \in Seq(Evaluations)
         /\ DOMAIN StepEvaluations(p, requests, branch) = DOMAIN requests
         /\ DOMAIN SequenceEvaluations(p, requests, branch) = DOMAIN requests
         /\ Len(StepEvaluations(p, requests, branch)) = Len(requests)
         /\ Len(SequenceEvaluations(p, requests, branch)) = Len(requests)
  <1>1. DOMAIN requests = 1..Len(requests) /\ Len(requests) \in Nat
    OBVIOUS
  <1>2. \A i \in 1..Len(requests) : requests[i].kind \in Kinds
    <2>1. ASSUME NEW i \in 1..Len(requests) PROVE requests[i].kind \in Kinds
      <3>1. requests[i] \in Requests
        OBVIOUS
      <3>2. QED
        BY <3>1 DEF Requests, RequestKinds
    <2>2. QED
      BY <2>1
  <1>3. ASSUME NEW i \in 1..Len(requests), NEW b
        PROVE
          /\ Evaluate(p, RiskOf(requests[i].kind), requests[i].kind, b) \in Evaluations
          /\ Evaluate(p, SequenceRisk(RiskOf(requests[i].kind)), requests[i].kind, b)
               \in Evaluations
    BY <1>2, RiskType, EvaluateType
  <1>4. StepEvaluations(p, requests, branch) \in [1..Len(requests) -> Evaluations]
    BY <1>1, <1>3 DEF StepEvaluations
  <1>5. SequenceEvaluations(p, requests, branch) \in [1..Len(requests) -> Evaluations]
    BY <1>1, <1>3 DEF SequenceEvaluations
  <1>6. QED
    BY <1>1, <1>4, <1>5

\* What is demanded of a sequence is a requirement, and what is shown for it is
\* every reason of every step.
LEMMA CombinedType ==
  ASSUME NEW evals \in Seq(Evaluations)
  PROVE  /\ CombinedRequirement(evals) \in Requirements
         /\ CombinedReasons(evals) \subseteq Reasons
         /\ \A i \in DOMAIN evals : evals[i].reasons \subseteq CombinedReasons(evals)
  <1>1. CombinedRequirement(evals) \in Requirements
    BY DEF CombinedRequirement
  <1>2. ASSUME NEW i \in DOMAIN evals PROVE evals[i].reasons \subseteq Reasons
    <2>1. evals[i] \in Evaluations
      OBVIOUS
    <2>2. QED
      BY <2>1 DEF Evaluations
  <1>3. QED
    BY <1>1, <1>2 DEF CombinedReasons

\* The parts of a run.
LEMMA RunParts ==
  ASSUME run \in Runs
  PROVE  /\ run.requests \in Seq(Requests) /\ Plan \in Plans
         /\ run.confirmed \in Requirements
         /\ run.policy \in Policies \cup {SafeFallback} /\ run.policy \in PolicyRecords
         /\ run.evals \in Seq(Evaluations) /\ run.seqEvals \in Seq(Evaluations)
         /\ run.branch \in Branches \cup {NoBranch} /\ run.results \in Seq(BOOLEAN)
         /\ Plan.kind \in Kinds /\ Plan.head \in Branches \cup {NoBranch}
         /\ Plan.target \in Branches \cup {NoBranch}
         /\ Plan.requirement \in Requirements /\ Plan.reasons \subseteq Reasons
  BY SessionPolicies DEF Runs, Plan, Plans

-----------------------------------------------------------------------------
(***************************************************************************)
(* Types.                                                                  *)
(***************************************************************************)
TypeInv == TypeOK /\ RunExists /\ RunShape

\* The start of a run.
LEMMA BeginType ==
  ASSUME NEW p \in Policies \cup {SafeFallback}, NEW operation \in Pendings,
         NEW first \in Running, NEW level \in Requirements,
         NEW reasons \in SUBSET Reasons,
         Begin(first, p, operation, level, reasons)
  PROVE  /\ run' \in Runs /\ pc' = first /\ pending' = None
         /\ consent' \in Requirements /\ shown' \subseteq Reasons
         /\ run'.requests = operation.requests /\ run'.results = <<>>
  <1>1. <<>> \in Seq(BOOLEAN)
    OBVIOUS
  <1>2. StartRun(p, operation) \in Runs
    BY <1>1 DEF StartRun, Runs, Pendings
  <1>3. run' = StartRun(p, operation)
    BY DEF Begin
  <1>4. QED
    BY <1>2, <1>3 DEF Begin, StartRun

LEMMA SubmitRequestType ==
  ASSUME TypeInv, NEW request \in SingleRequests, SubmitRequest(request)
  PROVE  TypeInv'
  <1> DEFINE p == LoadPolicy(policy)
  <1>1. /\ p \in Policies \cup {SafeFallback} /\ p \in PolicyRecords
        /\ OnDisk(policy) \subseteq PolicyRecords
    BY LoadPolicyType, SessionPolicies DEF TypeInv, TypeOK
  <1>2. request \in Requests
    BY SessionAssumption
  <1>3. pc = "idle" /\ run = None /\ effect = None /\ pc \notin Running
    BY DEF SubmitRequest, TypeInv, RunExists, Running
  <1>4. PICK kind \in PlannedKinds(request) :
          LET plan      == Prepare(p, request, kind)
              operation == [requests |-> <<request>>, plan |-> plan,
                            requirement |-> plan.requirement, reasons |-> plan.reasons,
                            evals |-> <<>>, seqEvals |-> <<>>]
          IN IF plan.requirement = NormalSelection
             THEN Begin("check", p, operation, NormalSelection, {})
             ELSE /\ pending' = operation
                  /\ UNCHANGED <<pc, run, history>>
    BY DEF SubmitRequest
  <1> DEFINE plan      == Prepare(p, request, kind)
             operation == [requests |-> <<request>>, plan |-> plan,
                           requirement |-> plan.requirement, reasons |-> plan.reasons,
                           evals |-> <<>>, seqEvals |-> <<>>]
  <1>5. plan \in Plans
    BY <1>1, <1>2, PrepareType DEF TypeInv, TypeOK
  <1>6. plan.requirement \in Requirements /\ plan.reasons \in SUBSET Reasons
    BY <1>5 DEF Plans
  <1> HIDE DEF p, plan
  <1>7. /\ <<request>> \in Seq(Requests) /\ <<>> \in Seq(Evaluations)
        /\ Len(<<request>>) = 1
    BY <1>2
  <1>8. operation \in Pendings
    BY <1>5, <1>6, <1>7 DEF Pendings
  <1>9. operation.requests = <<request>>
    OBVIOUS
  <1> HIDE DEF operation
  <1>10. policy' = p /\ UNCHANGED <<file, repo, journal>>
    BY DEF SubmitRequest, p
  <1>11. CASE plan.requirement = NormalSelection
    <2>1. Begin("check", p, operation, NormalSelection, {})
      BY <1>4, <1>11 DEF plan, operation
    <2>2. /\ run' \in Runs /\ pc' = "check" /\ pending' = None
          /\ consent' \in Requirements /\ shown' \subseteq Reasons
          /\ run'.requests = <<request>> /\ run'.results = <<>>
      BY <1>1, <1>8, <1>9, <2>1, BeginType DEF Running
    <2>3. fresh' = OnDisk(policy) /\ UNCHANGED <<effect, moved>>
      BY <2>1 DEF Begin
    <2>4. TypeOK'
      BY <1>1, <1>10, <2>2, <2>3 DEF TypeInv, TypeOK, Running
    <2>5. RunExists'
      BY <1>3, <2>2, <2>3 DEF RunExists, Running
    <2>6. RunShape'
      BY <1>7, <2>2 DEF RunShape, Running, Deferring, Executing, StepNumber
    <2>7. QED
      BY <2>4, <2>5, <2>6 DEF TypeInv
  <1>12. CASE plan.requirement # NormalSelection
    <2>1. pending' = operation /\ UNCHANGED <<pc, run, history>>
      BY <1>4, <1>12 DEF plan, operation
    <2>2. TypeOK'
      BY <1>1, <1>8, <1>10, <2>1 DEF TypeInv, TypeOK, history
    <2>3. RunExists' /\ RunShape'
      BY <1>3, <2>1 DEF TypeInv, RunExists, RunShape, history, Running, Deferring, Executing
    <2>4. QED
      BY <2>2, <2>3 DEF TypeInv
  <1>13. QED
    BY <1>11, <1>12

LEMMA SubmitSequenceType ==
  ASSUME TypeInv, NEW requests \in SequenceRequests, SubmitSequence(requests)
  PROVE  TypeInv'
  <1> DEFINE p        == LoadPolicy(policy)
             evals    == StepEvaluations(p, requests, repo.branch)
             seqEvals == SequenceEvaluations(p, requests, repo.branch)
             all      == evals \o seqEvals
  <1>1. /\ p \in Policies \cup {SafeFallback} /\ p \in PolicyRecords
    BY LoadPolicyType, SessionPolicies DEF TypeInv, TypeOK
  <1>2. requests \in Seq(Requests)
    BY SessionAssumption
  <1>3. evals \in Seq(Evaluations) /\ seqEvals \in Seq(Evaluations)
    BY <1>1, <1>2, EvaluationsType
  <1>4. all \in Seq(Evaluations)
    BY <1>3
  <1>5. CombinedRequirement(all) \in Requirements /\ CombinedReasons(all) \subseteq Reasons
    BY <1>4, CombinedType
  <1>6. PICK kind \in PlannedKinds(requests[1]) :
          pending' = [requests |-> requests,
                      plan |-> Prepare(p, requests[1], kind),
                      requirement |-> CombinedRequirement(all),
                      reasons |-> CombinedReasons(all),
                      evals |-> evals, seqEvals |-> seqEvals]
    BY DEF SubmitSequence
  <1>7. requests[1] \in Requests
    <2>1. Len(requests) >= 2
      BY DEF SubmitSequence, CanPlanSequence
    <2>2. QED
      BY <1>2, <2>1
  <1>8. Prepare(p, requests[1], kind) \in Plans
    BY <1>1, <1>7, PrepareType DEF TypeInv, TypeOK
  <1> HIDE DEF evals, seqEvals, all
  <1>9. pending' \in Pendings
    BY <1>2, <1>3, <1>5, <1>6, <1>8 DEF Pendings
  <1>10. policy' = p /\ UNCHANGED <<file, repo, pc, run, journal, history>>
    BY DEF SubmitSequence
  <1>11. QED
    BY <1>1, <1>9, <1>10 DEF TypeInv, TypeOK, RunExists, RunShape, history, Plan, StepNumber

LEMMA HandleKeyType ==
  ASSUME TypeInv, PendingShows, NEW key, HandleKey(key)
  PROVE  TypeInv'
  <1> DEFINE p == LoadPolicy(policy)
  <1>1. /\ p \in Policies \cup {SafeFallback} /\ p \in PolicyRecords
        /\ OnDisk(policy) \subseteq PolicyRecords
    BY LoadPolicyType, SessionPolicies DEF TypeInv, TypeOK
  <1>2. pc = "idle" /\ run = None /\ effect = None /\ pc \notin Running
    BY DEF HandleKey, TypeInv, RunExists, Running
  <1>3. pending \in Pendings /\ pending # None
    BY DEF HandleKey, TypeInv, TypeOK
  <1>4. pending.reasons \in SUBSET Reasons /\ pending.requests \in Seq(Requests)
    BY <1>3 DEF Pendings
  <1>5. UNCHANGED <<file, repo, journal>>
    BY DEF HandleKey
  <1>6. CASE Confirms(key)
    <2> DEFINE first == IF IsSequence(pending.requests) THEN "seqLoad" ELSE "check"
    <2>1. /\ policy' = p
          /\ Begin(first, p, pending, KeyLevel(key), pending.reasons)
      BY <1>6 DEF HandleKey, Confirm
    <2>2. KeyLevel(key) \in Requirements /\ first \in Running
      BY DEF KeyLevel, Running
    <2>3. /\ run' \in Runs /\ pc' = first /\ pending' = None
          /\ consent' \in Requirements /\ shown' \subseteq Reasons
          /\ run'.requests = pending.requests /\ run'.results = <<>>
      BY <1>1, <1>3, <1>4, <2>1, <2>2, BeginType
    <2>4. fresh' = OnDisk(policy) /\ UNCHANGED <<effect, moved>>
      BY <2>1 DEF Begin
    <2>5. TypeOK'
      BY <1>1, <1>5, <2>1, <2>2, <2>3, <2>4 DEF TypeInv, TypeOK
    <2>6. RunExists'
      BY <1>2, <2>2, <2>3, <2>4 DEF RunExists
    <2>7. RunShape'
      <3>1. Len(pending.requests) \in Nat /\ Len(pending.requests) >= 1
        <4>1. Len(pending.requests) \in Nat
          BY <1>4
        <4>2. Len(pending.requests) > 1 \/ Len(pending.requests) = 1
          BY <1>3 DEF PendingShows, IsSequence
        <4>3. QED
          BY <4>1, <4>2
      <3>2. Len(<<>>) = 0
        OBVIOUS
      <3>3. QED
        BY <1>4, <2>3, <3>1, <3>2
           DEF RunShape, Running, Deferring, Executing, StepNumber, IsSequence
    <2>8. QED
      BY <2>5, <2>6, <2>7 DEF TypeInv
  <1>7. CASE ~Confirms(key)
    <2>1. /\ policy' = p /\ pending' \in {pending, None}
          /\ UNCHANGED <<pc, run, history>>
      BY <1>7 DEF HandleKey
    <2>2. QED
      BY <1>1, <1>3, <1>5, <2>1
         DEF TypeInv, TypeOK, RunExists, RunShape, history, Plan, StepNumber
  <1>8. QED
    BY <1>6, <1>7

\* A step of the executor keeps the types.
LEMMA ExecutorType ==
  ASSUME TypeInv, Executor
  PROVE  TypeInv'
  <1>1. pc \in Running /\ run \in Runs
    BY DEF Executor, StepRefused, SequenceLoad, SequenceCheck, CheckPlan, AuditBegin,
           CheckPayload, RunStep, StepFails, AuditFinish, DeferredLoad, DeferredPlan,
           DeferredRecheck, Wrap, Running, TypeInv, RunExists
  <1>2. /\ run.requests \in Seq(Requests) /\ Plan \in Plans
        /\ run.confirmed \in Requirements /\ run.policy \in PolicyRecords
        /\ run.policy \in Policies \cup {SafeFallback}
        /\ run.results \in Seq(BOOLEAN) /\ Plan.kind \in Kinds
        /\ Plan.head \in Branches \cup {NoBranch} /\ Plan.target \in Branches \cup {NoBranch}
    BY <1>1, RunParts
  <1>3. /\ LoadPolicy(run.policy) \in Policies \cup {SafeFallback}
        /\ OnDisk(run.policy) \subseteq PolicyRecords
    BY <1>2, LoadPolicyType DEF TypeInv, TypeOK
  <1>4. ASSUME Refused PROVE run' \in Runs /\ pc' = "wrap" /\ run'.requests = run.requests
    <2>1. Append(run.results, FALSE) \in Seq(BOOLEAN)
      BY <1>2
    <2>2. QED
      BY <1>1, <1>4, <2>1 DEF Refused, Runs
  <1>5. CASE StepRefused
    BY <1>1, <1>4, <1>5 DEF StepRefused, TypeInv, TypeOK, RunExists, RunShape, Running,
       Deferring, Executing, history
  <1>6. CASE SequenceLoad
    <2>1. PolicyBranch(Plan) \in Branches \cup {NoBranch}
      BY <1>2 DEF PolicyBranch
    <2>2. run' \in Runs /\ run'.requests = run.requests /\ run'.results = run.results
      BY <1>1, <1>3, <1>6, <2>1 DEF SequenceLoad, Runs, TypeInv, TypeOK, Repositories
    <2>3. QED
      BY <1>6, <2>2 DEF SequenceLoad, TypeInv, TypeOK, RunExists, RunShape, Running,
         Deferring, Executing, history
  <1>7. CASE SequenceCheck
    <2>1. run' \in Runs /\ run'.requests = run.requests /\ run'.results = run.results
      BY <1>1, <1>3, <1>7 DEF SequenceCheck, Runs
    <2>2. StepNumber' <= Len(run.requests)'
      BY <1>2, <1>7, <2>1 DEF SequenceCheck, TypeInv, RunShape, StepNumber, IsSequence
    <2>3. QED
      BY <1>7, <2>1, <2>2 DEF SequenceCheck, TypeInv, TypeOK, RunExists, RunShape, Running,
         Deferring, Executing, history
  <1>8. CASE CheckPlan
    BY <1>8 DEF CheckPlan, TypeInv, TypeOK, RunExists, RunShape, Running,
       Deferring, Executing, history, StepNumber
  <1>9. CASE AuditBegin
    <2>1. Entry("started", Plan.kind) \in Entries
      BY <1>2 DEF Entry, Entries
    <2>2. journal' \in Entries
      BY <1>9, <2>1 DEF AuditBegin, TypeInv, TypeOK
    <2>3. \/ run' = run /\ pc' = "run"
          \/ Refused
      BY <1>9 DEF AuditBegin
    <2>4. QED
      BY <1>1, <1>4, <1>9, <2>2, <2>3 DEF AuditBegin, TypeInv, TypeOK, RunExists, RunShape,
         Running, Deferring, Executing, history, StepNumber
  <1>10. CASE CheckPayload
    BY <1>10 DEF CheckPayload, TypeInv, TypeOK, RunExists, RunShape, Running,
       Deferring, Executing, StepNumber
  <1>11. CASE RunStep
    <2>1. repo' \in Repositories
      BY <1>2, <1>11 DEF RunStep, ReposAfter, ReposAfterFailure, TypeInv, TypeOK, Repositories
    <2>2. /\ run' \in Runs /\ run'.requests = run.requests /\ run'.results = run.results
          /\ run'.plan = run.plan
      BY <1>1, <1>11 DEF RunStep, Runs
    <2>3. effect' \in [kind : Kinds, branch : Branches \cup {NoBranch}]
      BY <1>2, <1>11 DEF RunStep, ActsOn, TypeInv, TypeOK, Repositories
    <2>4. effect'.kind = run.plan.kind
      BY <1>11 DEF RunStep, Plan
    <2>5. QED
      BY <1>11, <2>1, <2>2, <2>3, <2>4 DEF RunStep, TypeInv, TypeOK, RunExists, RunShape,
         Running, Deferring, Executing, StepNumber, Plan
  <1>12. CASE StepFails
    <2>1. /\ run' \in Runs /\ run'.requests = run.requests /\ run'.results = run.results
          /\ run'.plan = run.plan
      BY <1>1, <1>12 DEF StepFails, Runs
    <2>2. QED
      BY <1>12, <2>1 DEF StepFails, TypeInv, TypeOK, RunExists, RunShape,
         Running, Deferring, Executing, StepNumber, Plan, history
  <1>13. CASE AuditFinish
    <2>1. PICK written \in BOOLEAN :
            /\ journal' \in {Entry(run.outcome, Plan.kind)} \cup
                            (IF written THEN {} ELSE {journal})
            /\ run' = [run EXCEPT !.results = Append(@, StepSucceeded(written)),
                                  !.outcome = None]
            /\ pc' = AfterStep(StepSucceeded(written))
      BY <1>13 DEF AuditFinish
    <2>2. StepSucceeded(written) \in BOOLEAN
      BY DEF StepSucceeded
    <2>3. Append(run.results, StepSucceeded(written)) \in Seq(BOOLEAN)
      BY <1>2, <2>2
    <2>4. /\ run' \in Runs /\ run'.requests = run.requests
          /\ run'.results = Append(run.results, StepSucceeded(written))
      BY <1>1, <2>1, <2>3 DEF Runs
    <2>5. Len(run'.results) = Len(run.results) + 1
      BY <1>2, <2>2, <2>4
    <2>6. Entry(run.outcome, Plan.kind) \in Entries
      BY <1>1, <1>2 DEF Entry, Entries, Runs
    <2>7. journal' \in Entries
      BY <2>1, <2>6 DEF TypeInv, TypeOK
    <2>8. \/ pc' = "wrap"
          \/ pc' = "planLoad" /\ Len(run.results) + 1 < Len(run.requests)
      BY <2>1 DEF AfterStep
    <2>9. Len(run.results) \in Nat /\ Len(run.requests) \in Nat
      BY <1>2
    <2>10. TypeOK' /\ RunExists'
      BY <1>13, <2>4, <2>7, <2>8 DEF AuditFinish, TypeInv, TypeOK, RunExists, Running
    <2>11. RunShape'
      BY <1>1, <2>4, <2>5, <2>8, <2>9 DEF TypeInv, RunShape,
         Running, Deferring, Executing, StepNumber, IsSequence
    <2>12. QED
      BY <2>10, <2>11 DEF TypeInv
  <1>14. CASE DeferredLoad
    <2>1. run' \in Runs /\ run'.requests = run.requests /\ run'.results = run.results
      BY <1>1, <1>3, <1>14 DEF DeferredLoad, Runs
    <2>2. QED
      BY <1>3, <1>14, <2>1 DEF DeferredLoad, TypeInv, TypeOK, RunExists, RunShape, Running,
         Deferring, Executing, StepNumber
  <1>15. CASE DeferredPlan
    <2>1. run.requests[StepNumber] \in Requests
      <3>1. StepNumber \in 1..Len(run.requests)
        BY <1>2, <1>15 DEF DeferredPlan, TypeInv, RunShape, Deferring, StepNumber
      <3>2. QED
        BY <1>2, <3>1
    <2>2. PICK kind \in PlannedKinds(run.requests[StepNumber]) :
            run' = [run EXCEPT !.plan = Prepare(run.policy, run.requests[StepNumber], kind)]
      BY <1>15 DEF DeferredPlan
    <2>3. Prepare(run.policy, run.requests[StepNumber], kind) \in Plans
      BY <1>2, <2>1, PrepareType DEF TypeInv, TypeOK
    <2>4. run' \in Runs /\ run'.requests = run.requests /\ run'.results = run.results
      BY <1>1, <2>2, <2>3 DEF Runs
    <2>5. QED
      BY <1>15, <2>4 DEF DeferredPlan, TypeInv, TypeOK, RunExists, RunShape, Running,
         Deferring, Executing, StepNumber, history
  <1>16. CASE DeferredRecheck
    <2>1. /\ run'.requests = run.requests
          /\ \/ pc' = "check" /\ run' = [run EXCEPT !.policy = LoadPolicy(run.policy)]
             \/ pc' = "wrap" /\ run' = [run EXCEPT !.policy = LoadPolicy(run.policy),
                                                   !.results = Append(@, FALSE)]
      BY <1>1, <1>16 DEF DeferredRecheck, Runs
    <2>2. Append(run.results, FALSE) \in Seq(BOOLEAN)
      BY <1>2
    <2>3. /\ run' \in Runs
          /\ pc' = "check" => run'.results = run.results
      BY <1>1, <1>3, <2>1, <2>2 DEF Runs
    <2>4. QED
      BY <1>16, <2>1, <2>3 DEF DeferredRecheck, TypeInv, TypeOK, RunExists, RunShape, Running,
         Deferring, Executing, StepNumber, history
  <1>17. CASE Wrap
    <2>1. policy' \in Policies \cup {SafeFallback}
      BY <1>2, <1>17, LoadPolicyType DEF Wrap, TypeInv, TypeOK
    <2>2. QED
      BY <1>17, <2>1 DEF Wrap, TypeInv, TypeOK, RunExists, RunShape, Running,
         Deferring, Executing, history
  <1>18. QED
    BY <1>5, <1>6, <1>7, <1>8, <1>9, <1>10, <1>11, <1>12, <1>13, <1>14, <1>15, <1>16,
       <1>17 DEF Executor

\* A step of the environment keeps the types.
LEMMA EnvironmentType ==
  ASSUME TypeInv,
         \/ ReloadTick \/ Stop \/ Restart \/ OtherGitClient
         \/ \E content \in Policies \cup {Corrupt} : EditConfig(content)
         \/ UNCHANGED vars
  PROVE  TypeInv'
  <1>1. CASE ReloadTick
    BY <1>1, LoadPolicyType DEF ReloadTick, TypeInv, TypeOK, RunExists, RunShape, history,
       Plan, StepNumber
  <1>2. CASE Stop
    <2>1. TypeOK'
      <3>1. consent' \in Requirements
        BY <1>2 DEF Stop
      <3>2. moved' \in BOOLEAN
        BY <1>2, Zenon DEF Stop
      <3>3. QED
        BY <1>2, <3>1, <3>2 DEF Stop, TypeInv, TypeOK, Running
    <2>2. RunExists' /\ RunShape'
      BY <1>2 DEF Stop, RunExists, RunShape, Running, Deferring, Executing
    <2>3. QED
      BY <2>1, <2>2 DEF TypeInv
  <1>3. CASE Restart
    <2>1. policy' \in Policies \cup {SafeFallback}
      BY <1>3, LoadPolicyType DEF Restart, StartupPolicy, TypeInv, TypeOK
    <2>2. QED
      BY <1>3, <2>1 DEF Restart, TypeInv, TypeOK, RunExists, RunShape, Running, Deferring,
         Executing, history
  <1>4. CASE OtherGitClient
    <2>1. repo' \in Repositories
      BY <1>4 DEF OtherGitClient, TypeInv, TypeOK, Repositories
    <2>2. QED
      BY <1>4, <2>1 DEF OtherGitClient, TypeInv, TypeOK, RunExists, RunShape, Plan, StepNumber
  <1>5. ASSUME NEW content \in Policies \cup {Corrupt}, EditConfig(content)
        PROVE  TypeInv'
    <2>1. fresh' \subseteq PolicyRecords
      BY <1>5, SessionAssumption DEF EditConfig, TypeInv, TypeOK
    <2>2. QED
      BY <1>5, <2>1 DEF EditConfig, TypeInv, TypeOK, RunExists, RunShape, Plan, StepNumber
  <1>6. CASE UNCHANGED vars
    BY <1>6 DEF vars, TypeInv, TypeOK, RunExists, RunShape, Plan, StepNumber
  <1>7. QED
    BY <1>1, <1>2, <1>3, <1>4, <1>5, <1>6

-----------------------------------------------------------------------------
(***************************************************************************)
(* The queue shows what it asks for.                                       *)
(***************************************************************************)
LEMMA SubmitRequestShows ==
  ASSUME TypeInv, PendingShows, NEW request \in SingleRequests, SubmitRequest(request)
  PROVE  PendingShows'
  <1>1. PICK kind \in PlannedKinds(request) :
          LET plan      == Prepare(LoadPolicy(policy), request, kind)
              operation == [requests |-> <<request>>, plan |-> plan,
                            requirement |-> plan.requirement, reasons |-> plan.reasons,
                            evals |-> <<>>, seqEvals |-> <<>>]
          IN IF plan.requirement = NormalSelection
             THEN pending' = None
             ELSE pending' = operation
    BY DEF SubmitRequest, Begin
  <1> DEFINE plan == Prepare(LoadPolicy(policy), request, kind)
  <1> HIDE DEF plan
  <1>2. \/ pending' = None
        \/ pending' = [requests |-> <<request>>, plan |-> plan,
                       requirement |-> plan.requirement, reasons |-> plan.reasons,
                       evals |-> <<>>, seqEvals |-> <<>>]
    BY <1>1 DEF plan
  <1>3. Len(<<request>>) = 1
    OBVIOUS
  <1>4. ~IsSequence(<<request>>)
    BY <1>3 DEF IsSequence
  <1>5. QED
    BY <1>2, <1>3, <1>4 DEF PendingShows

LEMMA SubmitSequenceShows ==
  ASSUME TypeInv, PendingShows, NEW requests \in SequenceRequests, SubmitSequence(requests)
  PROVE  PendingShows'
  <1> DEFINE p        == LoadPolicy(policy)
             evals    == StepEvaluations(p, requests, repo.branch)
             seqEvals == SequenceEvaluations(p, requests, repo.branch)
             all      == evals \o seqEvals
  <1>1. p \in PolicyRecords
    BY LoadPolicyType, SessionPolicies DEF TypeInv, TypeOK
  <1>2. requests \in Seq(Requests)
    BY SessionAssumption
  <1>3. /\ evals \in Seq(Evaluations) /\ seqEvals \in Seq(Evaluations)
        /\ DOMAIN evals = DOMAIN requests
    BY <1>1, <1>2, EvaluationsType
  <1>4. all \in Seq(Evaluations)
    BY <1>3
  <1>5. \A i \in DOMAIN all : all[i].reasons \subseteq CombinedReasons(all)
    BY <1>4, CombinedType
  <1>6. \E plan :
          pending' = [requests |-> requests, plan |-> plan,
                      requirement |-> CombinedRequirement(all),
                      reasons |-> CombinedReasons(all),
                      evals |-> evals, seqEvals |-> seqEvals]
    BY DEF SubmitSequence
  <1> HIDE DEF evals, seqEvals
  <1>7. ASSUME NEW i \in DOMAIN evals PROVE evals[i].reasons \subseteq CombinedReasons(all)
    <2>1. i \in DOMAIN all /\ all[i] = evals[i]
      BY <1>3
    <2>2. QED
      BY <1>5, <2>1
  <1>8. IsSequence(requests)
    BY <1>2 DEF SubmitSequence, CanPlanSequence, IsSequence
  <1> HIDE DEF all
  <1>9. QED
    BY <1>3, <1>6, <1>7, <1>8 DEF PendingShows

LEMMA PendingStep ==
  ASSUME TypeInv, PendingShows, [Next]_vars
  PROVE  PendingShows'
  <1>1. CASE pending' \in {pending, None}
    BY <1>1 DEF PendingShows
  <1>2. ASSUME NEW request \in SingleRequests, SubmitRequest(request) PROVE PendingShows'
    BY <1>2, SubmitRequestShows
  <1>3. ASSUME NEW requests \in SequenceRequests, SubmitSequence(requests)
        PROVE  PendingShows'
    BY <1>3, SubmitSequenceShows
  <1>4. ASSUME NEW key, HandleKey(key) PROVE pending' \in {pending, None}
    BY <1>4 DEF HandleKey, Confirm, Begin
  <1>5. ASSUME Executor PROVE pending' = pending
    BY <1>5 DEF Executor, StepRefused, SequenceLoad, SequenceCheck, CheckPlan, AuditBegin,
       CheckPayload, RunStep, StepFails, AuditFinish, DeferredLoad, DeferredPlan,
       DeferredRecheck, Wrap
  <1>6. QED
    BY <1>1, <1>2, <1>3, <1>4, <1>5
       DEF Next, User, ReloadTick, Stop, Restart, EditConfig, OtherGitClient, vars

-----------------------------------------------------------------------------
(***************************************************************************)
(* Type correctness.                                                       *)
(***************************************************************************)
LEMMA TypeStep ==
  ASSUME TypeInv, PendingShows, [Next]_vars
  PROVE  TypeInv'
  BY SubmitRequestType, SubmitSequenceType, HandleKeyType, ExecutorType, EnvironmentType
     DEF Next, User

LEMMA TypeInit == Init => TypeInv /\ PendingShows
  <1> SUFFICES ASSUME Init PROVE TypeInv /\ PendingShows
    OBVIOUS
  <1>1. StartupPolicy \in Policies \cup {SafeFallback}
    BY LoadPolicyType DEF Init, StartupPolicy
  <1>2. TypeOK
    <2>1. consent \in Requirements
      BY DEF Init
    <2>2. moved \in BOOLEAN
      BY Zenon DEF Init
    <2>3. journal \in Entries
      BY DEF Init, Entry, Entries
    <2>4. QED
      BY <1>1, <2>1, <2>2, <2>3 DEF Init, TypeOK
  <1>3. RunExists /\ RunShape /\ PendingShows
    BY DEF Init, RunExists, RunShape, PendingShows, Running, Deferring, Executing
  <1>4. QED
    BY <1>2, <1>3 DEF TypeInv

\* Every variable keeps its type: in particular what the session holds as its
\* policy is never an unparsed configuration, and the plan of a run always has
\* the kind of a request that the user made.
THEOREM TypeCorrect == Spec => []TypeOK
  <1>1. Init => TypeInv /\ PendingShows
    BY TypeInit
  <1>2. TypeInv /\ PendingShows /\ [Next]_vars => (TypeInv /\ PendingShows)'
    BY TypeStep, PendingStep
  <1>3. TypeInv => TypeOK
    BY DEF TypeInv
  <1>4. QED
    BY <1>1, <1>2, <1>3, PTL DEF Spec

-----------------------------------------------------------------------------
(***************************************************************************)
(* The invariant that carries a confirmation from the preview to the       *)
(* command.                                                                *)
(***************************************************************************)
IInv == TypeInv /\ PendingShows /\ Safe

\* Nothing is at stake while no run exists.
LEMMA IdleSafe ==
  ASSUME RunExists', pc' \notin Running
  PROVE  Safe'
  <1>1. effect' = None
    BY DEF RunExists, Running
  <1>2. QED
    BY <1>1 DEF Safe, SequenceCovered, PlanAuthorized, PlanShown, PolicyIsFresh,
       SucceededSoFar, Announced, EffectAuthorized, ProtectionWasShown, FreshPolicy,
       AuditTrailTruthful, Running, Deferring, Executing

\* A run starts with what was confirmed and shown for it, under the policy just
\* read.
LEMMA BeginSafe ==
  ASSUME IInv, TypeInv', pc = "idle", NEW operation \in Pendings,
         NEW level \in Requirements,
         Begin(IF IsSequence(operation.requests) THEN "seqLoad" ELSE "check",
               LoadPolicy(policy), operation, level, operation.reasons),
         UNCHANGED <<file, repo, journal>>,
         operation.requirement <= level,
         IF IsSequence(operation.requests)
         THEN \A i \in DOMAIN operation.evals :
                operation.evals[i].reasons \subseteq operation.reasons
         ELSE /\ operation.plan.requirement = operation.requirement
              /\ operation.plan.reasons = operation.reasons
  PROVE  Safe'
  <1>1. /\ run'.requests = operation.requests /\ run'.plan = operation.plan
        /\ run'.confirmed = operation.requirement /\ run'.policy = LoadPolicy(policy)
        /\ run'.evals = operation.evals /\ run'.results = <<>>
        /\ pc' = IF IsSequence(operation.requests) THEN "seqLoad" ELSE "check"
        /\ consent' = level /\ shown' = operation.reasons /\ fresh' = OnDisk(policy)
        /\ UNCHANGED <<effect, moved>>
    BY DEF Begin, StartRun
  <1>2. effect' = None
    BY <1>1 DEF IInv, TypeInv, RunExists
  <1>3. fresh' = {LoadPolicy(policy)} /\ (file # Corrupt => LoadPolicy(policy) = file)
    BY <1>1, LoadPolicyType DEF IInv, TypeInv, TypeOK
  <1>4. SequenceCovered'
    BY <1>1 DEF SequenceCovered, Deferring, Executing
  <1>5. PlanAuthorized'
    <2>1. operation.requirement \in Requirements
      BY DEF Pendings
    <2>2. run'.confirmed <= consent'
      BY <1>1
    <2>3. ~IsSequence(run'.requests) => run'.plan.requirement <= run'.confirmed
      BY <1>1, <2>1
    <2>4. pc' \notin Executing /\ ~(pc' = "check" /\ IsSequence(run'.requests))
      BY <1>1 DEF Executing
    <2>5. QED
      BY <1>2, <2>2, <2>3, <2>4 DEF PlanAuthorized, EffectAuthorized, Plan
  <1>6. PlanShown'
    BY <1>1, <1>2 DEF PlanShown, ProtectionWasShown, Executing, Plan
  <1>7. PolicyIsFresh'
    BY <1>1, <1>2, <1>3 DEF PolicyIsFresh, FreshPolicy
  <1>8. SucceededSoFar'
    BY <1>1 DEF SucceededSoFar
  <1>9. Announced'
    BY <1>1, <1>2 DEF Announced, AuditTrailTruthful
  <1>10. QED
    BY <1>4, <1>5, <1>6, <1>7, <1>8, <1>9 DEF Safe

\* A run that a step ends leaves nothing to be executed.
LEMMA EndSafe ==
  ASSUME IInv, TypeInv', pc \in Running \ {"wrap"}, pc' = "wrap", effect' = None,
         run'.requests = run.requests, run'.plan = run.plan,
         run'.confirmed = run.confirmed, run'.evals = run.evals,
         consent' = consent, shown' = shown,
         NEW b \in BOOLEAN, run'.results = Append(run.results, b)
  PROVE  Safe'
  <1>1. run.results \in Seq(BOOLEAN)
    BY RunParts DEF IInv, TypeInv, RunExists
  <1>2. \A i \in DOMAIN run.results : run.results[i]
    BY DEF IInv, Safe, SucceededSoFar
  <1>3. ASSUME NEW i \in DOMAIN Append(run.results, b), i < Len(Append(run.results, b))
        PROVE  i \in DOMAIN run.results /\ Append(run.results, b)[i] = run.results[i]
    BY <1>1, <1>3
  <1>4. SucceededSoFar'
    BY <1>2, <1>3 DEF SucceededSoFar
  <1>5. SequenceCovered' /\ PolicyIsFresh' /\ Announced'
    BY DEF SequenceCovered, PolicyIsFresh, Announced, FreshPolicy, AuditTrailTruthful,
       Deferring, Executing
  <1>6. PlanAuthorized'
    BY DEF IInv, Safe, PlanAuthorized, EffectAuthorized, Executing, Running, Plan
  <1>7. PlanShown'
    BY DEF IInv, Safe, PlanShown, ProtectionWasShown, Executing, Running, Plan
  <1>8. QED
    BY <1>4, <1>5, <1>6, <1>7 DEF Safe

\* A plan that needs no confirmation has nothing to show.
LEMMA PlainPlan ==
  ASSUME NEW p \in PolicyRecords, NEW request \in Requests,
         NEW kind \in PlannedKinds(request),
         Prepare(p, request, kind).requirement = NormalSelection
  PROVE  Prepare(p, request, kind).reasons = {}
  <1> DEFINE branch == IF kind \in PolicyBranchKinds THEN repo.branch ELSE NoBranch
             ev     == Evaluate(p, RiskOf(kind), kind, branch)
  <1>1. kind \in Kinds
    BY PlannedKindsType
  <1>2. RiskOf(kind) \in RiskLevels
    BY RiskType
  <1>3. ev.requirement \in Requirements
    BY <1>1, <1>2, EvaluateType DEF Evaluations
  <1> HIDE DEF ev
  <1>4. /\ MaxOf(RiskFloor(RiskOf(kind)), ev.requirement) = NormalSelection
        /\ Prepare(p, request, kind).reasons = ev.reasons
    BY DEF Prepare, ev
  <1>5. ev.requirement = NormalSelection
    BY <1>2, <1>3, <1>4 DEF MaxOf, RiskFloor
  <1>6. QED
    BY <1>1, <1>4, <1>5, NothingToShow DEF ev

\* What the user does keeps the invariant.
LEMMA UserSafe ==
  ASSUME IInv, TypeInv', User
  PROVE  Safe'
  <1>1. ASSUME NEW request \in SingleRequests, SubmitRequest(request) PROVE Safe'
    <2> DEFINE p == LoadPolicy(policy)
    <2>1. pc = "idle" /\ pc \notin Running
      BY <1>1 DEF SubmitRequest, Running
    <2>2. PICK kind \in PlannedKinds(request) :
            LET plan      == Prepare(p, request, kind)
                operation == [requests |-> <<request>>, plan |-> plan,
                              requirement |-> plan.requirement, reasons |-> plan.reasons,
                              evals |-> <<>>, seqEvals |-> <<>>]
            IN IF plan.requirement = NormalSelection
               THEN Begin("check", p, operation, NormalSelection, {})
               ELSE UNCHANGED pc
      BY <1>1 DEF SubmitRequest
    <2> DEFINE plan      == Prepare(p, request, kind)
               operation == [requests |-> <<request>>, plan |-> plan,
                             requirement |-> plan.requirement, reasons |-> plan.reasons,
                             evals |-> <<>>, seqEvals |-> <<>>]
    <2>3. request \in Requests /\ p \in PolicyRecords
      BY SessionAssumption, LoadPolicyType, SessionPolicies DEF IInv, TypeInv, TypeOK
    <2>4. plan \in Plans
      BY <2>3, PrepareType DEF IInv, TypeInv, TypeOK
    <2>5. CASE plan.requirement # NormalSelection
      <3>1. pc' = pc
        BY <2>2, <2>5
      <3>2. QED
        BY <2>1, <3>1, IdleSafe DEF TypeInv
    <2>6. CASE plan.requirement = NormalSelection
      <3>1. plan.reasons = {}
        BY <2>3, <2>6, PlainPlan
      <3>2. Begin("check", p, operation, NormalSelection, {})
        BY <2>2, <2>6
      <3> HIDE DEF plan, p
      <3>3. <<request>> \in Seq(Requests) /\ <<>> \in Seq(Evaluations) /\ Len(<<request>>) = 1
        BY <2>3
      <3>4. operation \in Pendings
        <4>1. plan.requirement \in Requirements /\ plan.reasons \in SUBSET Reasons
          BY <2>4 DEF Plans
        <4>2. QED
          BY <2>4, <3>3, <4>1 DEF Pendings
      <3>5. /\ operation.requests = <<request>> /\ operation.reasons = {}
            /\ operation.requirement = NormalSelection /\ operation.plan = plan
        BY <2>6, <3>1
      <3> HIDE DEF operation
      <3>6. ~IsSequence(operation.requests)
        BY <3>3, <3>5 DEF IsSequence
      <3>7. UNCHANGED <<file, repo, journal>>
        BY <1>1 DEF SubmitRequest
      <3>8. operation.requirement <= NormalSelection /\ NormalSelection \in Requirements
        BY <3>5
      <3>9. Begin(IF IsSequence(operation.requests) THEN "seqLoad" ELSE "check",
                  LoadPolicy(policy), operation, NormalSelection, operation.reasons)
        BY <3>2, <3>5, <3>6 DEF p
      <3>10. /\ operation.plan.requirement = operation.requirement
             /\ operation.plan.reasons = operation.reasons
        BY <2>6, <3>1, <3>5
      <3>11. QED
        BY <2>1, <3>4, <3>6, <3>7, <3>8, <3>9, <3>10, BeginSafe
    <2>7. QED
      BY <2>5, <2>6
  <1>2. ASSUME NEW requests \in SequenceRequests, SubmitSequence(requests) PROVE Safe'
    BY <1>2, IdleSafe DEF SubmitSequence, Running, TypeInv
  <1>3. ASSUME NEW key \in {"y", "Y", "n"}, HandleKey(key) PROVE Safe'
    <2>1. /\ pc = "idle" /\ pc \notin Running /\ pending # None
          /\ UNCHANGED <<file, repo, journal>>
      BY <1>3 DEF HandleKey, Running
    <2>2. CASE ~Confirms(key)
      <3>1. pc' = pc
        BY <1>3, <2>2 DEF HandleKey
      <3>2. QED
        BY <2>1, <3>1, IdleSafe DEF TypeInv
    <2>3. CASE Confirms(key)
      <3>1. pending \in Pendings /\ pending.requirement \in Requirements
        BY <2>1 DEF IInv, TypeInv, TypeOK, Pendings
      <3>2. KeyLevel(key) \in Requirements /\ pending.requirement <= KeyLevel(key)
        BY <2>3, <3>1 DEF KeyLevel, Confirms
      <3>3. Begin(IF IsSequence(pending.requests) THEN "seqLoad" ELSE "check",
                  LoadPolicy(policy), pending, KeyLevel(key), pending.reasons)
        BY <1>3, <2>3 DEF HandleKey, Confirm
      <3>4. IF IsSequence(pending.requests)
            THEN \A i \in DOMAIN pending.evals :
                   pending.evals[i].reasons \subseteq pending.reasons
            ELSE /\ pending.plan.requirement = pending.requirement
                 /\ pending.plan.reasons = pending.reasons
        BY <2>1 DEF IInv, PendingShows
      <3>5. QED
        BY <2>1, <3>1, <3>2, <3>3, <3>4, BeginSafe
    <2>4. QED
      BY <2>2, <2>3
  <1>4. QED
    BY <1>1, <1>2, <1>3 DEF User

\* What everyone else does keeps the invariant: a configuration or a HEAD that
\* changes under a run is a fact the run has still to check.
LEMMA EnvironmentSafe ==
  ASSUME IInv, TypeInv',
         \/ ReloadTick \/ Stop \/ Restart \/ OtherGitClient
         \/ \E content \in Policies \cup {Corrupt} : EditConfig(content)
         \/ UNCHANGED vars
  PROVE  Safe'
  <1>1. CASE ReloadTick \/ Stop \/ Restart
    BY <1>1, IdleSafe DEF ReloadTick, Stop, Restart, Running, TypeInv
  <1>2. CASE OtherGitClient
    <2>1. UNCHANGED <<file, policy, pending, pc, run, journal, consent, shown, fresh, effect>>
      BY <1>2 DEF OtherGitClient
    <2>2. moved' = (moved \/ (pc = "act" /\ repo'.branch # repo.branch))
      BY <1>2 DEF OtherGitClient
    <2>3. SequenceCovered' /\ PlanAuthorized'
      BY <2>1 DEF IInv, Safe, SequenceCovered, PlanAuthorized, EffectAuthorized, Plan,
         PlanRisk, PolicyBranch
    <2>4. PlanShown'
      <3>1. /\ pc' = "act" /\ ~moved' => ~moved /\ repo'.branch = repo.branch
            /\ effect # None => pc = "finish"
            /\ pc = "finish" => moved' = moved
        <4>1. moved \in BOOLEAN
          BY DEF IInv, TypeInv, TypeOK
        <4>2. QED
          BY <2>1, <2>2, <4>1 DEF IInv, TypeInv, RunExists
      <3>2. QED
        BY <2>1, <3>1 DEF IInv, Safe, PlanShown, ProtectionWasShown, EvaluatePlan, Plan,
           PolicyBranch, NamesItsRef
    <2>5. PolicyIsFresh' /\ SucceededSoFar' /\ Announced'
      BY <2>1 DEF IInv, Safe, PolicyIsFresh, FreshPolicy, SucceededSoFar, Announced,
         AuditTrailTruthful, Plan
    <2>6. QED
      BY <2>3, <2>4, <2>5 DEF Safe
  <1>3. ASSUME NEW content \in Policies \cup {Corrupt}, EditConfig(content) PROVE Safe'
    <2>1. /\ UNCHANGED <<policy, repo, pending, pc, run, journal, consent, shown,
                         effect, moved>>
          /\ file' = content
          /\ fresh' = IF pc \in Running /\ content # Corrupt
                      THEN fresh \cup {content} ELSE fresh
      BY <1>3 DEF EditConfig
    <2>2. SequenceCovered' /\ PlanAuthorized' /\ PlanShown'
      BY <2>1 DEF IInv, Safe, SequenceCovered, PlanAuthorized, EffectAuthorized, Plan,
         PlanRisk, PolicyBranch, PlanShown, ProtectionWasShown, EvaluatePlan, NamesItsRef
    <2>3. PolicyIsFresh'
      BY <2>1 DEF IInv, Safe, PolicyIsFresh, FreshPolicy
    <2>4. SucceededSoFar' /\ Announced'
      BY <2>1 DEF IInv, Safe, SucceededSoFar, Announced, AuditTrailTruthful, Plan
    <2>5. QED
      BY <2>2, <2>3, <2>4 DEF Safe
  <1>4. CASE UNCHANGED vars
    BY <1>4 DEF vars, IInv, Safe, SequenceCovered, PlanAuthorized, EffectAuthorized, Plan,
       PlanRisk, PolicyBranch, PlanShown, ProtectionWasShown, EvaluatePlan, NamesItsRef,
       PolicyIsFresh, FreshPolicy, SucceededSoFar, Announced, AuditTrailTruthful
  <1>5. QED
    BY <1>1, <1>2, <1>3, <1>4

\* The first step of a sequence goes on only if the whole preview still covers
\* what the policy demands of each of its steps.
LEMMA SequenceCheckSafe ==
  ASSUME IInv, TypeInv', SequenceCheck
  PROVE  Safe'
  <1> DEFINE p == LoadPolicy(run.policy)
  <1>1. /\ pc = "seqCheck" /\ pc' = "check" /\ run \in Runs
        /\ run' = [run EXCEPT !.policy = p]
        /\ UNCHANGED <<file, policy, repo, pending, journal, history>>
    BY DEF SequenceCheck, IInv, TypeInv, RunExists, Running
  <1>2. /\ run'.requests = run.requests /\ run'.plan = run.plan
        /\ run'.confirmed = run.confirmed /\ run'.evals = run.evals
        /\ run'.seqEvals = run.seqEvals /\ run'.results = run.results /\ run'.policy = p
    BY <1>1 DEF Runs
  <1>3. /\ run.requests \in Seq(Requests) /\ run.policy \in PolicyRecords
        /\ run.confirmed \in Requirements /\ Plan.kind \in Kinds
        /\ run.evals \in Seq(Evaluations) /\ run.seqEvals \in Seq(Evaluations)
    BY <1>1, RunParts
  <1>4. p \in PolicyRecords /\ OnDisk(run.policy) = {p} /\ (file # Corrupt => p = file)
    BY <1>3, LoadPolicyType DEF IInv, TypeInv, TypeOK
  <1>5. IsSequence(run.requests) /\ 1 \in DOMAIN run.requests /\ effect' = None
    <2>1. DOMAIN run.requests = 1..Len(run.requests) /\ Len(run.requests) \in Nat
      BY <1>3
    <2>2. effect' = None
      BY <1>1 DEF IInv, TypeInv, RunExists, history
    <2>3. QED
      BY <1>1, <2>1, <2>2 DEF IInv, TypeInv, RunShape, IsSequence
  <1>6. /\ DOMAIN run.evals = DOMAIN run.requests
        /\ DOMAIN run.seqEvals = DOMAIN run.requests
        /\ \A i \in DOMAIN run.requests : run.seqEvals[i].requirement <= run.confirmed
    <2>1. /\ DOMAIN StepEvaluations(p, run.requests, run.branch) = DOMAIN run.requests
          /\ DOMAIN SequenceEvaluations(p, run.requests, run.branch) = DOMAIN run.requests
      BY <1>3, <1>4, EvaluationsType
    <2>2. /\ SequenceConfirmationCovers(run.confirmed, run.evals,
                                        StepEvaluations(p, run.requests, run.branch))
          /\ SequenceConfirmationCovers(run.confirmed, run.seqEvals,
                                        SequenceEvaluations(p, run.requests, run.branch))
      BY DEF SequenceCheck
    <2> HIDE DEF p
    <2>3. QED
      BY <2>1, <2>2 DEF SequenceConfirmationCovers
  <1>7. /\ ConfirmationCovers(Plan.requirement, run.confirmed, run.evals[1],
                              EvaluatePlan(p, Plan))
        /\ ConfirmationCovers(Plan.requirement, run.confirmed, run.seqEvals[1],
                              EvaluateSequencePlan(p, Plan))
    BY DEF SequenceCheck, StepCovered
  <1>8. EvaluateSequencePlan(p, Plan).requirement <= run.confirmed
    <2>1. SequenceRisk(RiskOf(Plan.kind)) \in RiskLevels
      BY RiskType
    <2>2. EvaluateSequencePlan(p, Plan).requirement \in Requirements
      BY <1>3, <1>4, <2>1, EvaluateType DEF EvaluateSequencePlan, Evaluations
    <2>3. run.seqEvals[1] \in Evaluations
      BY <1>3, <1>5, <1>6
    <2>4. run.seqEvals[1].requirement \in Requirements
      BY <2>3 DEF Evaluations
    <2>5. QED
      BY <1>3, <1>5, <1>6, <1>7, <2>2, <2>4 DEF ConfirmationCovers
  <1>9. EvaluatePlan(p, Plan).reasons \subseteq shown
    <2>1. run.evals[1].reasons \subseteq shown
      BY <1>1, <1>5, <1>6 DEF IInv, Safe, PlanShown, Running
    <2>2. QED
      BY <1>7, <2>1 DEF ConfirmationCovers, ReasonsCovered
  <1>10. SequenceCovered'
    BY <1>2, <1>6 DEF SequenceCovered
  <1>11. PlanAuthorized'
    BY <1>1, <1>2, <1>5, <1>8 DEF IInv, Safe, PlanAuthorized, EffectAuthorized, Executing,
       Running, history, Plan, PlanRisk, PolicyBranch, EvaluateSequencePlan
  <1>12. PlanShown'
    BY <1>1, <1>2, <1>5, <1>9 DEF IInv, Safe, PlanShown, ProtectionWasShown, Executing,
       Running, history, Plan, PolicyBranch, EvaluatePlan
  <1>13. PolicyIsFresh'
    BY <1>1, <1>2, <1>4, <1>5 DEF IInv, Safe, PolicyIsFresh, FreshPolicy, Running, history,
       LoadPolicy
  <1>14. SucceededSoFar' /\ Announced'
    BY <1>1, <1>2, <1>5 DEF IInv, Safe, SucceededSoFar, Announced, AuditTrailTruthful,
       Running
  <1>15. QED
    BY <1>10, <1>11, <1>12, <1>13, <1>14 DEF Safe

\* A deferred step goes on only if what it now demands was confirmed and shown.
LEMMA DeferredRecheckSafe ==
  ASSUME IInv, TypeInv', DeferredRecheck
  PROVE  Safe'
  <1> DEFINE p == LoadPolicy(run.policy)
             i == StepNumber
  <1>1. /\ pc = "recheck" /\ run \in Runs
        /\ UNCHANGED <<file, policy, repo, pending, journal, history>>
    BY DEF DeferredRecheck, IInv, TypeInv, RunExists, Running
  <1>2. effect' = None
    BY <1>1 DEF IInv, TypeInv, RunExists, history
  <1>3. /\ run.requests \in Seq(Requests) /\ run.policy \in PolicyRecords
        /\ run.confirmed \in Requirements /\ Plan.kind \in Kinds
        /\ run.evals \in Seq(Evaluations) /\ run.seqEvals \in Seq(Evaluations)
        /\ run.results \in Seq(BOOLEAN)
    BY <1>1, RunParts
  <1>4. p \in PolicyRecords /\ (file # Corrupt => p = file)
    BY <1>3, LoadPolicyType DEF IInv, TypeInv, TypeOK
  <1>5. CASE ~StepCovered(p, i)
    <2>1. pc' = "wrap" /\ run' = [run EXCEPT !.policy = p, !.results = Append(@, FALSE)]
      BY <1>5 DEF DeferredRecheck
    <2>2. /\ run'.requests = run.requests /\ run'.plan = run.plan
          /\ run'.confirmed = run.confirmed /\ run'.evals = run.evals
          /\ run'.results = Append(run.results, FALSE)
      BY <1>1, <2>1 DEF Runs
    <2>3. QED
      BY <1>1, <1>2, <2>1, <2>2, EndSafe DEF Running, history
  <1>6. CASE StepCovered(p, i)
    <2>1. pc' = "check" /\ run' = [run EXCEPT !.policy = p]
      BY <1>6 DEF DeferredRecheck
    <2>2. /\ run'.requests = run.requests /\ run'.plan = run.plan
          /\ run'.confirmed = run.confirmed /\ run'.evals = run.evals
          /\ run'.seqEvals = run.seqEvals /\ run'.results = run.results /\ run'.policy = p
      BY <1>1, <2>1 DEF Runs
    <2>3. /\ IsSequence(run.requests) /\ i \in DOMAIN run.requests
      <3>1. /\ DOMAIN run.requests = 1..Len(run.requests) /\ Len(run.requests) \in Nat
            /\ Len(run.results) \in Nat
        BY <1>3
      <3>2. QED
        BY <1>1, <3>1 DEF IInv, TypeInv, RunShape, Deferring, StepNumber
    <2>4. /\ DOMAIN run.evals = DOMAIN run.requests
          /\ DOMAIN run.seqEvals = DOMAIN run.requests
          /\ run.seqEvals[i].requirement <= run.confirmed
      BY <1>1, <2>3 DEF IInv, Safe, SequenceCovered, Deferring
    <2>5. run.seqEvals[i] \in Evaluations
      BY <1>3, <2>3, <2>4
    <2>6. run.seqEvals[i].requirement \in Requirements
      BY <2>5 DEF Evaluations
    <2>7. run.evals[i].reasons \subseteq shown
      BY <1>1, <2>3, <2>4 DEF IInv, Safe, PlanShown, Running
    <2> HIDE DEF i
    <2>8. /\ ConfirmationCovers(Plan.requirement, run.confirmed, run.evals[i],
                                EvaluatePlan(p, Plan))
          /\ ConfirmationCovers(Plan.requirement, run.confirmed, run.seqEvals[i],
                                EvaluateSequencePlan(p, Plan))
      BY <1>6 DEF StepCovered
    <2>9. EvaluateSequencePlan(p, Plan).requirement <= run.confirmed
      <3>1. SequenceRisk(RiskOf(Plan.kind)) \in RiskLevels
        BY RiskType
      <3>2. EvaluateSequencePlan(p, Plan).requirement \in Requirements
        BY <1>3, <1>4, <3>1, EvaluateType DEF EvaluateSequencePlan, Evaluations
      <3>3. QED
        BY <1>3, <2>4, <2>6, <2>8, <3>2 DEF ConfirmationCovers
    <2>10. EvaluatePlan(p, Plan).reasons \subseteq shown
      BY <2>7, <2>8 DEF ConfirmationCovers, ReasonsCovered
    <2>11. SequenceCovered'
      BY <1>1, <2>1, <2>2 DEF IInv, Safe, SequenceCovered, Deferring
    <2>12. PlanAuthorized'
      BY <1>1, <1>2, <2>1, <2>2, <2>3, <2>9 DEF IInv, Safe, PlanAuthorized, EffectAuthorized,
         Executing, Running, history, Plan, PlanRisk, PolicyBranch, EvaluateSequencePlan
    <2>13. PlanShown'
      BY <1>1, <1>2, <2>1, <2>2, <2>3, <2>10 DEF IInv, Safe, PlanShown, ProtectionWasShown,
         Executing, Running, history, Plan, PolicyBranch, EvaluatePlan
    <2>14. PolicyIsFresh'
      BY <1>1, <1>2, <1>4, <2>1, <2>2 DEF IInv, Safe, PolicyIsFresh, FreshPolicy, Running,
         history, LoadPolicy
    <2>15. SucceededSoFar' /\ Announced'
      BY <1>1, <1>2, <2>1, <2>2 DEF IInv, Safe, SucceededSoFar, Announced,
         AuditTrailTruthful, Running
    <2>16. QED
      BY <2>11, <2>12, <2>13, <2>14, <2>15 DEF Safe
  <1>7. QED
    BY <1>5, <1>6

\* Between the check of a plan and the end of its step, the plan, the policy and
\* the confirmation of the run stay as they were checked.
LEMMA CheckPlanSafe ==
  ASSUME IInv, TypeInv', CheckPlan
  PROVE  Safe'
  <1>1. /\ pc = "check" /\ pc' = "begin" /\ run \in Runs
        /\ UNCHANGED <<file, policy, repo, pending, run, journal, history>>
    BY DEF CheckPlan, IInv, TypeInv, RunExists, Running
  <1>2. effect = None
    BY <1>1 DEF IInv, TypeInv, RunExists
  <1>3. Plan.kind \in Kinds /\ run.policy \in PolicyRecords
        /\ run.confirmed \in Requirements /\ Plan.requirement \in Requirements
    BY <1>1, RunParts
  <1>4. /\ EvaluatePlan(run.policy, Plan).requirement <= Plan.requirement
        /\ EvaluatePlan(run.policy, Plan).reasons \subseteq Plan.reasons
    BY DEF CheckPlan, ValidatePolicy, ReasonsCovered
  <1>5. Evaluate(run.policy, PlanRisk, Plan.kind, PolicyBranch(Plan)).requirement
          <= run.confirmed
    <2>1. CASE IsSequence(run.requests)
      BY <1>1, <2>1 DEF IInv, Safe, PlanAuthorized
    <2>2. CASE ~IsSequence(run.requests)
      <3>1. Plan.requirement <= run.confirmed
        BY <1>1, <2>2 DEF IInv, Safe, PlanAuthorized, Running
      <3>2. EvaluatePlan(run.policy, Plan).requirement \in Requirements
        <4>1. RiskOf(Plan.kind) \in RiskLevels
          BY RiskType
        <4>2. QED
          BY <1>3, <4>1, EvaluateType DEF EvaluatePlan, Evaluations
      <3>3. EvaluatePlan(run.policy, Plan).requirement <= run.confirmed
        BY <1>3, <1>4, <3>1, <3>2
      <3>4. QED
        BY <2>2, <3>3 DEF PlanRisk, EvaluatePlan
    <2>3. QED
      BY <2>1, <2>2
  <1>6. EvaluatePlan(run.policy, Plan).reasons \subseteq shown
    BY <1>1, <1>4 DEF IInv, Safe, PlanShown, Running
  <1>7. SequenceCovered'
    BY <1>1 DEF IInv, Safe, SequenceCovered, Executing
  <1>8. PlanAuthorized'
    BY <1>1, <1>2, <1>5 DEF IInv, Safe, PlanAuthorized, EffectAuthorized, Running, history,
       Plan, PlanRisk, PolicyBranch
  <1>9. PlanShown'
    BY <1>1, <1>2, <1>6 DEF IInv, Safe, PlanShown, ProtectionWasShown, Running, history,
       Plan, PolicyBranch, EvaluatePlan
  <1>10. PolicyIsFresh' /\ SucceededSoFar' /\ Announced'
    BY <1>1, <1>2 DEF IInv, Safe, PolicyIsFresh, FreshPolicy, SucceededSoFar, Announced,
       AuditTrailTruthful, Running, history
  <1>11. QED
    BY <1>7, <1>8, <1>9, <1>10 DEF Safe

\* The command acts with the authority its plan was checked for, on a branch
\* whose protection was shown.
LEMMA RunStepSafe ==
  ASSUME IInv, TypeInv', RunStep
  PROVE  Safe'
  <1>1. /\ pc = "act" /\ pc' = "finish" /\ run \in Runs
        /\ effect' = [kind |-> Plan.kind, branch |-> ActsOn(Plan)]
        /\ UNCHANGED <<file, policy, pending, journal, consent, shown, fresh, moved>>
    BY DEF RunStep, IInv, TypeInv, RunExists, Running
  <1>2. /\ run'.requests = run.requests /\ run'.plan = run.plan
        /\ run'.confirmed = run.confirmed /\ run'.evals = run.evals
        /\ run'.seqEvals = run.seqEvals /\ run'.results = run.results
        /\ run'.policy = run.policy
    BY <1>1 DEF RunStep, Runs
  <1>3. /\ Plan.kind \in Kinds /\ run.policy \in PolicyRecords
        /\ run.confirmed \in Requirements
    BY <1>1, RunParts
  <1>4. /\ Evaluate(run.policy, PlanRisk, Plan.kind, PolicyBranch(Plan)).requirement
             <= run.confirmed
        /\ run.confirmed <= consent
        /\ EvaluatePlan(run.policy, Plan).reasons \subseteq shown
    BY <1>1 DEF IInv, Safe, PlanAuthorized, PlanShown, Running, Executing
  <1>5. EffectAuthorized'
    <2>1. /\ PlanRisk \in {RiskOf(Plan.kind), SequenceRisk(RiskOf(Plan.kind))}
          /\ PlanRisk \in RiskLevels
      BY RiskType DEF PlanRisk
    <2>2. Evaluate(run.policy, PlanRisk, Plan.kind, ActsOn(Plan)).requirement
            = Evaluate(run.policy, PlanRisk, Plan.kind, PolicyBranch(Plan)).requirement
      BY <1>3, <2>1, RequirementIgnoresBranch
    <2>3. Evaluate(run.policy, PlanRisk, Plan.kind, ActsOn(Plan)).requirement
            \in Requirements
      BY <1>3, <2>1, EvaluateType DEF Evaluations
    <2>4. consent \in Requirements
      BY DEF IInv, TypeInv, TypeOK
    <2>5. Evaluate(run.policy, PlanRisk, Plan.kind, ActsOn(Plan)).requirement <= consent
      BY <1>3, <1>4, <2>2, <2>3, <2>4
    <2>6. effect'.kind = Plan.kind /\ effect'.branch = ActsOn(Plan)
      BY <1>1
    <2>7. QED
      BY <1>1, <1>2, <2>5, <2>6 DEF EffectAuthorized, PlanRisk
  <1>6. ProtectionWasShown'
    <2>1. SUFFICES ASSUME Plan.kind \in PolicyBranchKinds, moved => NamesItsRef(Plan)
                   PROVE  Evaluate(run.policy, RiskOf(Plan.kind), Plan.kind,
                                   ActsOn(Plan)).reasons \subseteq shown
      BY <1>1, <1>2 DEF ProtectionWasShown, NamesItsRef, Plan
    <2>2. ActsOn(Plan) = Plan.head
      BY <1>1, <2>1 DEF ActsOn, IInv, Safe, PlanShown, HeadBoundKinds
    <2>3. QED
      BY <1>4, <2>1, <2>2 DEF EvaluatePlan, PolicyBranch
  <1>7. SequenceCovered'
    BY <1>1, <1>2 DEF IInv, Safe, SequenceCovered, Executing
  <1>8. PlanAuthorized'
    BY <1>1, <1>2, <1>4, <1>5 DEF IInv, Safe, PlanAuthorized, Running, Executing, Plan,
       PlanRisk, PolicyBranch
  <1>9. PlanShown'
    BY <1>1, <1>2, <1>4, <1>6 DEF IInv, Safe, PlanShown, Running, Executing, Plan,
       PolicyBranch, EvaluatePlan
  <1>10. PolicyIsFresh' /\ SucceededSoFar' /\ Announced'
    BY <1>1, <1>2 DEF IInv, Safe, PolicyIsFresh, FreshPolicy, SucceededSoFar, Announced,
       AuditTrailTruthful, Running, Plan
  <1>11. QED
    BY <1>7, <1>8, <1>9, <1>10 DEF Safe

LEMMA ExecutorSafe ==
  ASSUME IInv, TypeInv', Executor
  PROVE  Safe'
  <1>1. pc \in Running /\ run \in Runs
    BY DEF Executor, StepRefused, SequenceLoad, SequenceCheck, CheckPlan, AuditBegin,
           CheckPayload, RunStep, StepFails, AuditFinish, DeferredLoad, DeferredPlan,
           DeferredRecheck, Wrap, Running, IInv, TypeInv, RunExists
  <1>2. /\ run.requests \in Seq(Requests) /\ run.policy \in PolicyRecords
        /\ run.results \in Seq(BOOLEAN)
    BY <1>1, RunParts
  <1>3. ASSUME Refused, pc # "wrap", effect' = None, consent' = consent, shown' = shown
        PROVE  Safe'
    <2>1. /\ run'.requests = run.requests /\ run'.plan = run.plan
          /\ run'.confirmed = run.confirmed /\ run'.evals = run.evals
          /\ run'.results = Append(run.results, FALSE)
      BY <1>1, <1>3 DEF Refused, Runs
    <2>2. QED
      BY <1>1, <1>3, <2>1, EndSafe DEF Refused
  <1>4. CASE StepRefused
    BY <1>3, <1>4 DEF StepRefused, IInv, TypeInv, RunExists, history
  <1>5. CASE SequenceLoad
    <2>1. /\ pc = "seqLoad" /\ pc' = "seqCheck"
          /\ UNCHANGED <<file, policy, repo, pending, journal, history>>
      BY <1>5 DEF SequenceLoad
    <2>2. /\ run'.requests = run.requests /\ run'.plan = run.plan
          /\ run'.confirmed = run.confirmed /\ run'.evals = run.evals
          /\ run'.results = run.results /\ run'.policy = LoadPolicy(run.policy)
      BY <1>1, <1>5 DEF SequenceLoad, Runs
    <2>3. effect' = None
      BY <2>1 DEF IInv, TypeInv, RunExists, history
    <2>4. SequenceCovered' /\ SucceededSoFar' /\ Announced'
      BY <2>1, <2>2, <2>3 DEF IInv, Safe, SequenceCovered, SucceededSoFar, Announced,
         AuditTrailTruthful, Running, Deferring, Executing
    <2>5. PlanAuthorized' /\ PlanShown'
      BY <2>1, <2>2, <2>3 DEF IInv, Safe, PlanAuthorized, EffectAuthorized, PlanShown,
         ProtectionWasShown, Running, Executing, history, Plan
    <2>6. PolicyIsFresh'
      BY <2>1, <2>2, <2>3 DEF IInv, Safe, PolicyIsFresh, FreshPolicy, Running, history,
         LoadPolicy
    <2>7. QED
      BY <2>4, <2>5, <2>6 DEF Safe
  <1>6. CASE AuditBegin
    <2>1. /\ pc = "begin" /\ UNCHANGED <<file, policy, repo, pending, history>>
          /\ effect' = None
      BY <1>6 DEF AuditBegin, IInv, TypeInv, RunExists, history
    <2>2. CASE Refused
      BY <1>3, <2>1, <2>2 DEF history
    <2>3. CASE run' = run /\ pc' = "run" /\ journal' = Entry("started", Plan.kind)
      <3>1. SequenceCovered' /\ SucceededSoFar'
        BY <2>1, <2>3 DEF IInv, Safe, SequenceCovered, SucceededSoFar, Running, Executing
      <3>2. PlanAuthorized' /\ PlanShown'
        BY <2>1, <2>3 DEF IInv, Safe, PlanAuthorized, EffectAuthorized, PlanShown,
           ProtectionWasShown, Running, Executing, history, Plan, PlanRisk, PolicyBranch,
           EvaluatePlan
      <3>3. PolicyIsFresh' /\ Announced'
        BY <2>1, <2>3 DEF IInv, Safe, PolicyIsFresh, FreshPolicy, Announced,
           AuditTrailTruthful, Running, history, Plan
      <3>4. QED
        BY <3>1, <3>2, <3>3 DEF Safe
    <2>4. QED
      BY <1>6, <2>2, <2>3 DEF AuditBegin
  <1>7. CASE CheckPayload
    <2>1. /\ pc = "run" /\ pc' = "act" /\ moved' = FALSE
          /\ UNCHANGED <<file, policy, repo, pending, run, journal, consent, shown, fresh,
                         effect>>
          /\ Plan.kind \in HeadBoundKinds => repo.branch = Plan.head
          /\ effect = None
      BY <1>7 DEF CheckPayload, PayloadStillHolds, IInv, TypeInv, RunExists
    <2>2. SequenceCovered' /\ SucceededSoFar' /\ PlanAuthorized'
      BY <2>1 DEF IInv, Safe, SequenceCovered, SucceededSoFar, PlanAuthorized,
         EffectAuthorized, Running, Executing, Plan, PlanRisk, PolicyBranch
    <2>3. PlanShown'
      BY <2>1 DEF IInv, Safe, PlanShown, ProtectionWasShown, Running, Executing, Plan,
         PolicyBranch, EvaluatePlan
    <2>4. PolicyIsFresh' /\ Announced'
      BY <2>1 DEF IInv, Safe, PolicyIsFresh, FreshPolicy, Announced, AuditTrailTruthful,
         Running, Plan
    <2>5. QED
      BY <2>2, <2>3, <2>4 DEF Safe
  <1>8. CASE StepFails
    <2>1. /\ pc \in {"run", "act"} /\ pc' = "finish"
          /\ UNCHANGED <<file, policy, repo, pending, journal, history>>
          /\ effect = None
      BY <1>8 DEF StepFails, IInv, TypeInv, RunExists
    <2>2. /\ run'.requests = run.requests /\ run'.plan = run.plan
          /\ run'.confirmed = run.confirmed /\ run'.evals = run.evals
          /\ run'.seqEvals = run.seqEvals /\ run'.results = run.results
          /\ run'.policy = run.policy
      BY <1>1, <1>8 DEF StepFails, Runs
    <2>3. SequenceCovered' /\ SucceededSoFar' /\ PlanAuthorized'
      BY <2>1, <2>2 DEF IInv, Safe, SequenceCovered, SucceededSoFar, PlanAuthorized,
         EffectAuthorized, Running, Executing, history, Plan, PlanRisk, PolicyBranch
    <2>4. PlanShown'
      BY <2>1, <2>2 DEF IInv, Safe, PlanShown, ProtectionWasShown, Running, Executing,
         history, Plan, PolicyBranch, EvaluatePlan
    <2>5. PolicyIsFresh' /\ Announced'
      BY <2>1, <2>2 DEF IInv, Safe, PolicyIsFresh, FreshPolicy, Announced,
         AuditTrailTruthful, Running, history, Plan
    <2>6. QED
      BY <2>3, <2>4, <2>5 DEF Safe
  <1>9. CASE AuditFinish
    <2>1. PICK written \in BOOLEAN :
            /\ journal' \in {Entry(run.outcome, Plan.kind)} \cup
                            (IF written THEN {} ELSE {journal})
            /\ run' = [run EXCEPT !.results = Append(@, StepSucceeded(written)),
                                  !.outcome = None]
            /\ pc' = AfterStep(StepSucceeded(written))
      BY <1>9 DEF AuditFinish
    <2>2. /\ pc = "finish" /\ effect' = None /\ consent' = consent /\ shown' = shown
          /\ UNCHANGED file
      BY <1>9 DEF AuditFinish
    <2>3. StepSucceeded(written) \in BOOLEAN
      BY DEF StepSucceeded
    <2>4. /\ run'.requests = run.requests /\ run'.plan = run.plan
          /\ run'.confirmed = run.confirmed /\ run'.evals = run.evals
          /\ run'.seqEvals = run.seqEvals
          /\ run'.results = Append(run.results, StepSucceeded(written))
      BY <1>1, <2>1 DEF Runs
    <2>5. CASE pc' = "wrap"
      BY <1>1, <2>2, <2>3, <2>4, <2>5, EndSafe
    <2>6. CASE pc' # "wrap"
      <3>1. pc' = "planLoad" /\ StepSucceeded(written)
        BY <2>1, <2>6 DEF AfterStep
      <3>2. run.outcome = "completed" /\ written
        BY <3>1 DEF StepSucceeded
      <3>3. journal' = Entry("completed", Plan.kind)
        BY <2>1, <3>2
      <3>4. SequenceCovered'
        BY <2>2, <2>4, <3>1 DEF IInv, Safe, SequenceCovered, Executing, Deferring
      <3>5. PlanAuthorized' /\ PlanShown'
        BY <2>2, <2>4, <3>1 DEF IInv, Safe, PlanAuthorized, EffectAuthorized, PlanShown,
           ProtectionWasShown, Running, Executing, Plan
      <3>6. PolicyIsFresh' /\ Announced'
        BY <2>2, <2>4, <3>1, <3>3 DEF PolicyIsFresh, FreshPolicy, Announced,
           AuditTrailTruthful, Running, Plan
      <3>7. SucceededSoFar'
        <4>1. \A i \in DOMAIN run.results : run.results[i]
          BY <2>2 DEF IInv, Safe, SucceededSoFar, Running
        <4>2. ASSUME NEW i \in DOMAIN Append(run.results, StepSucceeded(written))
              PROVE  Append(run.results, StepSucceeded(written))[i]
          <5>1. CASE i \in DOMAIN run.results
            BY <1>2, <2>3, <4>1, <5>1
          <5>2. CASE i \notin DOMAIN run.results
            <6>1. i = Len(run.results) + 1
              BY <1>2, <2>3, <4>2, <5>2
            <6>2. QED
              BY <1>2, <2>3, <3>1, <6>1
          <5>3. QED
            BY <5>1, <5>2
        <4>3. QED
          BY <2>4, <3>1, <4>2 DEF SucceededSoFar
      <3>8. QED
        BY <3>4, <3>5, <3>6, <3>7 DEF Safe
    <2>7. QED
      BY <2>5, <2>6
  <1>10. CASE DeferredLoad
    <2>1. /\ pc = "planLoad" /\ pc' = "plan" /\ effect = None
          /\ fresh' = OnDisk(run.policy)
          /\ UNCHANGED <<file, policy, repo, pending, journal, consent, shown, effect, moved>>
      BY <1>10 DEF DeferredLoad, IInv, TypeInv, RunExists
    <2>2. /\ run'.requests = run.requests /\ run'.plan = run.plan
          /\ run'.confirmed = run.confirmed /\ run'.evals = run.evals
          /\ run'.seqEvals = run.seqEvals /\ run'.results = run.results
          /\ run'.policy = LoadPolicy(run.policy)
      BY <1>1, <1>10 DEF DeferredLoad, Runs
    <2>3. fresh' = {LoadPolicy(run.policy)} /\ (file # Corrupt => LoadPolicy(run.policy) = file)
      BY <1>2, <2>1, LoadPolicyType DEF IInv, TypeInv, TypeOK
    <2>4. SequenceCovered' /\ SucceededSoFar' /\ Announced'
      BY <2>1, <2>2 DEF IInv, Safe, SequenceCovered, SucceededSoFar, Announced,
         AuditTrailTruthful, Running, Executing, Deferring
    <2>5. PlanAuthorized' /\ PlanShown'
      BY <2>1, <2>2 DEF IInv, Safe, PlanAuthorized, EffectAuthorized, PlanShown,
         ProtectionWasShown, Running, Executing, Plan
    <2>6. PolicyIsFresh'
      BY <2>1, <2>2, <2>3 DEF PolicyIsFresh, FreshPolicy
    <2>7. QED
      BY <2>4, <2>5, <2>6 DEF Safe
  <1>11. CASE DeferredPlan
    <2>1. PICK kind \in PlannedKinds(run.requests[StepNumber]) :
            run' = [run EXCEPT !.plan = Prepare(run.policy, run.requests[StepNumber], kind)]
      BY <1>11 DEF DeferredPlan
    <2>2. /\ pc = "plan" /\ pc' = "recheck" /\ effect = None
          /\ UNCHANGED <<file, policy, repo, pending, journal, history>>
      BY <1>11 DEF DeferredPlan, IInv, TypeInv, RunExists
    <2>3. /\ run'.requests = run.requests
          /\ run'.confirmed = run.confirmed /\ run'.evals = run.evals
          /\ run'.seqEvals = run.seqEvals /\ run'.results = run.results
          /\ run'.policy = run.policy
      BY <1>1, <2>1 DEF Runs
    <2>4. IsSequence(run.requests)
      BY <2>2 DEF IInv, TypeInv, RunShape, Deferring
    <2>5. SequenceCovered' /\ SucceededSoFar' /\ Announced'
      BY <2>2, <2>3 DEF IInv, Safe, SequenceCovered, SucceededSoFar, Announced,
         AuditTrailTruthful, Running, Executing, Deferring, history
    <2>6. PlanAuthorized' /\ PlanShown'
      BY <2>2, <2>3, <2>4 DEF IInv, Safe, PlanAuthorized, EffectAuthorized, PlanShown,
         ProtectionWasShown, Running, Executing, history
    <2>7. PolicyIsFresh'
      BY <2>2, <2>3 DEF IInv, Safe, PolicyIsFresh, FreshPolicy, Running, history
    <2>8. QED
      BY <2>5, <2>6, <2>7 DEF Safe
  <1>12. CASE Wrap
    BY <1>12, IdleSafe DEF Wrap, Running, TypeInv
  <1>13. QED
    BY <1>4, <1>5, <1>6, <1>7, <1>8, <1>9, <1>10, <1>11, <1>12, SequenceCheckSafe,
       CheckPlanSafe, RunStepSafe, DeferredRecheckSafe DEF Executor

-----------------------------------------------------------------------------
(***************************************************************************)
(* The theorems.                                                           *)
(***************************************************************************)
LEMMA InvInit == Init => IInv
  <1> SUFFICES ASSUME Init PROVE IInv
    OBVIOUS
  <1>1. TypeInv /\ PendingShows
    BY TypeInit
  <1>2. pc = "idle" /\ effect = None /\ run = None
    BY DEF Init
  <1>3. Safe
    BY <1>2 DEF Safe, SequenceCovered, PlanAuthorized, PlanShown, PolicyIsFresh,
       SucceededSoFar, Announced, EffectAuthorized, ProtectionWasShown, FreshPolicy,
       AuditTrailTruthful, Running, Deferring, Executing
  <1>4. QED
    BY <1>1, <1>3 DEF IInv

LEMMA InvStep == IInv /\ [Next]_vars => IInv'
  <1> SUFFICES ASSUME IInv, [Next]_vars PROVE IInv'
    OBVIOUS
  <1>1. TypeInv' /\ PendingShows'
    BY TypeStep, PendingStep DEF IInv
  <1>2. Safe'
    BY <1>1, UserSafe, ExecutorSafe, EnvironmentSafe DEF Next
  <1>3. QED
    BY <1>1, <1>2 DEF IInv

LEMMA InvHolds == Spec => []IInv
  BY InvInit, InvStep, PTL DEF Spec

\* No step touches the repository with less confirmation than the policy in
\* force demands of it on the branch it really acts on, whatever other programs
\* did to the configuration and to HEAD since the preview.
THEOREM EffectsAreAuthorized == Spec => []EffectAuthorized
  <1>1. IInv => EffectAuthorized
    BY DEF IInv, Safe, PlanAuthorized
  <1>2. QED
    BY <1>1, InvHolds, PTL

\* The protected-branch rules that apply to what a step does were on the screen
\* when the user confirmed it.
THEOREM ProtectionIsShown == Spec => []ProtectionWasShown
  <1>1. IInv => ProtectionWasShown
    BY DEF IInv, Safe, PlanShown
  <1>2. QED
    BY <1>1, InvHolds, PTL

\* A step acts under a policy the file held since the step began, or under the
\* last valid one.
THEOREM PoliciesAreFresh == Spec => []FreshPolicy
  <1>1. IInv => FreshPolicy
    BY DEF IInv, Safe, PolicyIsFresh
  <1>2. QED
    BY <1>1, InvHolds, PTL

\* Nothing of a run is executed after its first failed or unaudited step.
THEOREM FailureStops == Spec => []StopsAtFirstFailure
  <1>1. IInv => StopsAtFirstFailure
    BY DEF IInv, TypeInv, RunExists, Safe, SucceededSoFar, StopsAtFirstFailure, Running
  <1>2. QED
    BY <1>1, InvHolds, PTL

\* A step that touches the repository was announced in the audit log first, and
\* a sequence goes on only from a step the log says completed.
THEOREM AuditTrailIsTruthful == Spec => []AuditTrailTruthful
  <1>1. IInv => AuditTrailTruthful
    BY DEF IInv, Safe, Announced
  <1>2. QED
    BY <1>1, InvHolds, PTL
=============================================================================
