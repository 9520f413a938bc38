------------------------- MODULE GuardedSwitch_proofs -------------------------
(***************************************************************************)
(* What GuardedSwitch guarantees for all branches, commits, requests and   *)
(* whatever the other clients do.                                          *)
(***************************************************************************)
EXTENDS GuardedSwitch, TLAPS

(***************************************************************************)
(* The order of the checks.                                                *)
(***************************************************************************)
\* The names of the checks, spelled out.
LEMMA NamesOfChecks ==
  CheckNames = {"clean", "oid", "ref", "absent", "target", "available", "ancestor"}
<1>1. DOMAIN Checks = 1..7 /\ 1..7 = {1, 2, 3, 4, 5, 6, 7}
  BY DEF Checks
<1>2. QED
  BY <1>1 DEF CheckNames, Checks

\* Each check is followed by the next one, the last by the command.
LEMMA OrderOfChecks ==
  ASSUME Check
  PROVE  \/ pc = "clean" /\ pc' = "oid"
         \/ pc = "oid" /\ pc' = "ref"
         \/ pc = "ref" /\ pc' = "absent"
         \/ pc = "absent" /\ pc' = "target"
         \/ pc = "target" /\ pc' = "available"
         \/ pc = "available" /\ pc' = "ancestor"
         \/ pc = "ancestor" /\ pc' = "run"
<1> DEFINE i == CHOOSE j \in DOMAIN Checks : Checks[j] = pc
<1>1. DOMAIN Checks = 1..7 /\ Len(Checks) = 7
  BY DEF Checks
<1>2. i \in 1..7 /\ Checks[i] = pc
  BY <1>1 DEF Check, CheckNames
<1>3. pc' = IF i = 7 THEN "run" ELSE Checks[i + 1]
  BY <1>1 DEF Check, Step
<1> HIDE DEF i
<1>4. QED
  BY <1>2, <1>3 DEF Checks

-----------------------------------------------------------------------------
(***************************************************************************)
(* Types.  Beside TypeOK: a checkout, a merge and a rebase keep the branch *)
(* their preview named from its planning on, and a target called local or  *)
(* remote has a name of that kind.                                         *)
(***************************************************************************)
Planned == {"planTracking", "confirm"} \cup Executing

TargetKept ==
  /\ plan.target \in Targets =>
       /\ plan.target.kind = "local" => plan.target.name \in Branches
       /\ plan.target.kind = "remote" => plan.target.name \in RemoteNames
  /\ pc \in Planned /\ request.op # "create" => plan.target \in Targets
  /\ pc = "planBase" => request.op = "create"

TypeInv == TypeOK /\ TargetKept

\* What a name stands for is a target of its kind.
LEMMA NamedType ==
  ASSUME TypeOK, NEW name, NEW target \in Named(name)
  PROVE  /\ target \in Targets
         /\ target.kind = "local" => target.name \in Branches
         /\ target.kind = "remote" => target.name \in RemoteNames
  BY DEF Named, BranchTarget, Targets, TypeOK, LocalTypeOK, Oids, BranchNames

\* HEAD is at a commit or at a branch that may have none.
LEMMA HeadType == TypeOK => HeadOid \in Oids /\ HeadRef \in Refs
  BY DEF TypeOK, LocalTypeOK, HeadOid, HeadRef, Oids, Refs

\* The object the preview named is a commit or missing.
LEMMA PreviewedType == TypeInv => PreviewedOid \in Oids
  BY DEF TypeInv, TypeOK, TargetKept, PreviewedOid, PlanRecords, Targets, Oids

\* The history is a set of checks.
LEMMA ObserveType == TypeOK /\ Observe => since' \subseteq CheckNames
  BY DEF TypeOK, Observe

\* Records of the types of the payload and of the effect.
LEMMA PlanType ==
  /\ NoPlan \in PlanRecords
  /\ NoPlan.target = Nil /\ Nil \notin Targets
  /\ NoEffect \in EffectRecords
  BY SwitchAssumption DEF NoPlan, NoEffect, PlanRecords, EffectRecords, Oids, Refs

\* Reading HEAD leaves the target of the payload alone, or clears it.
LEMMA PlannerType ==
  ASSUME TypeInv, ReadClean \/ ReadBranch \/ ReadHeadOid \/ ReadHeadRef
  PROVE  plan' \in PlanRecords /\ plan'.target \in {plan.target, Nil}
<1> USE DEF TypeInv, TypeOK, LocalTypeOK, PlanRecords
<1>1. CASE ReadClean
  BY <1>1 DEF ReadClean
<1>b. CASE ReadBranch
  BY <1>b DEF ReadBranch, OnBornBranch, Oids, Refs
<1>2. CASE ReadHeadOid
  BY <1>2, HeadType DEF ReadHeadOid
<1>3. CASE ReadHeadRef
  BY <1>3, HeadType DEF ReadHeadRef
<1>4. QED
  BY <1>1, <1>b, <1>2, <1>3

\* What a command leaves, given what it has done to HEAD and the branches.
LEMMA DoneType ==
  ASSUME TypeInv, NEW old \in Oids, NEW new \in Oids, Done(old, new),
         request.op \in Operations,
         head' \in Branches \cup Commits, tip' \in [Branches -> Oids], clean' \in BOOLEAN
  PROVE  TypeInv'
<1>1. effect' \in EffectRecords
  BY PreviewedType DEF Done, EffectRecords, TypeInv, TypeOK
<1>2. plan' = NoPlan /\ request' = NoRequest /\ pc' = "idle"
  BY DEF Done
<1>3. /\ tracking' \in [RemoteNames -> Oids]
      /\ changes' \in 0..MaxChanges
      /\ since' \subseteq CheckNames
  BY ObserveType DEF Done, TypeInv, TypeOK
<1>4. TypeOK'
  BY <1>1, <1>2, <1>3, PlanType DEF TypeOK, LocalTypeOK
<1>5. TargetKept'
  BY <1>2, PlanType, NamesOfChecks DEF TargetKept, Planned, Executing
<1>6. QED
  BY <1>4, <1>5 DEF TypeInv

\* A request in progress is one of those made.
LEMMA RequestType ==
  ASSUME TypeInv, pc # "idle"
  PROVE  /\ request \in Asked
         /\ request.op \in Operations
         /\ request.op = "create" => request.name \in Branches
  BY SwitchAssumption DEF TypeInv, TypeOK

\* Switching to a branch, new or not, at an object.
LEMMA SwitchToType ==
  ASSUME TypeInv, pc # "idle",
         NEW branch \in Branches, NEW oid \in Oids, SwitchTo(branch, oid)
  PROVE  TypeInv'
<1>1. head' \in Branches /\ tip' \in [Branches -> Oids] /\ clean' \in BOOLEAN
      /\ tip[branch] \in Oids
  BY DEF SwitchTo, TypeInv, TypeOK, LocalTypeOK
<1>2. QED
  BY <1>1, DoneType, RequestType DEF SwitchTo

\* The commands of Git keep the types.
LEMMA CommandType ==
  ASSUME TypeInv, SwitchLocal \/ SwitchTracking \/ CreateBranch \/ Merge \/ Rebase
  PROVE  TypeInv'
<1> USE DEF TypeInv, TypeOK, LocalTypeOK
<1>0. pc = "run" /\ pc # "idle" /\ (request.op # "create" => plan.target \in Targets)
  BY DEF SwitchLocal, SwitchTracking, CreateBranch, Merge, Rebase, TargetKept,
         Planned, Executing
<1>1. CASE SwitchLocal
  <2> DEFINE name == plan.target.name
  <2>1. name \in Branches
    BY <1>0, <1>1 DEF SwitchLocal, TargetKept
  <2>2. \/ SwitchTo(name, tip[name])
        \/ \E n \in RemoteNames : SwitchTo(name, tracking[n])
    BY <1>1 DEF SwitchLocal
  <2>3. QED
    BY <1>0, <2>1, <2>2, SwitchToType
<1>2. CASE SwitchTracking
  <2>1. plan.target.name \in RemoteNames
    BY <1>0, <1>2 DEF SwitchTracking, TargetKept
  <2>2. PICK start \in Named(plan.target.name) :
          SwitchTo(LocalName[plan.target.name], start.oid)
    BY <1>2 DEF SwitchTracking
  <2>3. start.oid \in Oids /\ LocalName[plan.target.name] \in Branches
    BY <2>1, NamedType, SwitchAssumption DEF Targets, Oids
  <2>4. QED
    BY <1>0, <2>2, <2>3, SwitchToType
<1>3. CASE CreateBranch
  BY <1>0, <1>3, RequestType, PreviewedType, SwitchToType DEF CreateBranch
<1>4. CASE Merge
  <2>1. HeadOid \in Oids /\ PreviewedOid \in Oids /\ request.op \in Operations
    BY <1>0, HeadType, PreviewedType, RequestType
  <2>2. FastForward(PreviewedOid) /\ PreviewedOid \in Commits
    BY <1>4, <2>1 DEF Merge, FastForward, Oids
  <2>3. \/ UNCHANGED <<head, tip>> /\ Done(HeadOid, HeadOid)
        \/ MoveHead(PreviewedOid) /\ Done(HeadOid, PreviewedOid)
    BY <2>2 DEF FastForward
  <2>4. head' \in Branches \cup Commits /\ tip' \in [Branches -> Oids] /\ clean' \in BOOLEAN
    BY <2>2, <2>3 DEF FastForward, MoveHead, Oids
  <2>5. QED
    BY <2>1, <2>3, <2>4, DoneType
<1>5. CASE Rebase
  <2>1. HeadOid \in Oids /\ request.op \in Operations
    BY <1>0, HeadType, RequestType
  <2>2. PICK new \in Commits :
          /\ \/ MoveHead(new) /\ UNCHANGED clean
             \/ head' = new /\ clean' = FALSE /\ UNCHANGED tip
          /\ Done(HeadOid, new)
    BY <1>5 DEF Rebase
  <2>3. head' \in Branches \cup Commits /\ tip' \in [Branches -> Oids] /\ clean' \in BOOLEAN
    BY <2>2 DEF MoveHead, Oids
  <2>4. QED
    BY <2>1, <2>2, <2>3, DoneType DEF Oids
<1>6. QED
  BY <1>1, <1>2, <1>3, <1>4, <1>5

\* Every action keeps the types.
LEMMA TypeStep == TypeInv /\ [Next]_vars => TypeInv'
<1> SUFFICES ASSUME TypeInv, [Next]_vars PROVE TypeInv'
  OBVIOUS
<1> USE SwitchAssumption, NamesOfChecks
<1> USE DEF TypeInv, TypeOK, LocalTypeOK, Executing, Planned
<1>1. ASSUME NEW r \in Asked, Submit(r) PROVE TypeInv'
  <2>1. r # NoRequest
    BY DEF NoRequest
  <2>2. QED
    BY <1>1, <2>1, ObserveType, PlanType
       DEF Submit, Step, repository, TargetKept
<1>2. CASE ReadClean \/ ReadBranch \/ ReadHeadOid \/ ReadHeadRef
  BY <1>2, ObserveType, PlannerType, PlanType
     DEF ReadClean, ReadBranch, ReadHeadOid, ReadHeadRef, Step, repository, TargetKept
<1>t. CASE ReadTracking \/ PlanCreateBranch
  BY <1>t, ObserveType DEF ReadTracking, PlanCreateBranch, Step, repository, TargetKept
<1>3. CASE PlanCheckout \/ ReadBase \/ PlanMergeOrRebase
  <2>1. PICK target, next : /\ PlanWith(target, next)
                            /\ next \in {"planTracking", "confirm"}
                            /\ \/ target = Nil /\ request.op = "create"
                               \/ \E name : target \in Named(name)
    BY <1>3 DEF PlanCheckout, ReadBase, PlanMergeOrRebase, TargetKept
  <2>2. /\ target \in Targets \cup {Nil}
        /\ request.op # "create" => target \in Targets
        /\ target \in Targets =>
             /\ target.kind = "local" => target.name \in Branches
             /\ target.kind = "remote" => target.name \in RemoteNames
    BY <2>1, NamedType, SwitchAssumption
  <2>3. plan' \in PlanRecords /\ plan'.target = target
    BY <2>1, <2>2 DEF PlanWith, PlanRecords
  <2>4. TargetKept'
    BY <2>1, <2>2, <2>3 DEF PlanWith, Step, TargetKept
  <2>5. pc # "idle"
    BY <1>3 DEF PlanCheckout, ReadBase, PlanMergeOrRebase
  <2>6. QED
    BY <2>1, <2>3, <2>4, <2>5, ObserveType DEF PlanWith, Step, repository
<1>4. CASE Confirm
  BY <1>4, ObserveType DEF Confirm, Checks, Step, repository, TargetKept
<1>5. CASE Check
  BY <1>5, ObserveType, OrderOfChecks DEF Check, Step, repository, TargetKept
<1>6. CASE SwitchLocal \/ SwitchTracking \/ CreateBranch \/ Merge \/ Rebase
  BY <1>6, CommandType
<1>7. CASE Refuse
  BY <1>7, ObserveType, PlanType DEF Refuse, Step, repository, TargetKept
<1>8. CASE OtherClient \/ OtherFetch \/ EditWorktree
  <2>1. /\ UNCHANGED <<request, plan, pc, effect>>
        /\ since' \subseteq CheckNames
        /\ changes' \in 0..MaxChanges
    BY <1>8, ObserveType DEF OtherClient, OtherFetch, EditWorktree, Changing
  <2>2. head' \in Branches \cup Commits /\ tip' \in [Branches -> Oids]
    BY <1>8 DEF OtherClient, OtherFetch, EditWorktree, OtherLocalClient, SwitchHead, MoveBranch
  <2>3. tracking' \in [RemoteNames -> Oids] /\ clean' \in BOOLEAN
    BY <1>8 DEF OtherClient, OtherFetch, EditWorktree
  <2>4. QED
    BY <2>1, <2>2, <2>3 DEF TargetKept
<1>9. CASE UNCHANGED vars
  BY <1>9 DEF vars, repository, TargetKept
<1>10. QED
  BY <1>1, <1>2, <1>t, <1>3, <1>4, <1>5, <1>6, <1>7, <1>8, <1>9 DEF Next

\* The initial states have the types.
LEMMA InitType == Init => TypeInv
  BY PlanType, SwitchAssumption, NamesOfChecks
     DEF Init, TypeInv, TypeOK, TargetKept, LocalTypeOK, NoRequest, Planned, Executing

\* Reachable states have their types, and a payload is there only while its
\* request is, for any repository, any requests and any other clients.
THEOREM TypeCorrect == Spec => []TypeOK
<1>1. TypeInv => TypeOK
  BY DEF TypeInv
<1>2. QED
  BY <1>1, InitType, TypeStep, PTL DEF Spec

-----------------------------------------------------------------------------
(***************************************************************************)
(* The inductive invariant: at each check, those before it have been seen  *)
(* to hold since the confirmation.                                         *)
(***************************************************************************)
Before ==
  [clean |-> {}, oid |-> {"clean"}, ref |-> {"clean", "oid"},
   absent |-> {"clean", "oid", "ref"}, target |-> {"clean", "oid", "ref", "absent"},
   available |-> {"clean", "oid", "ref", "absent", "target"},
   ancestor |-> CheckNames \ {"ancestor"}, run |-> CheckNames]

Seen == pc \in Executing => Before[pc] \subseteq since

SwitchInv == TypeInv /\ Seen /\ ActsOnConfirmedState /\ EndsAtPreviewedCommit

\* What has been seen stays seen, and what holds is seen, until the command.
LEMMA ObserveKeeps ==
  ASSUME Observe, pc \in Executing
  PROVE  since \subseteq since' /\ \A f \in CheckNames : HoldsNow[f] => f \in since'
  BY DEF Observe

\* A step that does not run the command keeps what the last one left.
LEMMA EffectStutter ==
  ASSUME ActsOnConfirmedState, EndsAtPreviewedCommit, effect' \in {effect, NoEffect}
  PROVE  ActsOnConfirmedState' /\ EndsAtPreviewedCommit'
<1>1. CASE effect' = effect
  BY <1>1 DEF ActsOnConfirmedState, EndsAtPreviewedCommit
<1>2. CASE effect' = NoEffect
  BY <1>2, SwitchAssumption
     DEF NoEffect, Operations, ActsOnConfirmedState, EndsAtPreviewedCommit
<1>3. QED
  BY <1>1, <1>2

\* A command that is run has all its checks behind it, and ends where the
\* preview said.
LEMMA CommandSafe ==
  ASSUME SwitchInv, SwitchLocal \/ SwitchTracking \/ CreateBranch \/ Merge \/ Rebase
  PROVE  ActsOnConfirmedState' /\ EndsAtPreviewedCommit'
<1>1. pc = "run" /\ CheckNames \subseteq since
  <2>1. pc = "run"
    BY DEF SwitchLocal, SwitchTracking, CreateBranch, Merge, Rebase
  <2>2. QED
    BY <2>1 DEF SwitchInv, Seen, Before, Executing
<1>2. PICK old, new :
        /\ Done(old, new)
        /\ request.op = "create" => new = PreviewedOid
        /\ request.op = "merge" =>
             \/ new = old
             \/ new = PreviewedOid /\ (old = Nil \/ IsAncestor(old, new))
        /\ request.op = "rebase" => IsAncestor(PreviewedOid, new)
  <2>1. CASE SwitchLocal
    <3>1. request.op = "checkout" /\ \E old, new : Done(old, new)
      BY <2>1 DEF SwitchLocal, SwitchTo
    <3>2. QED
      BY <3>1
  <2>2. CASE SwitchTracking
    BY <2>2 DEF SwitchTracking, SwitchTo
  <2>3. CASE CreateBranch
    BY <2>3 DEF CreateBranch, SwitchTo
  <2>4. CASE Merge
    BY <2>4 DEF Merge, FastForward
  <2>5. CASE Rebase
    BY <2>5 DEF Rebase
  <2>6. QED
    BY <2>1, <2>2, <2>3, <2>4, <2>5
<1>3. effect' = [op |-> request.op, old |-> old, new |-> new, base |-> PreviewedOid,
                 since |-> since]
  BY <1>2 DEF Done
<1>4. ActsOnConfirmedState'
  BY <1>1, <1>3 DEF ActsOnConfirmedState
<1>5. EndsAtPreviewedCommit'
  BY <1>2, <1>3 DEF EndsAtPreviewedCommit, IsAncestor
<1>6. QED
  BY <1>4, <1>5

\* Every step keeps the invariant.
LEMMA SwitchStep == SwitchInv /\ [Next]_vars => SwitchInv'
<1> SUFFICES ASSUME SwitchInv, [Next]_vars PROVE SwitchInv'
  OBVIOUS
<1> USE NamesOfChecks DEF Executing
<1>t. TypeInv /\ TypeInv'
  BY TypeStep DEF SwitchInv
<1>1. CASE \/ \E r \in Asked : Submit(r)
           \/ ReadClean \/ ReadBranch \/ ReadHeadOid \/ ReadHeadRef
           \/ PlanCheckout \/ ReadTracking \/ PlanCreateBranch \/ ReadBase
           \/ PlanMergeOrRebase
           \/ Refuse
  <2>1. pc' \notin Executing /\ effect' \in {effect, NoEffect}
    BY <1>1 DEF Submit, ReadClean, ReadBranch, ReadHeadOid, ReadHeadRef, PlanCheckout,
                ReadTracking, PlanCreateBranch, ReadBase, PlanMergeOrRebase, PlanWith, Refuse,
                Step
  <2>2. QED
    BY <1>t, <2>1, EffectStutter DEF SwitchInv, Seen
<1>2. CASE Confirm
  <2>1. pc' = "clean" /\ effect' = effect
    BY <1>2 DEF Confirm, Step, Checks
  <2>2. QED
    BY <1>t, <2>1, EffectStutter DEF SwitchInv, Seen, Before
<1>3. CASE Check
  <2>1. /\ pc \in CheckNames /\ Before[pc] \subseteq since
        /\ HoldsNow[pc] /\ Observe /\ effect' = effect
    BY <1>3 DEF Check, Step, SwitchInv, Seen
  <2>2. Before[pc] \cup {pc} \subseteq since'
    BY <2>1, ObserveKeeps
  <2>3. pc' \in Executing /\ Before[pc'] = Before[pc] \cup {pc}
    BY <1>3, OrderOfChecks DEF Before
  <2>4. Seen'
    BY <2>2, <2>3 DEF Seen
  <2>5. QED
    BY <1>t, <2>1, <2>4, EffectStutter DEF SwitchInv
<1>4. CASE SwitchLocal \/ SwitchTracking \/ CreateBranch \/ Merge \/ Rebase
  <2>1. pc' = "idle"
    BY <1>4 DEF SwitchLocal, SwitchTracking, SwitchTo, CreateBranch, Merge, FastForward,
                Rebase, Done
  <2>2. QED
    BY <1>4, <1>t, <2>1, CommandSafe DEF SwitchInv, Seen
<1>5. CASE OtherClient \/ OtherFetch \/ EditWorktree
  <2>1. UNCHANGED <<pc, effect>> /\ Observe
    BY <1>5 DEF OtherClient, OtherFetch, EditWorktree, Changing
  <2>2. Seen'
    BY <2>1, ObserveKeeps DEF SwitchInv, Seen
  <2>3. QED
    BY <1>t, <2>1, <2>2, EffectStutter DEF SwitchInv
<1>6. CASE UNCHANGED vars
  <2>1. UNCHANGED <<pc, since, effect>>
    BY <1>6 DEF vars
  <2>2. QED
    BY <1>t, <2>1, EffectStutter DEF SwitchInv, Seen
<1>7. QED
  BY <1>1, <1>2, <1>3, <1>4, <1>5, <1>6 DEF Next

\* The invariant holds throughout.
LEMMA SwitchInvariant == Spec => []SwitchInv
<1>1. Init => SwitchInv
  BY InitType, NamesOfChecks, SwitchAssumption
     DEF Init, SwitchInv, Seen, Executing, NoEffect, Operations, ActsOnConfirmedState,
         EndsAtPreviewedCommit
<1>2. QED
  BY <1>1, SwitchStep, PTL DEF Spec

-----------------------------------------------------------------------------
(***************************************************************************)
(* The theorems, for every repository and whatever others do.              *)
(***************************************************************************)
\* None of the four commands is run from a preview that was stale all along
\* (the ensure_ checks of run_checkout_step and the other three).
THEOREM SwitchesConfirmedState == Spec => []ActsOnConfirmedState
<1>1. SwitchInv => ActsOnConfirmedState
  BY DEF SwitchInv
<1>2. QED
  BY <1>1, SwitchInvariant, PTL

\* A branch is created at, HEAD merged to, and a rebase put on top of the
\* object of the preview, however the name has moved (create_branch,
\* merge_ff_only, rebase_onto take the object).
THEOREM PreviewedCommitIsUsed == Spec => []EndsAtPreviewedCommit
<1>1. SwitchInv => EndsAtPreviewedCommit
  BY DEF SwitchInv
<1>2. QED
  BY <1>1, SwitchInvariant, PTL

\* A step of the session moves a branch that exists only when that is the
\* current one and is being merged into or rebased.
LEMMA MovesOnlyItsBranch ==
  ASSUME TypeInv, [Next]_vars, changes' = changes,
         NEW b \in Branches, tip'[b] # tip[b], tip[b] # Nil
  PROVE  b = head /\ request.op \in {"merge", "rebase"}
<1> USE DEF TypeInv, TypeOK, LocalTypeOK
<1>1. ASSUME NEW branch, NEW oid, SwitchTo(branch, oid), tip[branch] \in {Nil, oid}
      PROVE  FALSE
  BY <1>1 DEF SwitchTo
<1>2. CASE SwitchLocal
  BY <1>1, <1>2 DEF SwitchLocal
<1>3. CASE SwitchTracking
  BY <1>1, <1>3 DEF SwitchTracking
<1>4. CASE CreateBranch
  BY <1>1, <1>4 DEF CreateBranch
<1>5. CASE Merge
  <2>1. FastForward(PreviewedOid) /\ request.op = "merge"
    BY <1>5 DEF Merge
  <2>2. tip' = tip \/ MoveHead(PreviewedOid)
    BY <2>1 DEF FastForward
  <2>3. QED
    BY <2>1, <2>2 DEF MoveHead
<1>6. CASE Rebase
  BY <1>6 DEF Rebase, MoveHead
<1>7. CASE OtherClient \/ OtherFetch \/ EditWorktree
  BY <1>7, SwitchAssumption DEF OtherClient, OtherFetch, EditWorktree, Changing
<1>8. CASE UNCHANGED tip
  BY <1>8
<1>9. CASE \/ \E r \in Asked : Submit(r)
           \/ ReadClean \/ ReadBranch \/ ReadHeadOid \/ ReadHeadRef
           \/ PlanCheckout \/ ReadTracking \/ PlanCreateBranch \/ ReadBase
           \/ PlanMergeOrRebase
           \/ Confirm \/ Check \/ Refuse
  BY <1>8, <1>9 DEF Submit, ReadClean, ReadBranch, ReadHeadOid, ReadHeadRef, PlanCheckout,
     ReadTracking, PlanCreateBranch, ReadBase, PlanMergeOrRebase, PlanWith, Confirm, Check, Refuse, Step, repository
<1>10. QED
  BY <1>2, <1>3, <1>4, <1>5, <1>6, <1>7, <1>8, <1>9 DEF Next, vars, repository

\* No checkout and no new branch takes a commit from a branch that exists,
\* not even from one created after the last check.
THEOREM OtherBranchesAreKept == Spec => LeavesOtherBranchesAlone
<1>1. TypeInv /\ [Next]_vars =>
        [\A b \in Branches :
           tip'[b] # tip[b] /\ tip[b] # Nil /\ changes' = changes =>
             b = head /\ request.op \in {"merge", "rebase"}]_vars
  BY MovesOnlyItsBranch
<1>2. QED
  BY <1>1, InitType, TypeStep, PTL DEF Spec, LeavesOtherBranchesAlone

=============================================================================
