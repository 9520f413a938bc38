------------------------- MODULE RemotePull_proofs --------------------------
(***************************************************************************)
(* What RemotePull guarantees for all histories and upstreams, whatever    *)
(* others fetch, push, commit and switch meanwhile.                        *)
(***************************************************************************)
EXTENDS RemotePull, TLAPS

PlanRecords == [rebase : BOOLEAN, branch : Refs, upstream : Upstreams \cup {Nil},
                oid : Oids, ref : Refs, tracking : Oids, fetched : Oids]
Publications == [old : Oids, expected : Oids]
Integrations == [rebase : BOOLEAN, old : Oids, new : Oids, fetched : Oids, since : Histories]
EffectRecords == [published : SUBSET Publications, integrated : SUBSET Integrations]

\* The history is a record of Booleans.
LEMMA ObserveType == Observe => since' \in Histories
  BY DEF Observe, Histories, Nothing

\* What has been seen stays seen until the plan is done with.
LEMMA ObserveKeeps ==
  ASSUME Observe, pc' \in Integrating
  PROVE  /\ since.oid \/ HeadOid' = plan'.oid => since'.oid
         /\ since.ref \/ HeadRef' = plan'.ref => since'.ref
         /\ since.tracking \/ tracking'[plan'.upstream] = plan'.fetched => since'.tracking
<1>1. since' = [oid      |-> since.oid \/ HeadOid' = plan'.oid,
                ref      |-> since.ref \/ HeadRef' = plan'.ref,
                tracking |-> since.tracking \/ tracking'[plan'.upstream] = plan'.fetched]
  BY DEF Observe
<1>2. QED
  BY <1>1, Zenon

-----------------------------------------------------------------------------
(***************************************************************************)
(* Types.                                                                  *)
(***************************************************************************)
Targeted == pc # "idle" => plan.upstream \in Upstreams

TypeInv == TypeOK /\ Targeted

\* What HEAD resolves to is an object and a branch.
LEMMA HeadType ==
  ASSUME LocalTypeOK
  PROVE  HeadOid \in Oids /\ HeadRef \in Refs /\ (head \notin Branches => HeadOid \in Commits)
  BY DEF LocalTypeOK, HeadOid, HeadRef, Oids, Refs

\* Only commits have ancestors.
LEMMA AncestorsAreCommits ==
  ASSUME NEW a, NEW b, IsAncestor(a, b)
  PROVE  a \in Commits /\ b \in Commits
  BY GraphAssumption DEF IsAncestor

\* The initial states are typed.
LEMMA InitType == Init => TypeInv
<1> SUFFICES ASSUME Init PROVE TypeInv
  OBVIOUS
<1> USE DEF Oids, Refs
<1>1. plan \in PlanRecords /\ plan.branch = Nil
  BY DEF Init, NoPlan, PlanRecords
<1>2. since \in Histories /\ effect \in EffectRecords /\ pc = "idle"
  BY DEF Init, Nothing, Histories, NoEffect, EffectRecords
<1>3. /\ head \in Branches \cup Commits /\ tip \in [Branches -> Oids]
      /\ remote \in [Upstreams -> Oids] /\ tracking \in [Upstreams -> Oids]
      /\ upstream \in [Branches -> Upstreams \cup {Nil}] /\ clean \in BOOLEAN
  BY DEF Init
<1>4. QED
  BY <1>1, <1>2, <1>3 DEF TypeInv, TypeOK, LocalTypeOK, Targeted, PlanRecords, EffectRecords,
                          Publications, Integrations

\* Moving HEAD to a commit keeps the local types; the effect is of its type.
LEMMA MoveType ==
  ASSUME TypeOK, NEW oid \in Oids, head \notin Branches => oid \in Commits,
         MoveHeadTo(oid), Integrated(oid)
  PROVE  LocalTypeOK' /\ effect' \in EffectRecords
<1>1. LocalTypeOK'
  BY DEF TypeOK, LocalTypeOK, MoveHeadTo
<1>2. [rebase |-> plan.rebase, old |-> HeadOid, new |-> oid, fetched |-> plan.fetched,
       since |-> since] \in Integrations
  BY HeadType DEF TypeOK, Integrations
<1>3. effect' \in EffectRecords
  BY <1>2 DEF TypeOK, Integrated, EffectRecords, Publications, Integrations
<1>4. QED
  BY <1>1, <1>3

\* A plan that is done with is of its type.
LEMMA FinishType == ASSUME Finish PROVE plan' \in PlanRecords /\ plan'.branch = Nil
  BY DEF Finish, NoPlan, PlanRecords, Oids, Refs

\* A fast-forward moves HEAD to a commit if it is detached.
LEMMA FastForwardMoves ==
  ASSUME TypeOK, MergeFastForward
  PROVE  plan.fetched \in Oids /\ (head \notin Branches => plan.fetched \in Commits)
<1>1. head \notin Branches => HeadOid # Nil
  BY HeadType, GraphAssumption DEF TypeOK
<1>2. QED
  BY <1>1, AncestorsAreCommits DEF MergeFastForward, TypeOK

\* Every step keeps the types.
LEMMA TypeStep == TypeInv /\ [Next]_vars => TypeInv'
<1> SUFFICES ASSUME TypeInv, [Next]_vars PROVE TypeInv'
  OBVIOUS
<1> USE GraphAssumption, PullAssumption
<1> USE DEF TypeInv, Targeted, Planning, Validating, Integrating
<1>p. plan \in PlanRecords /\ effect \in EffectRecords
  BY DEF TypeOK, PlanRecords, EffectRecords, Publications, Integrations
<1>s. ASSUME NEW p \in PlanRecords, plan' = p, LocalTypeOK', since' \in Histories,
             upstream' \in [Branches -> Upstreams \cup {Nil}], clean' \in BOOLEAN,
             remote' \in [Upstreams -> Oids], tracking' \in [Upstreams -> Oids],
             pc' \in {"idle", "confirm"} \cup Planning \cup Validating \cup Integrating,
             effect' \in EffectRecords, pc' = "idle" <=> p.branch = Nil,
             pc' # "idle" => p.upstream \in Upstreams
      PROVE  TypeInv'
  BY <1>s DEF TypeOK, PlanRecords, EffectRecords, Publications, Integrations
<1>1. CASE ReadStatus
  <2>1. /\ plan' \in PlanRecords /\ plan'.branch # Nil /\ plan'.upstream \in Upstreams
        /\ effect' \in EffectRecords
    BY <1>1 DEF ReadStatus, OnBornBranch, NoPlan, NoEffect, TypeOK, PlanRecords, EffectRecords,
                Oids, Refs
  <2>2. QED
    BY <1>1, <1>s, <2>1, ObserveType DEF ReadStatus, Goto, TypeOK, LocalTypeOK
<1>2. CASE ReadHeadOid \/ ReadHeadRef \/ ReadTracking \/ Fetch
  <2>1. /\ plan' \in PlanRecords /\ plan'.branch = plan.branch /\ plan'.upstream = plan.upstream
        /\ pc' \in Planning /\ pc # "idle"
    BY <1>2, <1>p, HeadType DEF ReadHeadOid, ReadHeadRef, ReadTracking, Fetch, Goto, TypeOK,
                          PlanRecords
  <2>2. QED
    BY <1>2, <1>p, <1>s, <2>1, ObserveType
       DEF ReadHeadOid, ReadHeadRef, ReadTracking, Fetch, Goto, TypeOK, LocalTypeOK
<1>3. CASE \/ RecheckStatus \/ Confirm \/ CheckHeadOid \/ CheckHeadRef \/ CheckStatus
           \/ CheckTracking \/ CheckHeadOidAgain \/ CheckHeadRefAgain
  BY <1>3, ObserveType
     DEF RecheckStatus, Confirm, CheckHeadOid, CheckHeadRef, CheckStatus, CheckTracking,
         CheckHeadOidAgain, CheckHeadRefAgain, Goto, TypeOK, LocalTypeOK
<1>4. CASE Publish
  <2>1. tracking' \in [Upstreams -> Oids] /\ effect' \in EffectRecords
    <3>1. plan.fetched \in Oids /\ plan.tracking \in Oids /\ plan.upstream \in Upstreams
      BY <1>4, <1>p DEF Publish, PlanRecords
    <3>2. tracking' \in [Upstreams -> Oids] /\ tracking[plan.upstream] \in Oids
      BY <1>4, <3>1 DEF Publish, TypeOK
    <3>3. [old |-> tracking[plan.upstream], expected |-> plan.tracking] \in Publications
      BY <3>1, <3>2 DEF Publications
    <3>4. QED
      BY <1>4, <1>p, <3>2, <3>3 DEF Publish, EffectRecords
  <2>2. QED
    BY <1>4, <1>p, <1>s, <2>1, ObserveType DEF Publish, TypeOK, LocalTypeOK
<1>5. CASE MergeFastForward
  <2>1. LocalTypeOK' /\ effect' \in EffectRecords
    BY <1>5, MoveType, FastForwardMoves DEF MergeFastForward
  <2>2. QED
    BY <1>5, <1>s, <2>1, FinishType, ObserveType DEF MergeFastForward, Finish, TypeOK
<1>6. CASE Rebase
  <2>1. PICK oid \in Commits : MoveHeadTo(oid) /\ Integrated(oid)
    BY <1>6 DEF Rebase
  <2>2. LocalTypeOK' /\ effect' \in EffectRecords
    BY <2>1, MoveType DEF Oids
  <2>3. QED
    BY <1>6, <1>s, <2>2, FinishType, ObserveType DEF Rebase, Finish, TypeOK
<1>7. CASE RebaseStops
  <2>1. LocalTypeOK'
    BY <1>7 DEF RebaseStops, TypeOK, LocalTypeOK
  <2>2. QED
    BY <1>7, <1>p, <1>s, <2>1, FinishType, ObserveType DEF RebaseStops, Finish, TypeOK
<1>8. CASE Refuse
  <2>1. plan' \in PlanRecords /\ plan'.branch = Nil
    BY <1>8 DEF Refuse, NoPlan, PlanRecords, Oids, Refs
  <2>2. QED
    BY <1>8, <1>p, <1>s, <2>1, ObserveType DEF Refuse, Goto, TypeOK, LocalTypeOK
<1>9. CASE OtherClient
  <2>1. head' \in Branches \cup Commits /\ tip' \in [Branches -> Oids]
    <3>1. CASE SwitchHead
      BY <3>1 DEF SwitchHead, TypeOK, LocalTypeOK
    <3>2. CASE MoveBranch
      <4>1. PICK b \in Branches, oid \in Oids : tip' = [tip EXCEPT ![b] = oid]
        BY <3>2 DEF MoveBranch
      <4>2. QED
        BY <3>2, <4>1 DEF MoveBranch, TypeOK, LocalTypeOK
    <3>3. QED
      BY <1>9, <3>1, <3>2 DEF OtherClient, OtherLocalClient
  <2>2. QED
    BY <1>9, <1>p, <1>s, <2>1, ObserveType DEF OtherClient, TypeOK, LocalTypeOK
<1>10. CASE EditWorktree \/ ChangeUpstream \/ OtherFetch \/ OtherPush
  <2>1. /\ upstream' \in [Branches -> Upstreams \cup {Nil}] /\ clean' \in BOOLEAN
        /\ remote' \in [Upstreams -> Oids] /\ tracking' \in [Upstreams -> Oids]
    <3>1. CASE EditWorktree
      BY <3>1 DEF EditWorktree, TypeOK
    <3>2. CASE ChangeUpstream
      <4>1. PICK b \in Branches, u \in Upstreams \cup {Nil} :
              upstream' = [upstream EXCEPT ![b] = u]
        BY <3>2 DEF ChangeUpstream
      <4>2. QED
        BY <3>2, <4>1 DEF ChangeUpstream, TypeOK
    <3>3. CASE OtherFetch
      <4>1. PICK u \in Upstreams : tracking' = [tracking EXCEPT ![u] = remote[u]]
        BY <3>3 DEF OtherFetch
      <4>2. QED
        BY <3>3, <4>1 DEF OtherFetch, TypeOK
    <3>4. CASE OtherPush
      <4>1. PICK u \in Upstreams, oid \in Oids : remote' = [remote EXCEPT ![u] = oid]
        BY <3>4 DEF OtherPush
      <4>2. QED
        BY <3>4, <4>1 DEF OtherPush, TypeOK
    <3>5. QED
      BY <1>10, <3>1, <3>2, <3>3, <3>4
  <2>2. QED
    BY <1>10, <1>p, <1>s, <2>1, ObserveType
       DEF EditWorktree, ChangeUpstream, OtherFetch, OtherPush, TypeOK, LocalTypeOK
<1>11. CASE UNCHANGED vars
  BY <1>11 DEF vars, TypeOK, LocalTypeOK
<1>12. QED
  BY <1>1, <1>2, <1>3, <1>4, <1>5, <1>6, <1>7, <1>8, <1>9, <1>10, <1>11 DEF Next

\* Reachable states have their types.
THEOREM TypeCorrect == Spec => []TypeOK
<1>1. TypeInv => TypeOK
  BY DEF TypeInv
<1>2. QED
  BY <1>1, InitType, TypeStep, PTL DEF Spec

-----------------------------------------------------------------------------
(***************************************************************************)
(* The inductive invariant: at each place of the execution, what has been  *)
(* seen since the publication, and what the effects so far are.            *)
(***************************************************************************)
Seen ==
  /\ pc \in Integrating => since.tracking
  /\ pc \in {"check ref again", "integrate"} => since.oid
  /\ pc = "integrate" => since.ref

Safe == KeepsOtherFetches /\ IntegratesFetched /\ IntegratesConfirmedState

PullInv == TypeInv /\ Seen /\ Safe

\* A step that neither publishes nor integrates breaks nothing.
LEMMA SafeStutter == Safe /\ (effect' = effect \/ effect' = NoEffect) => Safe'
<1> SUFFICES ASSUME Safe, effect' = effect \/ effect' = NoEffect PROVE Safe'
  OBVIOUS
<1>1. effect'.published \subseteq effect.published /\ effect'.integrated \subseteq effect.integrated
  BY DEF NoEffect
<1>2. QED
  BY <1>1 DEF Safe, KeepsOtherFetches, IntegratesFetched, IntegratesConfirmedState, IsAncestor

\* An integration of an object that contains what was fetched is a safe one.
LEMMA SafeIntegration ==
  ASSUME PullInv, pc = "integrate", NEW oid \in Oids, Integrated(oid),
         IF plan.rebase THEN IsAncestor(plan.fetched, oid)
         ELSE oid = plan.fetched /\ (HeadOid = Nil \/ IsAncestor(HeadOid, oid))
  PROVE  Safe'
<1> DEFINE made == [rebase |-> plan.rebase, old |-> HeadOid, new |-> oid,
                    fetched |-> plan.fetched, since |-> since]
<1>1. effect'.published = effect.published /\ effect'.integrated = {made}
  BY DEF PullInv, TypeInv, TypeOK, Integrated
<1>2. since = [oid |-> TRUE, ref |-> TRUE, tracking |-> TRUE]
  <2>1. since.oid = TRUE /\ since.ref = TRUE /\ since.tracking = TRUE
    BY DEF PullInv, Seen, Integrating, TypeInv, TypeOK, Histories
  <2>2. since \in Histories
    BY DEF PullInv, TypeInv, TypeOK
  <2>3. QED
    BY <2>1, <2>2 DEF Histories
<1>3. IntegratesFetched'
  BY <1>1 DEF IntegratesFetched, IsAncestor
<1>4. QED
  BY <1>1, <1>2, <1>3 DEF PullInv, Safe, KeepsOtherFetches, IntegratesConfirmedState

\* Every step keeps the invariant.
LEMMA PullStep == PullInv /\ [Next]_vars => PullInv'
<1> SUFFICES ASSUME PullInv, [Next]_vars PROVE PullInv'
  OBVIOUS
<1>t. TypeInv /\ TypeInv' /\ Safe
  BY TypeStep DEF PullInv
<1> USE DEF Integrating
<1>1. CASE \/ ReadStatus \/ ReadHeadOid \/ ReadHeadRef \/ ReadTracking \/ Fetch
           \/ RecheckStatus \/ Confirm \/ CheckHeadOid \/ CheckHeadRef \/ CheckStatus
           \/ RebaseStops \/ Refuse
  <2>1. pc' \notin Integrating /\ (effect' = effect \/ effect' = NoEffect)
    BY <1>1 DEF ReadStatus, ReadHeadOid, ReadHeadRef, ReadTracking, Fetch, RecheckStatus, Confirm,
                CheckHeadOid, CheckHeadRef, CheckStatus, RebaseStops, Refuse, Goto, Finish
  <2>2. QED
    BY <1>t, <2>1, SafeStutter DEF PullInv, Seen
<1>2. CASE Publish
  <2>1. plan.upstream \in Upstreams
    BY <1>2, <1>t DEF Publish, TypeInv, Targeted
  <2>2. tracking'[plan'.upstream] = plan'.fetched
    BY <1>2, <1>t, <2>1 DEF Publish, TypeInv, TypeOK
  <2>3. since'.tracking
    BY <1>2, <2>2, ObserveKeeps DEF Publish
  <2>4. /\ effect'.published = {[old |-> tracking[plan.upstream], expected |-> plan.tracking]}
        /\ effect'.integrated = effect.integrated
    BY <1>2, <1>t DEF Publish, TypeInv, TypeOK
  <2>5. Safe'
    <3>1. tracking[plan.upstream] = plan.tracking
      BY <1>2 DEF Publish, Swaps
    <3>2. KeepsOtherFetches'
      BY <2>4, <3>1 DEF KeepsOtherFetches
    <3>3. IntegratesFetched'
      BY <1>t, <2>4 DEF Safe, IntegratesFetched, IsAncestor
    <3>4. IntegratesConfirmedState'
      BY <1>t, <2>4 DEF Safe, IntegratesConfirmedState
    <3>5. QED
      BY <3>2, <3>3, <3>4 DEF Safe
  <2>6. QED
    BY <1>2, <1>t, <2>3, <2>5 DEF PullInv, Seen, Publish
<1>3. CASE CheckTracking \/ CheckHeadOidAgain \/ CheckHeadRefAgain
  <2> USE DEF CheckTracking, CheckHeadOidAgain, CheckHeadRefAgain, Goto
  <2>1. /\ UNCHANGED <<head, tip, plan, effect>> /\ Observe
        /\ pc \in Integrating /\ pc' \in Integrating
    BY <1>3
  <2>2. /\ since'.tracking
        /\ since.oid \/ HeadOid = plan.oid => since'.oid
        /\ since.ref \/ HeadRef = plan.ref => since'.ref
    BY <2>1, ObserveKeeps DEF PullInv, Seen, HeadOid, HeadRef
  <2>3. Seen'
    BY <1>3, <2>2 DEF PullInv, Seen
  <2>4. QED
    BY <1>t, <2>1, <2>3, SafeStutter DEF PullInv
<1>4. CASE MergeFastForward
  <2>1. Safe'
    BY <1>4, <1>t, FastForwardMoves, SafeIntegration DEF MergeFastForward, TypeInv
  <2>2. QED
    BY <1>4, <1>t, <2>1 DEF PullInv, Seen, MergeFastForward, Finish
<1>5. CASE Rebase
  <2>1. PICK oid \in Commits :
          /\ IF IsAncestor(plan.fetched, HeadOid) THEN oid = HeadOid
             ELSE IF IsAncestor(HeadOid, plan.fetched) THEN oid = plan.fetched
             ELSE IsAncestor(plan.fetched, oid)
          /\ Integrated(oid)
    BY <1>5 DEF Rebase
  <2>2. IsAncestor(plan.fetched, oid)
    <3>1. oid = plan.fetched => IsAncestor(plan.fetched, oid)
      BY GraphAssumption DEF IsAncestor
    <3>2. QED
      BY <2>1, <3>1
  <2>3. Safe'
    <3>1. oid \in Oids /\ plan.rebase /\ pc = "integrate"
      BY <1>5 DEF Rebase, Oids
    <3>2. QED
      BY <2>1, <2>2, <3>1, SafeIntegration
  <2>4. QED
    BY <1>5, <1>t, <2>3 DEF PullInv, Seen, Rebase, Finish
<1>6. CASE OtherClient \/ EditWorktree \/ ChangeUpstream \/ OtherFetch \/ OtherPush
  <2>1. pc' = pc /\ effect' = effect /\ Observe
    BY <1>6 DEF OtherClient, EditWorktree, ChangeUpstream, OtherFetch, OtherPush
  <2>2. QED
    BY <1>t, <2>1, ObserveKeeps, SafeStutter DEF PullInv, Seen
<1>7. CASE UNCHANGED vars
  BY <1>t, <1>7, SafeStutter DEF vars, PullInv, Seen
<1>8. QED
  BY <1>1, <1>2, <1>3, <1>4, <1>5, <1>6, <1>7 DEF Next

\* The invariant holds in every reachable state.
LEMMA PullAlways == Spec => []PullInv
<1>1. Init => PullInv
  <2>1. ASSUME Init PROVE Seen /\ Safe
    BY <2>1 DEF Init, NoEffect, Seen, Integrating, Safe, KeepsOtherFetches, IntegratesFetched,
                IntegratesConfirmedState
  <2>2. QED
    BY <2>1, InitType DEF PullInv
<1>2. QED
  BY <1>1, PullStep, PTL DEF Spec

\* A pull never replaces a tracking ref its preview did not see.
THEOREM OtherFetchesAreKept == Spec => []KeepsOtherFetches
<1>1. PullInv => KeepsOtherFetches
  BY DEF PullInv, Safe
<1>2. QED
  BY <1>1, PullAlways, PTL

\* A fast-forward pull ends at the fetched object and loses no commit; a
\* rebasing one ends at an object that contains it.
THEOREM FetchedIsIntegrated == Spec => []IntegratesFetched
<1>1. PullInv => IntegratesFetched
  BY DEF PullInv, Safe
<1>2. QED
  BY <1>1, PullAlways, PTL

\* The previewed HEAD and the published tracking ref have been seen between the
\* publication and the integration.
THEOREM IntegratedStateWasSeen == Spec => []IntegratesConfirmedState
<1>1. PullInv => IntegratesConfirmedState
  BY DEF PullInv, Safe
<1>2. QED
  BY <1>1, PullAlways, PTL

\* run_pull_fast_forward_step and run_pull_rebase_step: a pull does what its preview announced, or nothing.
THEOREM PullsAreAsPreviewed == Spec => []PullsAsPreviewed
<1>1. PullInv => PullsAsPreviewed
  BY DEF PullInv, Safe, PullsAsPreviewed
<1>2. QED
  BY <1>1, PullAlways, PTL

=============================================================================
