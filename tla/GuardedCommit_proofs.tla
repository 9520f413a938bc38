------------------------- MODULE GuardedCommit_proofs -------------------------
(***************************************************************************)
(* What GuardedCommit guarantees for all branches, commits and trees.      *)
(***************************************************************************)
EXTENDS GuardedCommit, TLAPS

(***************************************************************************)
(* Type correctness.  The history is typed by its own definition, so that  *)
(* each action only has to type the variables it gives.                    *)
(***************************************************************************)
\* The history is a record of Booleans.
LEMMA ObserveType == Observe => since' \in Histories
  BY DEF Observe, Histories, Nothing

\* Every action keeps the types of all variables.
LEMMA TypeStep == TypeOK /\ [Next]_vars => TypeOK'
<1> SUFFICES ASSUME TypeOK, [Next]_vars PROVE TypeOK'
  OBVIOUS
<1> USE GraphAssumption, CommitAssumption
<1> USE DEF TypeOK, LocalTypeOK, Oids, Refs, Planning, Executing, Plans
<1>1. CASE ReadStatus
  <2>1. plan' \in Plans
    BY <1>1 DEF ReadStatus, NoPlan, StagedItems, TreeAt, HeadOid
  <2>2. QED
    BY <1>1, <2>1, ObserveType DEF ReadStatus, Goto
<1>2. CASE WriteTree
  BY <1>2, ObserveType DEF WriteTree, Goto
<1>3. CASE ReadHeadOid
  BY <1>3, ObserveType DEF ReadHeadOid, Goto, HeadOid
<1>4. CASE ReadHeadRef
  BY <1>4, ObserveType DEF ReadHeadRef, Goto, HeadRef
<1>5. CASE Confirm \/ CheckItems \/ CheckTree \/ CheckHeadOid \/ CheckHeadRef
             \/ CheckHeadOidAgain \/ CheckHeadRefAgain \/ CheckGates
  BY <1>5, ObserveType
     DEF Confirm, CheckItems, CheckTree, CheckHeadOid, CheckHeadRef, CheckHeadOidAgain,
         CheckHeadRefAgain, CheckGates, Check, Goto
<1>6. CASE CommitTree
  BY <1>6, ObserveType DEF CommitTree, Goto
<1>7. CASE UpdateRef
  <2>1. UpdatedRef \in Refs
    BY DEF UpdatedRef, HeadRef
  <2>2. made \in Commits /\ plan \in Plans /\ since \in Histories
    BY <1>7 DEF UpdateRef
  <2>3. head' \in Branches \cup Commits /\ tip' \in [Branches -> Oids]
    BY <1>7, <2>1, <2>2 DEF UpdateRef
  <2>4. (IF UpdatedRef # Nil THEN tip[UpdatedRef] ELSE head) \in Oids
    BY <1>7, <2>1 DEF UpdateRef, UpdatedRef, HeadRef
  <2>5. effect' \in SUBSET [commit : Commits, plan : Plans, ref : Refs, since : Histories,
                            old : Oids]
    <3> DEFINE e == [commit |-> made, plan |-> plan, ref |-> UpdatedRef, since |-> since,
                     old |-> IF UpdatedRef # Nil THEN tip[UpdatedRef] ELSE head]
    <3>1. e \in [commit : Commits, plan : Plans, ref : Refs, since : Histories, old : Oids]
      BY <2>1, <2>2, <2>4
    <3>2. effect' = {e}
      BY <1>7 DEF UpdateRef
    <3>3. QED
      BY <3>1, <3>2
  <2>6. plan' \in Plans /\ made' = Nil /\ pc' = "idle"
    BY <1>7 DEF UpdateRef, NoPlan
  <2>7. QED
    BY <1>7, <2>3, <2>5, <2>6, ObserveType DEF UpdateRef
<1>8. CASE Refuse
  BY <1>8, ObserveType DEF Refuse, Goto, NoPlan
<1>9. CASE OtherClient
  BY <1>9, ObserveType DEF OtherClient, OtherLocalClient, SwitchHead, MoveBranch
<1>10. CASE OtherStage \/ ChangeGates
  BY <1>10, ObserveType DEF OtherStage, ChangeGates
<1>11. CASE UNCHANGED vars
  BY <1>11 DEF vars
<1>12. QED
  BY <1>1, <1>2, <1>3, <1>4, <1>5, <1>6, <1>7, <1>8, <1>9, <1>10, <1>11 DEF Next

\* The initial states are typed.
LEMMA InitType == Init => TypeOK
<1> SUFFICES ASSUME Init PROVE TypeOK
  OBVIOUS
<1>1. plan \in Plans
  BY DEF Init, NoPlan, Plans, Oids, Refs
<1>2. since \in Histories
  BY DEF Init, Nothing, Histories
<1>3. QED
  BY <1>1, <1>2 DEF Init, TypeOK, LocalTypeOK, Oids

\* Reachable states have their types, for any repository and any number of
\* other clients' steps.
THEOREM TypeCorrect == Spec => []TypeOK
  BY InitType, TypeStep, PTL DEF Spec

-----------------------------------------------------------------------------
(***************************************************************************)
(* The inductive invariant: at each place of the execution, what the       *)
(* checks so far have seen.                                                *)
(***************************************************************************)
PastGates == {"make", "update"}
PastHead  == {"check gates"} \cup PastGates
PastRef   == {"check oid again", "check ref again"} \cup PastHead
PastOid   == {"check ref"} \cup PastRef
PastTree  == {"check oid"} \cup PastOid

Seen ==
  /\ pc \in PastTree => since.tree
  /\ pc \in PastOid => since.oid
  /\ pc \in PastRef => since.ref
  /\ pc \in PastGates => since.ungated

NotEmpty == pc \in PastHead => plan.tree # TreeAt(plan.oid)

MadeAsPlanned ==
  pc = "update" => TreeOf[made] = plan.tree /\ ParentOf[made] = plan.oid

Safe ==
  /\ CommitsConfirmedTree
  /\ LandsOnPreviewedBranch
  /\ CommitsConfirmedState
  /\ NeverBypassesGates
  /\ NeverCommitsNothing

CommitInv == TypeOK /\ Seen /\ NotEmpty /\ MadeAsPlanned /\ Safe

\* What has been seen stays seen until the plan is done with.
LEMMA ObserveKeeps ==
  ASSUME TypeOK, Observe, pc' \in Executing
  PROVE  /\ since.tree \/ index' = plan'.tree => since'.tree
         /\ since.oid \/ HeadOid' = plan'.oid => since'.oid
         /\ since.ref \/ HeadRef' = plan'.ref => since'.ref
         /\ since.ungated \/ ~gated' => since'.ungated
<1>1. since' = [tree    |-> since.tree \/ index' = plan'.tree,
                oid     |-> since.oid \/ HeadOid' = plan'.oid,
                ref     |-> since.ref \/ HeadRef' = plan'.ref,
                ungated |-> since.ungated \/ ~gated']
  BY DEF Observe
<1>2. QED
  BY <1>1, Zenon

\* Every step keeps the invariant.
LEMMA CommitStep == CommitInv /\ [Next]_vars => CommitInv'
<1> SUFFICES ASSUME CommitInv, [Next]_vars PROVE CommitInv'
  OBVIOUS
<1>t. TypeOK /\ TypeOK'
  BY TypeStep DEF CommitInv
<1> USE DEF PastTree, PastOid, PastRef, PastHead, PastGates
<1>1. CASE ReadStatus \/ WriteTree \/ ReadHeadOid \/ ReadHeadRef \/ Refuse
  <2>1. pc' \notin Executing /\ (effect' = effect \/ effect' = {})
    BY <1>1 DEF ReadStatus, WriteTree, ReadHeadOid, ReadHeadRef, Refuse, Goto, Executing
  <2>2. Seen' /\ NotEmpty' /\ MadeAsPlanned'
    BY <2>1 DEF Seen, NotEmpty, MadeAsPlanned, Executing
  <2>3. Safe'
    BY <2>1 DEF CommitInv, Safe, CommitsConfirmedTree, LandsOnPreviewedBranch,
                CommitsConfirmedState, NeverBypassesGates, NeverCommitsNothing, TreeAt
  <2>4. QED
    BY <1>t, <2>2, <2>3 DEF CommitInv
<1>2. CASE Confirm \/ CheckItems \/ CheckTree \/ CheckHeadOid \/ CheckHeadRef
             \/ CheckHeadOidAgain \/ CheckHeadRefAgain \/ CheckGates
  <2> USE DEF Confirm, CheckItems, CheckTree, CheckHeadOid, CheckHeadRef,
              CheckHeadOidAgain, CheckHeadRefAgain, CheckGates, Check, Goto
  <2>1. /\ UNCHANGED <<head, tip, index, gated, plan, made, effect>>
        /\ Observe
        /\ pc' \in Executing \ {"update"}
    BY <1>2 DEF Executing
  <2>2. Seen'
    BY <1>2, <1>t, <2>1, ObserveKeeps DEF CommitInv, Seen, HeadOid, HeadRef, Executing
  <2>3. NotEmpty' /\ MadeAsPlanned'
    BY <1>2, <2>1 DEF CommitInv, NotEmpty, MadeAsPlanned, TreeAt
  <2>4. Safe'
    BY <2>1 DEF CommitInv, Safe, CommitsConfirmedTree, LandsOnPreviewedBranch,
                CommitsConfirmedState, NeverBypassesGates, NeverCommitsNothing, TreeAt
  <2>5. QED
    BY <1>t, <2>2, <2>3, <2>4 DEF CommitInv
<1>3. CASE CommitTree
  <2>1. /\ UNCHANGED <<head, tip, index, gated, plan, effect>>
        /\ Observe
        /\ pc = "make" /\ pc' = "update"
    BY <1>3 DEF CommitTree, Goto
  <2>2. Seen'
    BY <1>t, <2>1, ObserveKeeps DEF CommitInv, Seen, Executing
  <2>3. NotEmpty' /\ MadeAsPlanned'
    BY <1>3, <2>1 DEF CommitInv, NotEmpty, MadeAsPlanned, TreeAt, CommitTree
  <2>4. Safe'
    BY <2>1 DEF CommitInv, Safe, CommitsConfirmedTree, LandsOnPreviewedBranch,
                CommitsConfirmedState, NeverBypassesGates, NeverCommitsNothing, TreeAt
  <2>5. QED
    BY <1>t, <2>2, <2>3, <2>4 DEF CommitInv
<1>4. CASE UpdateRef
  <2> DEFINE old == IF UpdatedRef # Nil THEN tip[UpdatedRef] ELSE head
             e == [commit |-> made, plan |-> plan, ref |-> UpdatedRef, since |-> since,
                   old |-> old]
  <2>1. pc = "update" /\ pc' = "idle" /\ effect' = {e} /\ old = plan.oid
    BY <1>4 DEF UpdateRef, Swaps
  <2>2. Seen' /\ NotEmpty' /\ MadeAsPlanned'
    BY <2>1 DEF Seen, NotEmpty, MadeAsPlanned
  <2>3. TreeOf[made] = plan.tree /\ ParentOf[made] = plan.oid
    BY <2>1 DEF CommitInv, MadeAsPlanned
  <2>4. CommitsConfirmedTree'
    BY <2>1, <2>3 DEF CommitsConfirmedTree
  <2>5. LandsOnPreviewedBranch'
    BY <2>1 DEF LandsOnPreviewedBranch, UpdatedRef
  <2>6. since.tree /\ since.oid /\ since.ref /\ since.ungated
    BY <2>1 DEF CommitInv, Seen
  <2>7. e.since.tree /\ e.since.oid /\ e.since.ref /\ e.since.ungated
    BY <2>6
  <2>8. CommitsConfirmedState' /\ NeverBypassesGates'
    BY <2>1, <2>7, Zenon DEF CommitsConfirmedState, NeverBypassesGates
  <2>9. NeverCommitsNothing'
    BY <2>1, <2>3 DEF NeverCommitsNothing, CommitInv, NotEmpty, TreeAt
  <2>10. QED
    BY <1>t, <2>2, <2>4, <2>5, <2>8, <2>9 DEF CommitInv, Safe
<1>5. CASE OtherClient \/ OtherStage \/ ChangeGates
  <2>1. UNCHANGED <<pc, plan, made, effect>> /\ Observe
    BY <1>5 DEF OtherClient, OtherStage, ChangeGates
  <2>2. Seen'
    BY <1>t, <2>1, ObserveKeeps DEF CommitInv, Seen, Executing
  <2>3. NotEmpty' /\ MadeAsPlanned'
    BY <2>1 DEF CommitInv, NotEmpty, MadeAsPlanned, TreeAt
  <2>4. Safe'
    BY <2>1 DEF CommitInv, Safe, CommitsConfirmedTree, LandsOnPreviewedBranch,
                CommitsConfirmedState, NeverBypassesGates, NeverCommitsNothing, TreeAt
  <2>5. QED
    BY <1>t, <2>2, <2>3, <2>4 DEF CommitInv
<1>6. CASE UNCHANGED vars
  BY <1>6, <1>t DEF vars, CommitInv, Seen, NotEmpty, MadeAsPlanned, Safe, CommitsConfirmedTree,
     LandsOnPreviewedBranch, CommitsConfirmedState, NeverBypassesGates, NeverCommitsNothing,
     TreeAt
<1>7. QED
  BY <1>1, <1>2, <1>3, <1>4, <1>5, <1>6 DEF Next

\* The invariant holds throughout.
LEMMA CommitInvariant == Spec => []CommitInv
<1>1. Init => CommitInv
  BY InitType DEF Init, CommitInv, Seen, NotEmpty, MadeAsPlanned, Safe, CommitsConfirmedTree,
     LandsOnPreviewedBranch, CommitsConfirmedState, NeverBypassesGates, NeverCommitsNothing,
     PastTree, PastOid, PastRef, PastHead, PastGates
<1>2. QED
  BY <1>1, CommitStep, PTL DEF Spec

-----------------------------------------------------------------------------
(***************************************************************************)
(* The theorems, for every repository and whatever others do.              *)
(***************************************************************************)
\* commit_staged_tree commits the confirmed tree onto the previewed history.
THEOREM ConfirmedTreeIsCommitted == Spec => []CommitsConfirmedTree
<1>1. CommitInv => CommitsConfirmedTree
  BY DEF CommitInv, Safe
<1>2. QED
  BY <1>1, CommitInvariant, PTL

\* The commit goes to the previewed branch even if HEAD is switched.
THEOREM PreviewedBranchIsMoved == Spec => []LandsOnPreviewedBranch
<1>1. CommitInv => LandsOnPreviewedBranch
  BY DEF CommitInv, Safe
<1>2. QED
  BY <1>1, CommitInvariant, PTL

\* Nothing is committed from a preview that was stale all along.
THEOREM CommittedStateWasSeen == Spec => []CommitsConfirmedState
<1>1. CommitInv => CommitsConfirmedState
  BY DEF CommitInv, Safe
<1>2. QED
  BY <1>1, CommitInvariant, PTL

\* Hooks and signing in force since the confirmation stop the commit.
THEOREM GatesAreRespected == Spec => []NeverBypassesGates
<1>1. CommitInv => NeverBypassesGates
  BY DEF CommitInv, Safe
<1>2. QED
  BY <1>1, CommitInvariant, PTL

\* A commit has a tree that differs from its parent's.
THEOREM CommitsHaveChanges == Spec => []NeverCommitsNothing
<1>1. CommitInv => NeverCommitsNothing
  BY DEF CommitInv, Safe
<1>2. QED
  BY <1>1, CommitInvariant, PTL

\* run_commit_step does what its preview announced, or nothing.
THEOREM CommitsAreAsPreviewed == Spec => []CommitsAsPreviewed
<1>1. CommitInv => CommitsAsPreviewed
  BY DEF CommitInv, Safe, CommitsAsPreviewed
<1>2. QED
  BY <1>1, CommitInvariant, PTL

=============================================================================
