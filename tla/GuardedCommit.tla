---------------------------- MODULE GuardedCommit ----------------------------
(***************************************************************************)
(* A commit of the staged tree that was previewed, made with commit-tree   *)
(* and update-ref instead of git commit (crates/bitbygit-tui/src/lib.rs:   *)
(* plan_commit, run_commit_step; crates/bitbygit-git/src/lib.rs:           *)
(* commit_staged_tree), while other clients stage, switch and commit, and  *)
(* enable hooks or signing.                                                *)
(***************************************************************************)
EXTENDS LocalRepository

CONSTANTS
  Trees,      \* tree objects
  EmptyTree,  \* the tree of a repository without a commit
  TreeOf,     \* the tree of each commit
  ParentOf,   \* its parent, Nil for the first one
  Paths,      \* what the file panel lists
  Changes     \* the paths listed as staged, for HEAD's tree and the index

ASSUME CommitAssumption ==
  /\ EmptyTree \in Trees
  /\ TreeOf \in [Commits -> Trees]
  /\ ParentOf \in [Commits -> Oids]
  /\ Changes \in [Trees \X Trees -> SUBSET Paths]
  /\ \A t \in Trees : Changes[<<t, t>>] = {}
  /\ Nil \notin Trees

VARIABLES
  index,   \* the tree write-tree would make of the index
  gated,   \* commit hooks or mandatory signing are configured
  pc,      \* what the session does next
  plan,    \* the payload: the snapshot taken at the preview
  made,    \* the commit object that is not yet on any branch
  since,   \* history: what has held at some moment since the confirmation
  effect   \* history: the commit that was put on a branch

vars == <<head, tip, index, gated, pc, plan, made, since, effect>>

NoPlan == [items |-> {}, tree |-> Nil, oid |-> Nil, ref |-> Nil]
Nothing == [tree |-> FALSE, oid |-> FALSE, ref |-> FALSE, ungated |-> FALSE]

Planning  == {"tree", "oid", "ref"}
Executing == {"check items", "check tree", "check oid", "check ref", "check oid again",
              "check ref again", "check gates", "make", "update"}

TreeAt(oid) == IF oid = Nil THEN EmptyTree ELSE TreeOf[oid]
StagedItems == Changes[<<TreeAt(HeadOid), index>>]

-----------------------------------------------------------------------------
\* History: the index, HEAD and the gates as they have been at some moment
\* since the confirmation.
Observe ==
  since' = IF pc' \in Executing
           THEN [tree    |-> since.tree \/ index' = plan'.tree,
                 oid     |-> since.oid \/ HeadOid' = plan'.oid,
                 ref     |-> since.ref \/ HeadRef' = plan'.ref,
                 ungated |-> since.ungated \/ ~gated']
           ELSE Nothing

Goto(next) ==
  /\ pc' = next
  /\ UNCHANGED <<head, tip, index, gated>>
  /\ Observe

\* A step of the execution that only looks.
Check(now, condition, next) ==
  /\ pc = now
  /\ condition
  /\ UNCHANGED <<plan, made, effect>>
  /\ Goto(next)

-----------------------------------------------------------------------------
(***************************************************************************)
(* plan_commit.  HEAD may be detached, or on a branch without a commit.    *)
(***************************************************************************)
ReadStatus ==
  /\ pc = "idle"
  /\ StagedItems # {}
  /\ plan' = [NoPlan EXCEPT !.items = StagedItems]
  /\ effect' = {}
  /\ UNCHANGED made
  /\ Goto("tree")

WriteTree ==
  /\ pc = "tree"
  /\ plan' = [plan EXCEPT !.tree = index]
  /\ UNCHANGED <<made, effect>>
  /\ Goto("oid")

ReadHeadOid ==
  /\ pc = "oid"
  /\ plan' = [plan EXCEPT !.oid = HeadOid]
  /\ UNCHANGED <<made, effect>>
  /\ Goto("ref")

ReadHeadRef ==
  /\ pc = "ref"
  /\ plan' = [plan EXCEPT !.ref = HeadRef]
  /\ UNCHANGED <<made, effect>>
  /\ Goto("confirm")

Confirm == Check("confirm", TRUE, "check items")

-----------------------------------------------------------------------------
(***************************************************************************)
(* run_commit_step, then the checks of commit_staged_tree.                 *)
(***************************************************************************)
\* Faulty variant: a check that has been left out.
CheckTreeSkipped == Check("check tree", TRUE, "check oid")

CheckItems    == Check("check items", StagedItems = plan.items, "check tree")
CheckTree     == Check("check tree", index = plan.tree, "check oid")
CheckHeadOid  == Check("check oid", HeadOid = plan.oid, "check ref")
CheckHeadRef  == Check("check ref", HeadRef = plan.ref, "check oid again")

CheckHeadOidAgain == Check("check oid again", HeadOid = plan.oid, "check ref again")

\* Also ensure_staged_tree_is_not_empty_commit, which reads objects only.
CheckHeadRefAgain ==
  Check("check ref again", HeadRef = plan.ref /\ plan.tree # TreeAt(plan.oid), "check gates")

CheckGates == Check("check gates", ~gated, "make")

-----------------------------------------------------------------------------
(***************************************************************************)
(* git commit-tree, then git update-ref with the old value expected.  The  *)
(* ref is the one previewed; for a detached HEAD it is HEAD, which Git     *)
(* follows if it has become symbolic since.                                *)
(***************************************************************************)

CommitTree ==
  /\ pc = "make"
  /\ \E c \in Commits :
       /\ TreeOf[c] = plan.tree
       /\ ParentOf[c] = plan.oid
       /\ made' = c
  /\ UNCHANGED <<plan, effect>>
  /\ Goto("update")

\* Faulty variant: the commit goes where HEAD is.
UpdatedHead == HeadRef

UpdatedRef == IF plan.ref # Nil THEN plan.ref ELSE HeadRef

Swaps(oid) == oid = plan.oid

UpdateRef ==
  /\ pc = "update"
  /\ IF UpdatedRef # Nil
     THEN /\ Swaps(tip[UpdatedRef])
          /\ tip' = [tip EXCEPT ![UpdatedRef] = made]
          /\ UNCHANGED head
     ELSE /\ Swaps(head)
          /\ head' = made
          /\ UNCHANGED tip
  /\ effect' = {[commit |-> made, plan |-> plan, ref |-> UpdatedRef, since |-> since,
                 old |-> IF UpdatedRef # Nil THEN tip[UpdatedRef] ELSE head]}
  /\ pc' = "idle"
  /\ plan' = NoPlan
  /\ made' = Nil
  /\ UNCHANGED <<index, gated>>
  /\ Observe

\* Any command may fail, the user may cancel, the session may be killed: a
\* commit object that is on no branch is left behind at most.
Refuse ==
  /\ pc # "idle"
  /\ plan' = NoPlan
  /\ made' = Nil
  /\ UNCHANGED effect
  /\ Goto("idle")

-----------------------------------------------------------------------------
(***************************************************************************)
(* Everybody else.                                                         *)
(***************************************************************************)
OtherClient ==
  /\ OtherLocalClient
  /\ UNCHANGED <<index, gated, pc, plan, made, effect>>
  /\ Observe

OtherStage ==
  /\ index' \in Trees \ {index}
  /\ UNCHANGED <<head, tip, gated, pc, plan, made, effect>>
  /\ Observe

ChangeGates ==
  /\ gated' = ~gated
  /\ UNCHANGED <<head, tip, index, pc, plan, made, effect>>
  /\ Observe

Init ==
  /\ head \in Branches
  /\ tip \in [Branches -> Oids]
  /\ index \in Trees
  /\ gated \in BOOLEAN
  /\ pc = "idle"
  /\ plan = NoPlan
  /\ made = Nil
  /\ since = Nothing
  /\ effect = {}

Next ==
  \/ ReadStatus \/ WriteTree \/ ReadHeadOid \/ ReadHeadRef
  \/ Confirm
  \/ CheckItems \/ CheckTree \/ CheckHeadOid \/ CheckHeadRef
  \/ CheckHeadOidAgain \/ CheckHeadRefAgain \/ CheckGates
  \/ CommitTree \/ UpdateRef \/ Refuse
  \/ OtherClient \/ OtherStage \/ ChangeGates

Spec == Init /\ [][Next]_vars

-----------------------------------------------------------------------------
(***************************************************************************)
(* Properties.                                                             *)
(***************************************************************************)
Plans == [items : SUBSET Paths, tree : Trees \cup {Nil}, oid : Oids, ref : Refs]
Histories == [tree : BOOLEAN, oid : BOOLEAN, ref : BOOLEAN, ungated : BOOLEAN]

\* Every variable has its type, and a commit object waits for its branch only
\* between the two commands.
TypeOK ==
  /\ LocalTypeOK
  /\ index \in Trees
  /\ gated \in BOOLEAN
  /\ pc \in {"idle", "confirm"} \cup Planning \cup Executing
  /\ plan \in Plans
  /\ made \in Oids
  /\ pc = "update" <=> made # Nil
  /\ since \in Histories
  /\ effect \in SUBSET [commit : Commits, plan : Plans, ref : Refs, since : Histories,
                        old : Oids]

\* The commit has the tree that was confirmed, whatever has been staged since,
\* and continues the history that was previewed: the branch was at the
\* commit's parent, so that no commit of another client is lost.
CommitsConfirmedTree ==
  \A e \in effect :
    /\ TreeOf[e.commit] = e.plan.tree
    /\ ParentOf[e.commit] = e.plan.oid
    /\ e.old = e.plan.oid

\* Even when another client switches HEAD at the last moment, a commit that was
\* previewed on a branch goes to that branch.
LandsOnPreviewedBranch == \A e \in effect : e.plan.ref # Nil => e.ref = e.plan.ref

\* The index and HEAD have been as confirmed at some moment since: a preview
\* that was out of date all along is never committed.
CommitsConfirmedState ==
  \A e \in effect : e.since.tree /\ e.since.oid /\ e.since.ref

\* Hooks and signing that are in force from the confirmation on are never
\* bypassed.
NeverBypassesGates == \A e \in effect : e.since.ungated

\* A commit changes the tree, also when the index was reset between the reads
\* of the preview.
NeverCommitsNothing == \A e \in effect : TreeOf[e.commit] # TreeAt(e.old)

\* A commit is the one that was previewed: the confirmed tree, on the previewed
\* branch and parent, with a change in it, and past no hook or signature.
CommitsAsPreviewed ==
  CommitsConfirmedTree /\ LandsOnPreviewedBranch /\ NeverCommitsNothing /\ NeverBypassesGates

=============================================================================
