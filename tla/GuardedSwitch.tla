---------------------------- MODULE GuardedSwitch ----------------------------
(***************************************************************************)
(* The four operations on branches of one repository: checkout, create     *)
(* branch, fast-forward merge and rebase (crates/bitbygit-tui/src/lib.rs:  *)
(* plan_checkout to plan_rebase and their steps; crates/bitbygit-git/src/  *)
(* lib.rs: checkout_branch, create_branch, merge_ff_only, rebase_onto).    *)
(*                                                                         *)
(* Each reads HEAD and a branch by name for its preview, reads them again  *)
(* after the confirmation, and then runs one Git command that takes some   *)
(* of them by name and others by object.  One Git command is one step;     *)
(* between two of them other clients move whatever they like.              *)
(***************************************************************************)
EXTENDS LocalRepository, Naturals, Sequences

CONSTANTS
  RemoteNames,  \* short names of remote-tracking branches, as origin/topic
  LocalName,    \* the local branch that checking one of them out creates
  Asked,        \* the requests made: operation, name, base of a new branch
  MaxChanges    \* bound: how often other clients change something

Operations == {"checkout", "create", "merge", "rebase"}
BranchNames == Branches \cup RemoteNames
Targets == [name : BranchNames, kind : {"local", "remote"}, oid : Commits]

ASSUME SwitchAssumption ==
  /\ LocalName \in [RemoteNames -> Branches]
  /\ Asked \subseteq [op : Operations, name : BranchNames, base : BranchNames \cup {Nil}]
  /\ \A r \in Asked : r.op = "create" => r.name \in Branches
  /\ Nil \notin BranchNames \cup Operations \cup Targets
  /\ MaxChanges \in Nat

VARIABLES
  tracking,  \* the commit of each remote-tracking branch, or Nil
  clean,     \* the worktree and the index are as HEAD is
  request,   \* the request being handled
  plan,      \* the payload: HEAD and the branch named, as previewed
  pc,        \* what the session does next
  since,     \* history: what has held at some moment since the confirmation
  effect,    \* history: what the command did
  changes    \* how often other clients have changed something

repository == <<head, tip, tracking, clean>>
vars == <<repository, request, plan, pc, since, effect, changes>>

NoRequest == [op |-> Nil, name |-> Nil, base |-> Nil]
NoPlan    == [branch |-> Nil, oid |-> Nil, ref |-> Nil, target |-> Nil]
NoEffect  == [op |-> Nil, old |-> Nil, new |-> Nil, base |-> Nil, since |-> {}]

-----------------------------------------------------------------------------
(***************************************************************************)
(* branch_target: a name among local and remote branches, refused when it  *)
(* is both.                                                                *)
(***************************************************************************)
BranchTarget(name, kind, oid) == [name |-> name, kind |-> kind, oid |-> oid]

Named(name) ==
  {BranchTarget(name, "local", tip[b]) : b \in {b \in Branches : b = name /\ tip[b] # Nil}}
  \cup
  {BranchTarget(name, "remote", tracking[n]) :
     n \in {n \in RemoteNames : n = name /\ tracking[n] # Nil}}

IsTarget(name, target) == Named(name) = {target}

CanTrack(target) == target.kind = "remote" => tip[LocalName[target.name]] = Nil

-----------------------------------------------------------------------------
(***************************************************************************)
(* The checks after the confirmation in their order; an operation that has *)
(* no use for one passes it.                                               *)
(***************************************************************************)
Checks == <<"clean", "oid", "ref", "absent", "target", "available", "ancestor">>
CheckNames == {Checks[i] : i \in DOMAIN Checks}

HoldsNow ==
  [clean     |-> clean,
   oid       |-> HeadOid = plan.oid,
   ref       |-> HeadRef = plan.ref,
   absent    |-> request.op = "create" => Named(request.name) = {},
   target    |-> plan.target # Nil => Named(plan.target.name) = {plan.target},
   available |-> request.op = "checkout" => CanTrack(plan.target),
   ancestor  |-> request.op = "merge" => IsAncestor(plan.oid, plan.target.oid)]

\* History: each check as it has held at some moment since the confirmation.
Executing == CheckNames \cup {"run"}

Observe ==
  since' = IF pc \in Executing
           THEN since \cup {f \in CheckNames : HoldsNow[f]}
           ELSE {}

Step(next) == pc' = next /\ UNCHANGED <<repository, changes>> /\ Observe

-----------------------------------------------------------------------------
(***************************************************************************)
(* The planner.                                                            *)
(***************************************************************************)
Submit(r) ==
  /\ pc = "idle"
  /\ request' = r
  /\ effect' = NoEffect
  /\ UNCHANGED plan
  /\ Step("planClean")

ReadClean ==
  /\ pc = "planClean"
  /\ clean
  /\ UNCHANGED <<request, plan, effect>>
  /\ Step(IF request.op \in {"merge", "rebase"} THEN "planBranch" ELSE "planOid")

\* Merge and rebase need a current branch as well.
ReadBranch ==
  /\ pc = "planBranch"
  /\ OnBornBranch
  /\ plan' = [plan EXCEPT !.branch = head]
  /\ UNCHANGED <<request, effect>>
  /\ Step("planOid")

ReadHeadOid ==
  /\ pc = "planOid"
  /\ plan' = [plan EXCEPT !.oid = HeadOid]
  /\ UNCHANGED <<request, effect>>
  /\ Step("planRef")

ReadHeadRef ==
  /\ pc = "planRef"
  /\ plan' = [plan EXCEPT !.ref = HeadRef]
  /\ UNCHANGED <<request, effect>>
  /\ Step("planTarget")

PlanWith(target, next) ==
  /\ plan' = [plan EXCEPT !.target = target]
  /\ UNCHANGED <<request, effect>>
  /\ Step(next)

PlanCheckout ==
  /\ pc = "planTarget"
  /\ request.op = "checkout"
  /\ \E target \in Named(request.name) :
       IsTarget(request.name, target) /\ PlanWith(target, "planTracking")

\* The branch that checking out a remote one creates must not be there.
ReadTracking ==
  /\ pc = "planTracking"
  /\ CanTrack(plan.target)
  /\ UNCHANGED <<request, plan, effect>>
  /\ Step("confirm")

PlanCreateBranch ==
  /\ pc = "planTarget"
  /\ request.op = "create"
  /\ Named(request.name) = {}
  /\ UNCHANGED <<request, plan, effect>>
  /\ Step("planBase")

ReadBase ==
  /\ pc = "planBase"
  /\ \/ request.base = Nil /\ plan.oid # Nil /\ PlanWith(Nil, "confirm")
     \/ \E base \in Named(request.base) :
          IsTarget(request.base, base) /\ PlanWith(base, "confirm")

PlanMergeOrRebase ==
  /\ pc = "planTarget"
  /\ request.op \in {"merge", "rebase"}
  /\ request.name # plan.branch
  /\ \E target \in Named(request.name) :
       IsTarget(request.name, target) /\ PlanWith(target, "confirm")

Confirm ==
  /\ pc = "confirm"
  /\ UNCHANGED <<request, plan, effect>>
  /\ Step(Checks[1])

\* Faulty variant: HEAD is compared by its commit alone.
CheckOidOnly ==
  /\ pc \in CheckNames
  /\ HoldsNow[pc] \/ pc = "ref"
  /\ UNCHANGED <<request, plan, effect>>
  /\ LET i == CHOOSE i \in DOMAIN Checks : Checks[i] = pc
     IN Step(IF i = Len(Checks) THEN "run" ELSE Checks[i + 1])

\* ensure_clean_worktree, ensure_head_target_unchanged,
\* ensure_branch_target_unchanged and the others
Check ==
  /\ pc \in CheckNames
  /\ HoldsNow[pc]
  /\ UNCHANGED <<request, plan, effect>>
  /\ LET i == CHOOSE i \in DOMAIN Checks : Checks[i] = pc
     IN Step(IF i = Len(Checks) THEN "run" ELSE Checks[i + 1])

-----------------------------------------------------------------------------
(***************************************************************************)
(* The commands, as Git carries them out on the repository it finds.       *)
(***************************************************************************)
\* The object the preview named: of the branch, or else of HEAD.
PreviewedOid == IF plan.target # Nil THEN plan.target.oid ELSE plan.oid

Done(old, new) ==
  /\ effect' = [op |-> request.op, old |-> old, new |-> new, base |-> PreviewedOid,
                since |-> since]
  /\ request' = NoRequest
  /\ plan' = NoPlan
  /\ pc' = "idle"
  /\ UNCHANGED <<tracking, changes>>
  /\ Observe

SwitchTo(branch, oid) ==
  /\ head' = branch
  /\ tip' = [tip EXCEPT ![branch] = oid]
  /\ UNCHANGED clean
  /\ Done(tip[branch], oid)

\* git switch -- name; a local branch that is gone is guessed from a remote one.
SwitchLocal ==
  /\ pc = "run"
  /\ request.op = "checkout"
  /\ plan.target.kind = "local"
  /\ LET name == plan.target.name
     IN IF tip[name] # Nil THEN SwitchTo(name, tip[name])
        ELSE \E n \in RemoteNames :
               /\ LocalName[n] = name
               /\ tracking[n] # Nil
               /\ SwitchTo(name, tracking[n])

\* git switch --track -- name
SwitchTracking ==
  /\ pc = "run"
  /\ request.op = "checkout"
  /\ plan.target.kind = "remote"
  /\ tip[LocalName[plan.target.name]] = Nil
  /\ \E start \in Named(plan.target.name) :
       SwitchTo(LocalName[plan.target.name], start.oid)

\* Faulty variant: git switch -C, which resets a branch that exists.
ResetBranch ==
  /\ pc = "run"
  /\ request.op = "create"
  /\ SwitchTo(request.name, PreviewedOid)

\* git switch -c name -- object
CreateBranch ==
  /\ pc = "run"
  /\ request.op = "create"
  /\ tip[request.name] = Nil
  /\ SwitchTo(request.name, PreviewedOid)

MoveHead(oid) ==
  IF head \in Branches THEN tip' = [tip EXCEPT ![head] = oid] /\ UNCHANGED head
  ELSE head' = oid /\ UNCHANGED tip

\* git merge --ff-only
FastForward(oid) ==
  /\ oid # Nil
  /\ IF HeadOid # Nil /\ IsAncestor(oid, HeadOid)
     THEN UNCHANGED <<head, tip>> /\ Done(HeadOid, HeadOid)
     ELSE /\ HeadOid = Nil \/ IsAncestor(HeadOid, oid)
          /\ MoveHead(oid)
          /\ Done(HeadOid, oid)
  /\ UNCHANGED clean

\* Faulty variant: the branch is merged by its name.
MergeByName ==
  /\ pc = "run"
  /\ request.op = "merge"
  /\ \E t \in Named(plan.target.name) : FastForward(t.oid)

Merge ==
  /\ pc = "run"
  /\ request.op = "merge"
  /\ FastForward(PreviewedOid)

\* git rebase; it stops on a conflict with HEAD detached.
Rebase ==
  /\ pc = "run"
  /\ request.op = "rebase"
  /\ HeadOid # Nil
  /\ \E new \in {c \in Commits : IsAncestor(PreviewedOid, c)} :
       /\ \/ MoveHead(new) /\ UNCHANGED clean
          \/ head' = new /\ clean' = FALSE /\ UNCHANGED tip
       /\ Done(HeadOid, new)

\* Any command may fail, the user may cancel, the session may be killed.
Refuse ==
  /\ pc # "idle"
  /\ request' = NoRequest
  /\ plan' = NoPlan
  /\ UNCHANGED effect
  /\ Step("idle")

-----------------------------------------------------------------------------
(***************************************************************************)
(* Other clients, at most MaxChanges times: they switch, commit, reset,    *)
(* create and delete branches, fetch, and edit the worktree.               *)
(***************************************************************************)
Changing ==
  /\ changes < MaxChanges
  /\ changes' = changes + 1
  /\ UNCHANGED <<request, plan, pc, effect>>
  /\ Observe

OtherClient == OtherLocalClient /\ UNCHANGED <<tracking, clean>> /\ Changing

OtherFetch ==
  /\ \E n \in RemoteNames, oid \in Oids : tracking' = [tracking EXCEPT ![n] = oid]
  /\ UNCHANGED <<head, tip, clean>>
  /\ Changing

EditWorktree == clean' = ~clean /\ UNCHANGED <<head, tip, tracking>> /\ Changing

Init ==
  /\ head \in Branches \cup Commits
  /\ tip \in [Branches -> Oids]
  /\ tracking \in [RemoteNames -> Oids]
  /\ clean = TRUE
  /\ request = NoRequest
  /\ plan = NoPlan
  /\ pc = "idle"
  /\ since = {}
  /\ effect = NoEffect
  /\ changes = 0

Next ==
  \/ \E r \in Asked : Submit(r)
  \/ ReadClean \/ ReadBranch \/ ReadHeadOid \/ ReadHeadRef
  \/ PlanCheckout \/ ReadTracking \/ PlanCreateBranch \/ ReadBase \/ PlanMergeOrRebase
  \/ Confirm \/ Check
  \/ SwitchLocal \/ SwitchTracking \/ CreateBranch \/ Merge \/ Rebase
  \/ Refuse
  \/ OtherClient \/ OtherFetch \/ EditWorktree

Spec == Init /\ [][Next]_vars

-----------------------------------------------------------------------------
(***************************************************************************)
(* Properties.                                                             *)
(***************************************************************************)
PlanRecords == [branch : Refs, oid : Oids, ref : Refs, target : Targets \cup {Nil}]
EffectRecords ==
  [op : Operations \cup {Nil}, old : Oids, new : Oids, base : Oids, since : SUBSET CheckNames]

\* Every variable has its type, and a payload exists only with its request.
TypeOK ==
  /\ LocalTypeOK
  /\ tracking \in [RemoteNames -> Oids]
  /\ clean \in BOOLEAN
  /\ request \in Asked \cup {NoRequest}
  /\ plan \in PlanRecords
  /\ pc \in {"idle", "planClean", "planBranch", "planOid", "planRef", "planTarget",
             "planTracking", "planBase", "confirm"} \cup Executing
  /\ since \subseteq CheckNames
  /\ effect \in EffectRecords
  /\ changes \in 0..MaxChanges
  /\ pc = "idle" <=> request = NoRequest
  /\ pc = "idle" => plan = NoPlan

\* Whatever other clients do between the checks, a command is run only if the
\* worktree was clean, HEAD the previewed branch and commit, and the branch
\* named what the preview showed and unambiguous, each at some moment since
\* the confirmation.
ActsOnConfirmedState == effect.op # Nil => CheckNames \subseteq effect.since

\* However the branch that was named has moved since, a new branch starts at
\* the commit the preview showed, a merge brings HEAD forward to that commit
\* and no other, and a rebase ends on top of it.
EndsAtPreviewedCommit ==
  CASE effect.op = "create" -> effect.new = effect.base
    [] effect.op = "merge"  -> \/ effect.new = effect.old
                               \/ /\ effect.new = effect.base
                                  /\ effect.old = Nil \/ IsAncestor(effect.old, effect.new)
    [] effect.op = "rebase" -> IsAncestor(effect.base, effect.new)
    [] OTHER                -> TRUE

\* No operation of the session takes a commit from a branch that is not the
\* one it works on: a checkout and a new branch move nothing that exists, even
\* if it came into being after the last check.
LeavesOtherBranchesAlone ==
  [][\A b \in Branches :
       tip'[b] # tip[b] /\ tip[b] # Nil /\ changes' = changes =>
         b = head /\ request.op \in {"merge", "rebase"}]_vars

=============================================================================
