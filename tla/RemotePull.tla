----------------------------- MODULE RemotePull -----------------------------
(***************************************************************************)
(* A pull, fast-forward only or with rebase: the preview fetches the       *)
(* remote branch beside the remote-tracking ref, the confirmed step        *)
(* publishes what was fetched by compare-and-swap and then merges or       *)
(* rebases exactly that object (crates/bitbygit-tui/src/lib.rs: plan_pull, *)
(* validate_pull_plan, the two pull steps; crates/bitbygit-git/src/lib.rs: *)
(* fetch_remote_branch_for_plan, publish_remote_tracking,                  *)
(* pull_ff_only_from, pull_rebase_from), while others move local branches, *)
(* change upstreams, fetch, and push.                                      *)
(*                                                                         *)
(* The ref a preview fetches into is named after the process and a counter *)
(* and deleted before the plan is shown; nobody else reads it, so fetching *)
(* into it, reading and deleting it are one step.                          *)
(***************************************************************************)
EXTENDS LocalRepository

CONSTANT Upstreams  \* remote branches, each with its remote-tracking ref

ASSUME PullAssumption == Nil \notin Upstreams

VARIABLES
  upstream,  \* the upstream of each local branch
  clean,     \* whether the worktree is clean
  remote,    \* where the remote branches are
  tracking,  \* where the remote-tracking refs are
  pc,        \* what the session does next
  plan,      \* the payload: the snapshot taken at the preview
  since,     \* history: what has held since the tracking ref was published
  effect     \* history: what this pull did

vars == <<head, tip, upstream, clean, remote, tracking, pc, plan, since, effect>>

NoPlan == [rebase |-> FALSE, branch |-> Nil, upstream |-> Nil, oid |-> Nil, ref |-> Nil,
           tracking |-> Nil, fetched |-> Nil]
Nothing == [oid |-> FALSE, ref |-> FALSE, tracking |-> FALSE]
NoEffect == [published |-> {}, integrated |-> {}]

Planning    == {"oid", "ref", "tracking", "fetch", "recheck"}
Validating  == {"check oid", "check ref", "check status", "publish"}
Integrating == {"check tracking", "check oid again", "check ref again", "integrate"}

-----------------------------------------------------------------------------
\* History: the tracking ref and HEAD as they have been at some moment since
\* the publication.
Observe ==
  since' = IF pc' \in Integrating
           THEN [oid      |-> since.oid \/ HeadOid' = plan'.oid,
                 ref      |-> since.ref \/ HeadRef' = plan'.ref,
                 tracking |-> since.tracking \/ tracking'[plan'.upstream] = plan'.fetched]
           ELSE Nothing

Goto(next) ==
  /\ pc' = next
  /\ UNCHANGED <<head, tip, upstream, clean, remote, tracking>>
  /\ Observe

-----------------------------------------------------------------------------
(***************************************************************************)
(* plan_pull.                                                              *)
(***************************************************************************)
ReadStatus ==
  /\ pc = "idle"
  /\ OnBornBranch
  /\ upstream[head] # Nil
  /\ \E rebase \in BOOLEAN :
       plan' = [NoPlan EXCEPT !.rebase = rebase, !.branch = head, !.upstream = upstream[head]]
  /\ effect' = NoEffect
  /\ Goto("oid")

ReadHeadOid ==
  /\ pc = "oid"
  /\ plan' = [plan EXCEPT !.oid = HeadOid]
  /\ UNCHANGED effect
  /\ Goto("ref")

ReadHeadRef ==
  /\ pc = "ref"
  /\ plan' = [plan EXCEPT !.ref = HeadRef]
  /\ UNCHANGED effect
  /\ Goto("tracking")

ReadTracking ==
  /\ pc = "tracking"
  /\ upstream[plan.branch] = plan.upstream
  /\ plan' = [plan EXCEPT !.tracking = tracking[plan.upstream]]
  /\ UNCHANGED effect
  /\ Goto("fetch")

Fetch ==
  /\ pc = "fetch"
  /\ remote[plan.upstream] # Nil
  /\ plan' = [plan EXCEPT !.fetched = remote[plan.upstream]]
  /\ UNCHANGED effect
  /\ Goto("recheck")

StatusUnchanged ==
  /\ OnBornBranch
  /\ head = plan.branch
  /\ upstream[head] = plan.upstream
  /\ plan.rebase => clean

\* Without a rebase a diverged branch is refused: ahead and behind at once.
Diverged(a, b) == ~IsAncestor(a, b) /\ ~IsAncestor(b, a)

RecheckStatus ==
  /\ pc = "recheck"
  /\ StatusUnchanged
  /\ plan.oid # Nil
  /\ plan.rebase \/ ~Diverged(plan.oid, plan.fetched)
  /\ UNCHANGED <<plan, effect>>
  /\ Goto("confirm")

Confirm ==
  /\ pc = "confirm"
  /\ UNCHANGED <<plan, effect>>
  /\ Goto("check oid")

-----------------------------------------------------------------------------
(***************************************************************************)
(* validate_pull_plan.                                                     *)
(***************************************************************************)
CheckHeadOid ==
  /\ pc = "check oid"
  /\ HeadOid = plan.oid
  /\ UNCHANGED <<plan, effect>>
  /\ Goto("check ref")

CheckHeadRef ==
  /\ pc = "check ref"
  /\ HeadRef = plan.ref
  /\ UNCHANGED <<plan, effect>>
  /\ Goto("check status")

CheckStatus ==
  /\ pc = "check status"
  /\ StatusUnchanged
  /\ UNCHANGED <<plan, effect>>
  /\ Goto("publish")

-----------------------------------------------------------------------------
(***************************************************************************)
(* publish_remote_tracking: update-ref with the old value expected.        *)
(***************************************************************************)
\* Faulty variant: the old value is not given to update-ref.
SwapsAnything == TRUE

Swaps == tracking[plan.upstream] = plan.tracking

Publish ==
  /\ pc = "publish"
  /\ Swaps
  /\ tracking' = [tracking EXCEPT ![plan.upstream] = plan.fetched]
  /\ effect' = [effect EXCEPT !.published =
                  {[old |-> tracking[plan.upstream], expected |-> plan.tracking]}]
  /\ pc' = "check tracking"
  /\ UNCHANGED <<head, tip, upstream, clean, remote, plan>>
  /\ Observe

(***************************************************************************)
(* The checks of pull_ff_only_from and pull_rebase_from.                   *)
(***************************************************************************)
CheckTracking ==
  /\ pc = "check tracking"
  /\ tracking[plan.upstream] = plan.fetched
  /\ UNCHANGED <<plan, effect>>
  /\ Goto("check oid again")

\* Faulty variant: the validation before the publication is thought enough.
CheckHeadOidOnce ==
  /\ pc = "check oid again"
  /\ UNCHANGED <<plan, effect>>
  /\ Goto("check ref again")

CheckHeadOidAgain ==
  /\ pc = "check oid again"
  /\ HeadOid = plan.oid
  /\ UNCHANGED <<plan, effect>>
  /\ Goto("check ref again")

CheckHeadRefAgain ==
  /\ pc = "check ref again"
  /\ HeadRef = plan.ref
  /\ UNCHANGED <<plan, effect>>
  /\ Goto("integrate")

-----------------------------------------------------------------------------
(***************************************************************************)
(* git merge --ff-only and git rebase act on what HEAD is at that moment.  *)
(***************************************************************************)
MoveHeadTo(oid) ==
  IF head \in Branches
  THEN tip' = [tip EXCEPT ![head] = oid] /\ UNCHANGED head
  ELSE head' = oid /\ UNCHANGED tip

Integrated(oid) ==
  effect' = [effect EXCEPT !.integrated =
               {[rebase |-> plan.rebase, old |-> HeadOid, new |-> oid,
                 fetched |-> plan.fetched, since |-> since]}]

Finish == pc' = "idle" /\ plan' = NoPlan

\* A merge of what HEAD already contains changes nothing.
MergeFastForward ==
  /\ pc = "integrate"
  /\ ~plan.rebase
  /\ HeadOid = Nil \/ IsAncestor(HeadOid, plan.fetched)
  /\ MoveHeadTo(plan.fetched)
  /\ Integrated(plan.fetched)
  /\ Finish
  /\ UNCHANGED <<upstream, clean, remote, tracking>>
  /\ Observe

\* A branch that contains what was fetched is left alone; otherwise its own
\* commits are made again on top of what was fetched.
Rebase ==
  /\ pc = "integrate"
  /\ plan.rebase
  /\ clean
  /\ HeadOid # Nil
  /\ \E oid \in Commits :
       /\ IF IsAncestor(plan.fetched, HeadOid) THEN oid = HeadOid
          ELSE IF IsAncestor(HeadOid, plan.fetched) THEN oid = plan.fetched
          ELSE IsAncestor(plan.fetched, oid)
       /\ MoveHeadTo(oid)
       /\ Integrated(oid)
  /\ Finish
  /\ UNCHANGED <<upstream, clean, remote, tracking>>
  /\ Observe

\* A rebase that meets a conflict stops detached, on the way.
RebaseStops ==
  /\ pc = "integrate"
  /\ plan.rebase
  /\ clean
  /\ HeadOid # Nil
  /\ Diverged(plan.fetched, HeadOid)
  /\ \E oid \in Commits : IsAncestor(plan.fetched, oid) /\ head' = oid
  /\ clean' = FALSE
  /\ Finish
  /\ UNCHANGED <<tip, upstream, remote, tracking, effect>>
  /\ Observe

\* Any command may fail, the user may cancel, the session may be killed.
Refuse ==
  /\ pc # "idle"
  /\ plan' = NoPlan
  /\ UNCHANGED effect
  /\ Goto("idle")

-----------------------------------------------------------------------------
(***************************************************************************)
(* Everybody else.                                                         *)
(***************************************************************************)
OtherClient ==
  /\ OtherLocalClient
  /\ UNCHANGED <<upstream, clean, remote, tracking, pc, plan, effect>>
  /\ Observe

EditWorktree ==
  /\ clean' = ~clean
  /\ UNCHANGED <<head, tip, upstream, remote, tracking, pc, plan, effect>>
  /\ Observe

ChangeUpstream ==
  /\ \E b \in Branches, u \in Upstreams \cup {Nil} :
       upstream' = [upstream EXCEPT ![b] = u]
  /\ UNCHANGED <<head, tip, clean, remote, tracking, pc, plan, effect>>
  /\ Observe

OtherFetch ==
  /\ \E u \in Upstreams : tracking' = [tracking EXCEPT ![u] = remote[u]]
  /\ UNCHANGED <<head, tip, upstream, clean, remote, pc, plan, effect>>
  /\ Observe

OtherPush ==
  /\ \E u \in Upstreams, oid \in Oids : remote' = [remote EXCEPT ![u] = oid]
  /\ UNCHANGED <<head, tip, upstream, clean, tracking, pc, plan, effect>>
  /\ Observe

Init ==
  /\ head \in Branches
  /\ tip \in [Branches -> Commits]
  /\ upstream \in [Branches -> Upstreams \cup {Nil}]
  /\ clean \in BOOLEAN
  /\ remote \in [Upstreams -> Commits]
  /\ tracking = remote
  /\ pc = "idle"
  /\ plan = NoPlan
  /\ since = Nothing
  /\ effect = NoEffect

Next ==
  \/ ReadStatus \/ ReadHeadOid \/ ReadHeadRef \/ ReadTracking \/ Fetch \/ RecheckStatus
  \/ Confirm
  \/ CheckHeadOid \/ CheckHeadRef \/ CheckStatus
  \/ Publish \/ CheckTracking \/ CheckHeadOidAgain \/ CheckHeadRefAgain
  \/ MergeFastForward \/ Rebase \/ RebaseStops \/ Refuse
  \/ OtherClient \/ EditWorktree \/ ChangeUpstream \/ OtherFetch \/ OtherPush

Spec == Init /\ [][Next]_vars

-----------------------------------------------------------------------------
(***************************************************************************)
(* Properties.                                                             *)
(***************************************************************************)
Histories == [oid : BOOLEAN, ref : BOOLEAN, tracking : BOOLEAN]

\* Every variable has its type, and a payload exists while there is a plan.
TypeOK ==
  /\ LocalTypeOK
  /\ upstream \in [Branches -> Upstreams \cup {Nil}]
  /\ clean \in BOOLEAN
  /\ remote \in [Upstreams -> Oids]
  /\ tracking \in [Upstreams -> Oids]
  /\ pc \in {"idle", "confirm"} \cup Planning \cup Validating \cup Integrating
  /\ plan \in [rebase : BOOLEAN, branch : Refs, upstream : Upstreams \cup {Nil},
               oid : Oids, ref : Refs, tracking : Oids, fetched : Oids]
  /\ since \in Histories
  /\ effect \in [published : SUBSET [old : Oids, expected : Oids],
                 integrated : SUBSET [rebase : BOOLEAN, old : Oids, new : Oids,
                                      fetched : Oids, since : Histories]]
  /\ pc = "idle" <=> plan.branch = Nil

\* A pull publishes over the tracking ref its preview saw: what another client
\* has fetched since is not replaced by something older.
KeepsOtherFetches == \A p \in effect.published : p.old = p.expected

\* Without --rebase a pull moves HEAD forwards to exactly the object that was
\* fetched for the preview, and so loses no local commit; with --rebase the
\* result contains that object.
IntegratesFetched ==
  \A i \in effect.integrated :
    /\ ~i.rebase => i.new = i.fetched /\ (i.old = Nil \/ IsAncestor(i.old, i.new))
    /\ i.rebase  => IsAncestor(i.fetched, i.new)

\* HEAD moves only after the tracking ref has been at what HEAD is moved to,
\* and only if HEAD was what the preview showed after that publication:
\* between the last check and the command nothing is promised.
IntegratesConfirmedState ==
  \A i \in effect.integrated :
    i.since = [oid |-> TRUE, ref |-> TRUE, tracking |-> TRUE]

\* A pull is the one that was previewed: over the tracking ref its preview saw, to
\* the object it fetched, and without losing a commit of either side.
PullsAsPreviewed == KeepsOtherFetches /\ IntegratesFetched

=============================================================================
