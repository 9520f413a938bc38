----------------------------- MODULE RemotePush -----------------------------
(***************************************************************************)
(* A push of the current branch, with or without setting its upstream:     *)
(* planned from a snapshot, confirmed, validated again, and pushed under a *)
(* lease (crates/bitbygit-tui/src/lib.rs: plan_push, validate_push_plan,   *)
(* the two push steps; crates/bitbygit-git/src/lib.rs: typed_push_target,  *)
(* push_current_branch, push_current_branch_set_upstream).  Meanwhile      *)
(* others move the local branches, edit the Git configuration and push.    *)
(*                                                                         *)
(* Every action is one Git command, except that the configuration reads    *)
(* that resolve the destination are one step.  Remote-tracking refs are    *)
(* left out: all they do to a push is to make it refused, as Refuse may.   *)
(***************************************************************************)
EXTENDS PushRoute

VARIABLES
  remote,  \* the branches of every remote repository
  pc,      \* what the session does next
  plan,    \* the payload: the snapshot taken at the preview
  since,   \* history: what has held at some moment since the confirmation
  effect   \* history: what this push did

vars == <<head, tip, config, remote, pc, plan, since, effect>>

NoPlan == [branch |-> Nil, upstream |-> Nil, oid |-> Nil, ref |-> Nil,
           target |-> Nil, url |-> Nil, expected |-> Nil]
Nothing == [oid |-> FALSE, ref |-> FALSE, route |-> FALSE]
NoEffect == [pushes |-> {}, landed |-> {}, bound |-> FALSE]

Planning  == {"oid", "ref", "route", "remote"}
Executing == {"check oid", "check ref", "check status", "check route", "push", "upstream"}

-----------------------------------------------------------------------------
(***************************************************************************)
(* The destination, read again.                                            *)
(***************************************************************************)
UpstreamUnchanged ==
  plan.upstream # Nil => config.upstream[plan.branch] = plan.upstream

Routed ==
  /\ TypedPushTarget(plan.branch, plan.upstream) = plan.target
  /\ config.urls[plan.target[1]] = {plan.url}

-----------------------------------------------------------------------------
(***************************************************************************)
(* History: HEAD, branch and destination as they have been at some moment  *)
(* since the confirmation.                                                 *)
(***************************************************************************)
Observe ==
  since' = IF pc' \in Executing
           THEN [oid   |-> since.oid \/ HeadOid' = plan'.oid,
                 ref   |-> since.ref \/ HeadRef' = plan'.branch,
                 route |-> since.route \/ Routed']
           ELSE Nothing

\* The session takes a step of its own that leaves the world as it is.
Goto(next) == pc' = next /\ UNCHANGED <<head, tip, config, remote>> /\ Observe

-----------------------------------------------------------------------------
(***************************************************************************)
(* plan_push: status, the two parts of HEAD, the destination, the object   *)
(* the remote branch is at.                                                *)
(***************************************************************************)
ReadStatus ==
  /\ pc = "idle"
  /\ OnBornBranch
  /\ plan' = [NoPlan EXCEPT !.branch = head, !.upstream = config.upstream[head]]
  /\ effect' = NoEffect
  /\ Goto("oid")

ReadHeadOid ==
  /\ pc = "oid"
  /\ plan' = [plan EXCEPT !.oid = HeadOid]
  /\ UNCHANGED effect
  /\ Goto("ref")

ReadHeadRef ==
  /\ pc = "ref"
  /\ plan' = [plan EXCEPT !.ref = HeadRef]
  /\ UNCHANGED effect
  /\ Goto("route")

\* single_push_url refuses a remote without a push URL, or with several.
ReadRoute ==
  /\ pc = "route"
  /\ UpstreamUnchanged
  /\ LET target == TypedPushTarget(plan.branch, plan.upstream)
     IN /\ target # Nil
        /\ \E url \in config.urls[target[1]] :
             /\ config.urls[target[1]] = {url}
             /\ plan' = [plan EXCEPT !.target = target, !.url = url]
  /\ UNCHANGED effect
  /\ Goto("remote")

ReadRemote ==
  /\ pc = "remote"
  /\ plan' = [plan EXCEPT !.expected = remote[<<plan.url, plan.target[2]>>]]
  /\ UNCHANGED effect
  /\ Goto("confirm")

Confirm ==
  /\ pc = "confirm"
  /\ UNCHANGED <<plan, effect>>
  /\ Goto("check oid")

-----------------------------------------------------------------------------
(***************************************************************************)
(* validate_push_plan and ensure_push_is_fast_forward.  A planned branch   *)
(* without a commit is refused.  An expected object that this repository   *)
(* does not have fails the ancestor check like one that is no ancestor.    *)
(***************************************************************************)
CheckHeadOid ==
  /\ pc = "check oid"
  /\ HeadOid = plan.oid
  /\ UNCHANGED <<plan, effect>>
  /\ Goto("check ref")

CheckHeadRef ==
  /\ pc = "check ref"
  /\ HeadRef = plan.ref
  /\ UNCHANGED <<plan, effect>>
  /\ Goto("check status")

CheckStatus ==
  /\ pc = "check status"
  /\ OnBornBranch
  /\ head = plan.branch
  /\ config.upstream[head] = plan.upstream
  /\ UNCHANGED <<plan, effect>>
  /\ Goto("check route")

FastForwards == plan.expected = Nil \/ IsAncestor(plan.expected, plan.oid)

\* Faulty variant: the destination of the preview is taken for granted.
CheckRouteByUpstream ==
  /\ pc = "check route"
  /\ UpstreamUnchanged
  /\ plan.oid # Nil
  /\ FastForwards
  /\ UNCHANGED <<plan, effect>>
  /\ Goto("push")

CheckRoute ==
  /\ pc = "check route"
  /\ UpstreamUnchanged
  /\ Routed
  /\ plan.oid # Nil
  /\ FastForwards
  /\ UNCHANGED <<plan, effect>>
  /\ Goto("push")

-----------------------------------------------------------------------------
(***************************************************************************)
(* git push --force-with-lease: Git resolves the remote's URLs again, and  *)
(* each repository accepts the update if its branch is where the lease     *)
(* says, or already where the push would bring it.  Any of them may be out *)
(* of reach, and the answer may be lost after the update.                  *)
(***************************************************************************)
\* Faulty variant: --force instead of a lease.
AcceptsForced(url) == TRUE

Accepts(url) == remote[<<url, plan.target[2]>>] \in {plan.expected, plan.oid}

Push ==
  /\ pc = "push"
  /\ LET urls == config.urls[plan.target[1]]
         name == plan.target[2]
     IN \E landed \in SUBSET {url \in urls : Accepts(url)} :
          /\ remote' = [place \in DOMAIN remote |->
                          IF place[2] = name /\ place[1] \in landed
                          THEN plan.oid ELSE remote[place]]
          /\ effect' =
               [effect EXCEPT
                  !.landed = landed,
                  !.pushes = {[old |-> remote[<<url, name>>], new |-> plan.oid,
                               expected |-> plan.expected, since |-> since] :
                                url \in {u \in landed : remote[<<u, name>>] # plan.oid}}]
          /\ \/ /\ landed = urls
                /\ urls # {}
                /\ plan.upstream = Nil
                /\ pc' = "upstream"
                /\ UNCHANGED plan
             \/ pc' = "idle" /\ plan' = NoPlan
  /\ UNCHANGED <<head, tip, config>>
  /\ Observe

\* git branch --set-upstream-to
SetUpstream ==
  /\ pc = "upstream"
  /\ config' = [config EXCEPT !.upstream[plan.branch] = <<plan.target[1], plan.branch>>]
  /\ effect' = [effect EXCEPT !.bound = TRUE]
  /\ pc' = "idle"
  /\ plan' = NoPlan
  /\ UNCHANGED <<head, tip, remote>>
  /\ Observe

\* Any command may fail, the user may cancel, the session may be killed.
Refuse ==
  /\ pc # "idle"
  /\ plan' = NoPlan
  /\ UNCHANGED effect
  /\ Goto("idle")

-----------------------------------------------------------------------------
(***************************************************************************)
(* Everybody else.                                                         *)
(***************************************************************************)
OtherClient ==
  /\ OtherLocalClient
  /\ UNCHANGED <<config, remote, pc, plan, effect>>
  /\ Observe

EditConfig ==
  /\ config' \in Configs \ {config}
  /\ UNCHANGED <<head, tip, remote, pc, plan, effect>>
  /\ Observe

OtherPush ==
  /\ \E place \in Urls \X Branches, oid \in Oids :
       remote' = [remote EXCEPT ![place] = oid]
  /\ UNCHANGED <<head, tip, config, pc, plan, effect>>
  /\ Observe

Init ==
  /\ head \in Branches
  /\ tip \in [Branches -> Commits]
  /\ config \in Configs
  /\ remote \in [Urls \X Branches -> Oids]
  /\ pc = "idle"
  /\ plan = NoPlan
  /\ since = Nothing
  /\ effect = NoEffect

Next ==
  \/ ReadStatus \/ ReadHeadOid \/ ReadHeadRef \/ ReadRoute \/ ReadRemote
  \/ Confirm
  \/ CheckHeadOid \/ CheckHeadRef \/ CheckStatus \/ CheckRoute
  \/ Push \/ SetUpstream \/ Refuse
  \/ OtherClient \/ EditConfig \/ OtherPush

Spec == Init /\ [][Next]_vars

-----------------------------------------------------------------------------
(***************************************************************************)
(* Properties.                                                             *)
(***************************************************************************)
Histories == [oid : BOOLEAN, ref : BOOLEAN, route : BOOLEAN]
PlanRecords ==
  [branch : Refs, upstream : Destinations \cup {Nil}, oid : Oids, ref : Refs,
   target : Destinations \cup {Nil}, url : Urls \cup {Nil}, expected : Oids]
PushRecords == [old : Oids, new : Oids, expected : Oids, since : Histories]
EffectRecords == [landed : SUBSET Urls, bound : BOOLEAN, pushes : SUBSET PushRecords]

\* Every variable has its type, and a payload exists while there is a plan.
TypeOK ==
  /\ LocalTypeOK
  /\ config \in ConfigRecords
  /\ remote \in [Urls \X Branches -> Oids]
  /\ pc \in {"idle", "confirm"} \cup Planning \cup Executing
  /\ plan \in PlanRecords
  /\ since \in Histories
  /\ effect \in EffectRecords
  /\ pc = "idle" <=> plan.branch = Nil

\* A push replaces the object its preview saw on the remote and no other,
\* whoever pushes between the preview, the checks and the push, and wherever
\* the remote has been pointed meanwhile.
ReplacesPreviewedObject == \A p \in effect.pushes : p.old = p.expected

\* Although a lease makes Git accept a rewind, no push takes a commit away
\* from a remote branch.
NeverRewinds == \A p \in effect.pushes : p.old = Nil \/ IsAncestor(p.old, p.new)

\* What is pushed, from which branch and to which place has been true of the
\* repository at some moment after the user confirmed it: a push never acts
\* on a preview that was out of date all along.
PushesConfirmedState ==
  \A p \in effect.pushes :
    /\ p.new \in Commits
    /\ p.since = [oid |-> TRUE, ref |-> TRUE, route |-> TRUE]

\* A branch gets an upstream only from a push that reached the remote; the
\* push may be repeated when setting the upstream failed.
UpstreamFollowsPush == effect.bound => effect.landed # {}

\* A push is the one that was previewed: over the object its preview saw, forwards,
\* and with an upstream only behind a push that landed.
PushesAsPreviewed == ReplacesPreviewedObject /\ NeverRewinds /\ UpstreamFollowsPush

=============================================================================
