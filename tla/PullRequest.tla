---------------------------- MODULE PullRequest ----------------------------
(***************************************************************************)
(* Opening a pull request, alone or as a later step of a prompt sequence   *)
(* (crates/bitbygit-tui/src/lib.rs: plan_open_pull_request,                *)
(* run_open_pull_request_step, PromptSequenceExecutor::execute_confirmed;  *)
(* crates/bitbygit-gh).                                                    *)
(*                                                                         *)
(* A request reads the branch, its destination and the repositories on     *)
(* GitHub one item at a time; after the confirmation each of them is read  *)
(* again before the pull request is created.  A sequence resolves the      *)
(* target of every later pull request (PullTargets) at the preview, before *)
(* its first step, and before and after planning each further step that    *)
(* precedes a pull request; the one that is planned is compared as well.   *)
(* Meanwhile the repository, its configuration, GitHub and the policy's    *)
(* default base are everybody's.  Policy evaluation and audit are those of *)
(* GuardedSession, the checks of a push those of RemotePush, those of a    *)
(* checkout or a new branch those of GuardedSwitch.                        *)
(***************************************************************************)
EXTENDS PullTargets

CONSTANTS
  Prompts,        \* what may be asked for: sequences of requests
  Others,         \* the pull requests others may open
  MaxChanges      \* bound: how often anything else changes during a request

Pulls == [repository : Names, base : Branches, from : Names, branch : Branches]

ASSUME PullAssumption ==
  /\ Prompts \subseteq Seq(Requests) \ {<<>>}
  /\ Others \subseteq Pulls
  /\ MaxChanges \in Nat

VARIABLES
  pulls,      \* the open pull requests
  default,    \* the base branch the policy file names, or Nil
  plan,       \* the payload of the current step
  pc,         \* what the session does next
  since,      \* history: what has held since the resolution or confirmation
  effect,     \* history: what the prompt has done
  changes     \* how often the environment has changed something

world == <<answers, pulls, default>>
vars  == <<world, loaded, queue, scan, plan, pc, since, effect, changes>>

NoQueue == [requests |-> <<>>, targets |-> <<>>, at |-> 0]
NoPlan ==
  [branch |-> Nil, upstream |-> Nil, dest |-> Nil, url |-> Nil, from |-> Nil,
   oid |-> Nil, ref |-> Nil, to |-> Nil, repository |-> Nil, source |-> Nil, base |-> Nil,
   target |-> Nil]
NoEffect == [created |-> {}, reported |-> {}, steps |-> {}]

\* Faulty variant: any pull request of that head is taken for this one.
MatchesHead(p, target) == p.from = target.from /\ p.branch = target.branch

Matches(p, target) ==
  p.base = target.base /\ p.from = target.from /\ p.branch = target.branch

\* matching_pull_request over existing_pull_requests
Matching(target) ==
  {p \in pulls : p.repository = canonical[plan.to] /\ Matches(p, target)}

Request == queue.requests[queue.at]
IsLast == queue.at = Len(queue.requests)
IsSequence == Len(queue.requests) > 1
Downstream == OpenFrom(queue.at) # {}

CurrentBranch == IF head \in Branches THEN head ELSE Nil

\* The first step's payload names its branch only when it is a push.
StartBranch ==
  IF queue.at = 1 /\ Request.kind = "push" /\ plan.branch # Nil THEN plan.branch ELSE CurrentBranch

\* deferred_pull_request_base_changed
BaseUnchanged ==
  \/ default = loaded
  \/ \A i \in queue.at..Len(queue.requests) :
       ~(IsOpen(queue.requests[i]) /\ queue.requests[i].branch = Nil)

-----------------------------------------------------------------------------
(***************************************************************************)
(* The checks before a pull request is created, in their order, and what   *)
(* each compares.  The one called absent does not refuse: where it fails   *)
(* the pull request that is there is reported instead.                     *)
(***************************************************************************)
Checks == <<"oid", "ref", "status", "upstream", "dest", "urls", "to", "repository", "source",
            "published", "absent", "base">>
CheckNames == {Checks[i] : i \in DOMAIN Checks}

PlannedTarget ==
  [repository |-> plan.repository, base |-> plan.base,
   from |-> plan.source, branch |-> plan.dest[2]]

Holds ==
  [oid        |-> HeadOid = plan.oid,
   ref        |-> HeadRef = plan.ref,
   status     |-> /\ OnBornBranch
                  /\ head = plan.branch
                  /\ config.upstream[head] = plan.upstream,
   upstream   |-> config.upstream[plan.branch] = plan.upstream,
   dest       |-> TypedPushTarget(plan.branch, plan.upstream) = plan.dest,
   urls       |-> HeadUrl(plan.dest[1]) = plan.url,
   to         |-> BaseName(plan.dest[1], plan.from) = plan.to,
   repository |-> canonical[plan.to] = plan.repository,
   source     |-> canonical[plan.from] = plan.source,
   published  |-> BranchOid(plan.from, plan.dest[2]) = plan.oid,
   absent     |-> Matching(PlannedTarget) = {},
   base       |-> BranchOid(plan.to, plan.base) # Nil]

\* In a sequence, at this moment: the targets of the pull requests to come.
Aimed == Downstream => TargetsFrom(StartBranch)

\* The pull request that is being opened is already there.
Found == [PlannedTarget EXCEPT !.repository = canonical[plan.to]]
IsThere == Found \in pulls

\* Where the targets are resolved, of the sequence and before it is shown;
\* where a step waits for its turn; where a pull request is being opened, and
\* where its repository has been asked for its name.
Rechecking == {"start", "before", "after"}
Resolving  == Rechecking \cup {"resolve"}
Opening    == CheckNames \cup {"create", "search"}
Settled    == {"source", "published", "absent", "base", "create", "search"}
Facts      == CheckNames \cup {"present", "moved", "aimed", "disturbed"}
Nothing    == [f \in Facts |-> FALSE]

\* Taken with every step, of the state the step starts in and of what it does
\* to what was read before it.
Observe ==
  since' =
    IF pc \in Opening
    THEN LET holds == Holds
         IN [f \in Facts |->
               \/ since[f]
               \/ f = "present" /\ IsThere
               \/ f = "moved" /\ pc \in Settled /\ canonical'[plan.to] # canonical[plan.to]
               \/ f \in CheckNames /\ holds[f]]
    ELSE IF pc \in Rechecking
    THEN LET begun == scan.place # "none"
         IN [Nothing EXCEPT !.aimed = (begun /\ since.aimed) \/ Aimed,
                            !.disturbed = begun /\ (since.disturbed \/ answers' # answers)]
    ELSE IF pc \in {"compare", "run"}
    THEN [Nothing EXCEPT !.aimed = since.aimed \/ Aimed, !.disturbed = since.disturbed]
    ELSE Nothing

\* The next place of the session; of a resolution, the same one.
Step(next) == pc' = next /\ scan' = NoScan /\ UNCHANGED <<world, changes>> /\ Observe

Resolve ==
  /\ pc \in Resolving
  /\ UNCHANGED <<world, loaded, queue, plan, pc, effect, changes>>
  /\ Observe

-----------------------------------------------------------------------------
(***************************************************************************)
(* A prompt.  One request is planned at once; of a sequence the targets    *)
(* are resolved first, then its first step is planned.                     *)
(***************************************************************************)
PlanFrom(request) == IF IsOpen(request) THEN "planStatus" ELSE "prepare"
Dispatch(request) == IF IsOpen(request) THEN Checks[1] ELSE "run"

Submit(requests) ==
  /\ pc = "idle"
  /\ loaded' = default
  /\ queue' = [NoQueue EXCEPT !.requests = requests, !.at = 1,
                              !.targets = [i \in DOMAIN requests |-> Nil]]
  /\ effect' = NoEffect
  /\ UNCHANGED plan
  /\ Step(IF Len(requests) > 1 THEN "resolve" ELSE PlanFrom(requests[1]))

\* deferred_pull_request_targets, one item after the other.
Begin        == BeginScan(StartBranch) /\ Resolve
FollowBranch == Follow /\ Resolve
AimRequest   == Aim /\ Resolve

Preview ==
  /\ pc = "resolve"
  /\ scan.place = "resolved"
  /\ queue' = [queue EXCEPT !.targets = scan.targets]
  /\ UNCHANGED <<loaded, plan, effect>>
  /\ Step(PlanFrom(Request))

\* Where a step goes once it is planned.
Planned ==
  IF queue.at = 1 THEN "confirm" ELSE IF Downstream THEN "after" ELSE "compare"

\* Any other step: HEAD, and what the request is about - the branch that is to
\* be checked out, or the upstream and the destination of a push.
Prepare ==
  /\ pc = "prepare"
  /\ LET snapshot == [NoPlan EXCEPT !.branch = HeadRef, !.oid = HeadOid]
     IN CASE Request.kind = "create" ->
               /\ tip[Request.branch] = Nil
               /\ HeadOid # Nil
               /\ plan' = snapshot
          [] Request.kind = "checkout" ->
               /\ tip[Request.branch] # Nil
               /\ plan' = [snapshot EXCEPT !.target = tip[Request.branch]]
          [] Request.kind = "track" ->
               /\ tracking[Request.branch] # Nil
               /\ tip[Request.branch[2]] = Nil
               /\ plan' = [snapshot EXCEPT !.target = tracking[Request.branch]]
          [] OTHER ->
               LET upstream == config.upstream[head]
                   dest     == TypedPushTarget(head, upstream)
               IN /\ OnBornBranch
                  /\ dest # Nil
                  /\ NameOf(HeadUrl(dest[1])) # Nil
                  /\ plan' = [snapshot EXCEPT !.upstream = upstream, !.dest = dest,
                                               !.from = NameOf(HeadUrl(dest[1]))]
  /\ UNCHANGED <<loaded, queue, effect>>
  /\ Step(Planned)

Confirm ==
  /\ pc = "confirm"
  /\ UNCHANGED <<loaded, queue, plan, effect>>
  /\ Step(IF IsSequence THEN "load" ELSE Dispatch(Request))

-----------------------------------------------------------------------------
(***************************************************************************)
(* plan_open_pull_request.                                                 *)
(***************************************************************************)
\* A step of the planner adds to the payload.
Learn(payload, next) ==
  /\ plan' = payload
  /\ UNCHANGED <<loaded, queue, effect>>
  /\ Step(next)

ReadStatus ==
  /\ pc = "planStatus"
  /\ OnBornBranch
  /\ config.upstream[head] # Nil
  /\ Learn([NoPlan EXCEPT !.branch = head, !.upstream = config.upstream[head]],
           "planUpstream")

ReadUpstream ==
  /\ pc = "planUpstream"
  /\ config.upstream[plan.branch] = plan.upstream
  /\ Learn(plan, "planDest")

ReadDestination ==
  /\ pc = "planDest"
  /\ LET dest == TypedPushTarget(plan.branch, plan.upstream)
     IN dest # Nil /\ Learn([plan EXCEPT !.dest = dest], "planUrl")

ReadUrl ==
  /\ pc = "planUrl"
  /\ LET url == HeadUrl(plan.dest[1])
     IN NameOf(url) # Nil /\ Learn([plan EXCEPT !.url = url, !.from = NameOf(url)], "planOid")

ReadHeadOid ==
  /\ pc = "planOid"
  /\ HeadOid # Nil
  /\ Learn([plan EXCEPT !.oid = HeadOid], "planRef")

ReadHeadRef ==
  /\ pc = "planRef"
  /\ Learn([plan EXCEPT !.ref = HeadRef], "planTo")

ReadBaseName ==
  /\ pc = "planTo"
  /\ BaseName(plan.dest[1], plan.from) # Nil
  /\ Learn([plan EXCEPT !.to = BaseName(plan.dest[1], plan.from)], "planRepository")

\* One answer serves both where the head is the base.
ReadRepository ==
  /\ pc = "planRepository"
  /\ LET answer == canonical[plan.to]
     IN IF plan.from = plan.to
        THEN Learn([plan EXCEPT !.repository = answer, !.source = answer], "planPublished")
        ELSE Learn([plan EXCEPT !.repository = answer], "planSource")

ReadSource ==
  /\ pc = "planSource"
  /\ Learn([plan EXCEPT !.source = canonical[plan.from]], "planPublished")

ReadPublished ==
  /\ pc = "planPublished"
  /\ BranchOid(plan.from, plan.dest[2]) = plan.oid
  /\ Learn(plan, "planBase")

ReadBase ==
  /\ pc = "planBase"
  /\ LET base == BaseBranch(Request.branch)
     IN /\ DistinctRefs(plan.repository, base, plan.source, plan.dest[2])
        /\ BranchOid(plan.to, base) # Nil
        /\ Learn([plan EXCEPT !.base = base], Planned)

-----------------------------------------------------------------------------
(***************************************************************************)
(* execute_confirmed: the targets are resolved again, with the policy that *)
(* has just been loaded, and the policy is loaded once more.               *)
(***************************************************************************)
LoadPolicy ==
  /\ pc \in {"load", "next"}
  /\ loaded' = default
  /\ UNCHANGED <<queue, plan, effect>>
  /\ Step(IF pc = "load" THEN "start"
          ELSE IF Downstream THEN "before" ELSE PlanFrom(Request))

StartSequence ==
  /\ pc = "start"
  /\ AsPreviewed
  /\ BaseUnchanged
  /\ loaded' = default
  /\ UNCHANGED <<queue, plan, effect>>
  /\ Step(Dispatch(Request))

CheckBefore ==
  /\ pc = "before"
  /\ AsPreviewed
  /\ BaseUnchanged
  /\ loaded' = default
  /\ UNCHANGED <<queue, plan, effect>>
  /\ Step(PlanFrom(Request))

\* Faulty variant: what planning may have outdated is resolved, not compared.
CheckAfterPlanned ==
  /\ pc = "after"
  /\ scan.place = "resolved"
  /\ BaseUnchanged
  /\ loaded' = default
  /\ UNCHANGED <<queue, plan, effect>>
  /\ Step("compare")

CheckAfter ==
  /\ pc = "after"
  /\ AsPreviewed
  /\ BaseUnchanged
  /\ loaded' = default
  /\ UNCHANGED <<queue, plan, effect>>
  /\ Step("compare")

\* Faulty variant: a pull request is opened to where it was planned last.
CompareNothing ==
  /\ pc = "compare"
  /\ UNCHANGED <<loaded, queue, plan, effect>>
  /\ Step(Dispatch(Request))

\* prepared_pull_request_target
Compare ==
  /\ pc = "compare"
  /\ IsOpen(Request) => PlannedTarget = queue.targets[queue.at]
  /\ UNCHANGED <<loaded, queue, plan, effect>>
  /\ Step(Dispatch(Request))

\* The step succeeded, and the next one's turn comes, or the prompt ends.
Advance ==
  /\ queue' = IF IsLast THEN NoQueue ELSE [queue EXCEPT !.at = @ + 1]
  /\ plan' = NoPlan
  /\ pc' = IF IsLast THEN "idle" ELSE "next"
  /\ UNCHANGED <<loaded, scan, default, changes>>

\* A step before the pull request has its effect.  A new branch has no
\* upstream yet; a tracking checkout and a first push bind it.
RunStep ==
  /\ pc = "run"
  /\ HeadRef = plan.branch
  /\ HeadOid = plan.oid
  /\ CASE Request.kind = "create" ->
            /\ tip[Request.branch] = Nil
            /\ tip' = [tip EXCEPT ![Request.branch] = plan.oid]
            /\ head' = Request.branch
            /\ UNCHANGED <<tracking, config, published>>
       [] Request.kind = "checkout" ->
            /\ tip[Request.branch] = plan.target
            /\ head' = Request.branch
            /\ UNCHANGED <<tip, tracking, config, published>>
       [] Request.kind = "track" ->
            /\ tracking[Request.branch] = plan.target
            /\ tip[Request.branch[2]] = Nil
            /\ tip' = [tip EXCEPT ![Request.branch[2]] = plan.target]
            /\ head' = Request.branch[2]
            /\ config' = [config EXCEPT !.upstream[Request.branch[2]] = Request.branch]
            /\ UNCHANGED <<tracking, published>>
       [] OTHER ->
            /\ TypedPushTarget(plan.branch, config.upstream[plan.branch]) = plan.dest
            /\ NameOf(HeadUrl(plan.dest[1])) = plan.from
            /\ published' = [published EXCEPT ![<<canonical[plan.from], plan.dest[2]>>] = plan.oid]
            /\ tracking' = [tracking EXCEPT ![plan.dest] = plan.oid]
            /\ config' = IF plan.upstream # Nil THEN config
                         ELSE [config EXCEPT !.upstream[plan.branch] = <<plan.dest[1], plan.branch>>]
            /\ UNCHANGED <<head, tip>>
  /\ UNCHANGED <<canonical, pulls>>
  /\ effect' = [effect EXCEPT !.steps = @ \cup {[aimed     |-> since.aimed \/ Aimed,
                                                  disturbed |-> since.disturbed]}]
  /\ Advance
  /\ Observe

-----------------------------------------------------------------------------
(***************************************************************************)
(* run_open_pull_request_step.                                             *)
(***************************************************************************)
\* The first step of a prompt is planned for the preview, and is its own.
Previewed == IF queue.at > 1 THEN queue.targets[queue.at] ELSE PlannedTarget

Report(pull) ==
  /\ effect' = [effect EXCEPT !.reported = @ \cup {pull}]
  /\ UNCHANGED answers
  /\ Advance
  /\ Observe

\* A pull request that is reported as existing, where it was found.
Reported == [pull |-> Found, previewed |-> Previewed, moved |-> since.moved,
             present |-> since.present \/ IsThere]

\* The head is not asked for its name where it is the base.
After(check) == LET i == CHOOSE i \in DOMAIN Checks : Checks[i] = check
                IN IF i = Len(Checks) THEN "create"
                   ELSE IF check = "repository" /\ plan.from = plan.to THEN "published"
                   ELSE Checks[i + 1]

\* Faulty variant: the repositories are not asked for their names again.
CheckNamesTrusted ==
  /\ pc \in CheckNames
  /\ Holds[pc] \/ pc \in {"repository", "source"}
  /\ UNCHANGED <<loaded, queue, plan, effect>>
  /\ Step(After(pc))

Check ==
  /\ pc \in CheckNames
  /\ Holds[pc]
  /\ UNCHANGED <<loaded, queue, plan, effect>>
  /\ Step(After(pc))

Surface ==
  /\ pc = "absent"
  /\ ~Holds["absent"]
  /\ UNCHANGED pulls
  /\ Report(Reported)

\* gh pr create asks the repository by the name it was configured with, for
\* a head named by owner and branch.  GitHub accepts what it does not have
\* yet; the answer may be lost.
Created ==
  [PlannedTarget EXCEPT
     !.repository = canonical[plan.to],
     !.from = IF plan.source = plan.repository THEN canonical[plan.to] ELSE plan.source]

Accepted ==
  /\ Created \notin pulls
  /\ published[<<Created.repository, Created.base>>] # Nil
  /\ published[<<Created.from, Created.branch>>] # Nil

Creation ==
  [pull |-> Created, previewed |-> Previewed, moved |-> since.moved, since |-> since]

Create ==
  /\ pc = "create"
  /\ Accepted
  /\ pulls' = pulls \cup {Created}
  /\ effect' = [effect EXCEPT !.created = @ \cup {Creation}]
  /\ UNCHANGED answers
  /\ Advance
  /\ Observe

CreateFails ==
  /\ pc = "create"
  /\ \/ UNCHANGED <<pulls, effect>>
     \/ /\ Accepted
        /\ pulls' = pulls \cup {Created}
        /\ effect' = [effect EXCEPT !.created = @ \cup {Creation}]
  /\ pc' = "search"
  /\ UNCHANGED <<answers, default, loaded, queue, scan, plan, changes>>
  /\ Observe

SearchAgain ==
  /\ pc = "search"
  /\ ~Holds["absent"]
  /\ UNCHANGED pulls
  /\ Report(Reported)

\* Faulty variant: the payload outlives its prompt.
RefuseKeepsPlan ==
  /\ pc # "idle"
  /\ queue' = NoQueue
  /\ UNCHANGED <<loaded, plan, effect>>
  /\ Step("idle")

\* Any command may fail, the user may cancel, the session may be killed.
Refuse ==
  /\ pc # "idle"
  /\ plan' = NoPlan
  /\ queue' = NoQueue
  /\ UNCHANGED <<loaded, effect>>
  /\ Step("idle")

-----------------------------------------------------------------------------
(***************************************************************************)
(* Everybody else, at most MaxChanges times: other Git clients and editors *)
(* here, anyone on GitHub.                                                 *)
(***************************************************************************)
Changing ==
  /\ changes < MaxChanges
  /\ changes' = changes + 1
  /\ UNCHANGED <<loaded, queue, scan, plan, pc, effect>>
  /\ Observe

OtherClient ==
  /\ OtherLocalClient
  /\ UNCHANGED <<tracking, config, canonical, published, pulls, default>>
  /\ Changing

EditConfig ==
  /\ config' \in Configs \ {config}
  /\ UNCHANGED <<head, tip, tracking, canonical, published, pulls, default>>
  /\ Changing

EditPolicy ==
  /\ default' \in Refs \ {default}
  /\ UNCHANGED <<answers, pulls>>
  /\ Changing

\* A repository is renamed or transferred, or its name is given to another.
Rename ==
  /\ \E from, to \in Names : canonical' = [canonical EXCEPT ![from] = to]
  /\ canonical' # canonical
  /\ UNCHANGED <<head, tip, tracking, config, published, pulls, default>>
  /\ Changing

\* A fetch by another client: what the repository the remote fetches from has.
OtherFetch ==
  /\ \E d \in Destinations :
       /\ NameOf(config.fetch[d[1]]) # Nil
       /\ tracking' = [tracking EXCEPT ![d] = BranchOid(NameOf(config.fetch[d[1]]), d[2])]
  /\ tracking' # tracking
  /\ UNCHANGED <<head, tip, config, canonical, published, pulls, default>>
  /\ Changing

OtherPush ==
  /\ \E place \in Names \X Branches, oid \in Oids :
       published' = [published EXCEPT ![place] = oid]
  /\ published' # published
  /\ UNCHANGED <<head, tip, tracking, config, canonical, pulls, default>>
  /\ Changing

OtherPullRequest ==
  /\ \E p \in Others \cup pulls :
       pulls' = IF p \in pulls THEN pulls \ {p} ELSE pulls \cup {p}
  /\ UNCHANGED <<answers, default>>
  /\ Changing

Init ==
  /\ head \in Branches
  /\ tip \in [Branches -> Oids]
  /\ OnBornBranch
  /\ config \in Configs
  /\ canonical = [n \in Names |-> n]
  /\ published \in [Names \X Branches -> Oids]
  /\ tracking \in [Destinations -> Oids]
  /\ pulls = {}
  /\ default = Nil
  /\ loaded = Nil
  /\ queue = NoQueue
  /\ scan = NoScan
  /\ plan = NoPlan
  /\ pc = "idle"
  /\ since = Nothing
  /\ effect = NoEffect
  /\ changes = 0

Next ==
  \/ \E requests \in Prompts : Submit(requests)
  \/ Begin \/ FollowBranch \/ AimRequest \/ Preview
  \/ Prepare \/ Confirm
  \/ ReadStatus \/ ReadUpstream \/ ReadDestination \/ ReadUrl \/ ReadHeadOid \/ ReadHeadRef
  \/ ReadBaseName \/ ReadRepository \/ ReadSource \/ ReadPublished \/ ReadBase
  \/ LoadPolicy \/ StartSequence \/ CheckBefore \/ CheckAfter \/ Compare
  \/ RunStep
  \/ Check \/ Surface \/ Create \/ CreateFails \/ SearchAgain
  \/ Refuse
  \/ OtherClient \/ EditConfig \/ EditPolicy \/ Rename \/ OtherFetch \/ OtherPush
  \/ OtherPullRequest

Spec == Init /\ [][Next]_vars

-----------------------------------------------------------------------------
(***************************************************************************)
(* Properties.                                                             *)
(***************************************************************************)
PlanRecords ==
  [branch : Refs, upstream : Destinations \cup {Nil}, dest : Destinations \cup {Nil},
   url : Urls \cup {Nil}, from : Names \cup {Nil}, oid : Oids, ref : Refs,
   to : Names \cup {Nil}, repository : Names \cup {Nil}, source : Names \cup {Nil},
   base : Refs, target : Oids]

\* Every variable has its type; a payload exists only while its prompt does,
\* and a resolution only where the session resolves.
TypeOK ==
  /\ LocalTypeOK
  /\ config \in ConfigRecords
  /\ canonical \in [Names -> Names]
  /\ published \in [Names \X Branches -> Oids]
  /\ tracking \in [Destinations -> Oids]
  /\ pulls \subseteq Pulls
  /\ default \in Refs
  /\ loaded \in Refs
  /\ plan \in PlanRecords
  /\ since \in [Facts -> BOOLEAN]
  /\ changes \in 0..MaxChanges
  /\ queue = NoQueue \/ (queue.requests \in Prompts /\ queue.at \in DOMAIN queue.requests)
  /\ pc = "idle" <=> queue = NoQueue
  /\ pc = "idle" => plan = NoPlan
  /\ scan.place # "none" => pc \in Resolving

\* Whatever changes on either side while the payload is checked item by item,
\* a pull request is created only after each item of what was previewed - the
\* pushed commit, its branch and destination, both repositories and the base -
\* has been the case at some moment since the confirmation, and after a moment
\* without a pull request like it.
CreatesWhatWasChecked ==
  \A c \in effect.created : \A f \in CheckNames : c.since[f]

\* A pull request lands, or is found, in the repository, on the base and from
\* the head that its preview named, though the steps before it have run since
\* and it was planned again; unless the repository answering to the name was
\* exchanged after it had been asked for the last time.
LandsWherePreviewed ==
  \A c \in effect.created \cup effect.reported : c.pull = c.previewed \/ c.moved

\* A step that precedes a pull request in a sequence has its effect only if
\* there was a moment, since its targets were last resolved, at which each
\* pull request to come would have gone where the preview said, or if one of
\* the answers that the resolution is made of changed while it was being read.
StepsServeThePreviewedTarget == \A s \in effect.steps : s.aimed \/ s.disturbed

\* A pull request is reported as existing only if one from that head to that
\* base was open at some moment since the confirmation, after a failed
\* creation too.
ReportsOpenPullRequests == \A r \in effect.reported : r.present

=============================================================================
