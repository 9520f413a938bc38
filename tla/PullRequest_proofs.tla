-------------------------- MODULE PullRequest_proofs --------------------------
(***************************************************************************)
(* What opening a pull request guarantees for all repositories, prompts of *)
(* any length and configurations, whatever changes here and on GitHub.     *)
(***************************************************************************)
EXTENDS PullRequest, WellFoundedInduction, TLAPS

(***************************************************************************)
(* The order of the checks.                                                *)
(***************************************************************************)
\* The names of the checks, spelled out.
LEMMA NamesOfChecks ==
  CheckNames = {"oid", "ref", "status", "upstream", "dest", "urls", "to", "repository",
                "source", "published", "absent", "base"}
<1>1. DOMAIN Checks = 1..12 /\ 1..12 = {1, 2, 3, 4, 5, 6, 7, 8, 9, 10, 11, 12}
  BY DEF Checks
<1>2. QED
  BY <1>1 DEF CheckNames, Checks

\* Each check is followed by the next one, the last by the creation; one answer
\* serves for both repositories where they have one name.
LEMMA OrderOfChecks ==
  /\ After("oid") = "ref"
  /\ After("ref") = "status"
  /\ After("status") = "upstream"
  /\ After("upstream") = "dest"
  /\ After("dest") = "urls"
  /\ After("urls") = "to"
  /\ After("to") = "repository"
  /\ After("repository") = IF plan.from = plan.to THEN "published" ELSE "source"
  /\ After("source") = "published"
  /\ After("published") = "absent"
  /\ After("absent") = "base"
  /\ After("base") = "create"
<1>1. DOMAIN Checks = 1..12 /\ Len(Checks) = 12
  BY DEF Checks
<1>2. ASSUME NEW i \in 1..12
      PROVE  After(Checks[i]) = IF i = 12 THEN "create"
                                ELSE IF Checks[i] = "repository" /\ plan.from = plan.to
                                THEN "published" ELSE Checks[i + 1]
  <2>1. \A j \in 1..12 : Checks[j] = Checks[i] => j = i
    BY DEF Checks
  <2>2. (CHOOSE j \in DOMAIN Checks : Checks[j] = Checks[i]) = i
    BY <1>1, <2>1
  <2>3. QED
    BY <1>1, <2>2 DEF After
<1>3. QED
  BY <1>2 DEF Checks

-----------------------------------------------------------------------------
(***************************************************************************)
(* Names, destinations and requests.                                       *)
(***************************************************************************)
\* A branch resolves to a destination or to none.
LEMMA TargetType ==
  ASSUME config \in ConfigRecords, NEW branch \in Branches,
         NEW upstream \in Destinations \cup {Nil}
  PROVE  TypedPushTarget(branch, upstream) \in Destinations \cup {Nil}
<1>1. /\ config.pushRemote[branch] \in Remotes \cup {Nil}
      /\ config.pushDefault \in Remotes \cup {Nil}
      /\ config.defaultRemote \in Remotes \cup {Nil}
  BY DEF ConfigRecords
<1>2. upstream # Nil => upstream[1] \in Remotes
  BY DEF Destinations
<1>3. ChosenRemote(branch, upstream) \in Remotes \cup {Nil}
  BY <1>1, <1>2 DEF ChosenRemote, OrElse
<1>4. QED
  BY <1>3 DEF TypedPushTarget, Destinations

\* A set with a URL has one to choose.
LEMMA ChosenUrl ==
  ASSUME NEW urls \in SUBSET Urls
  PROVE  /\ urls # {} => AnyOf(urls) \in Urls
         /\ SingleUrl(urls) \in Urls \cup {Nil}
<1>1. urls # {} => AnyOf(urls) \in Urls
  BY DEF AnyOf
<1>2. QED
  BY <1>1 DEF SingleUrl

\* A remote leads to a URL, and a URL to a name, or to none.
LEMMA NameType ==
  ASSUME config \in ConfigRecords, NEW remote \in Remotes
  PROVE  /\ HeadUrl(remote) \in Urls \cup {Nil}
         /\ NameOf(HeadUrl(remote)) \in Names \cup {Nil}
<1>1. config.urls[remote] \in SUBSET Urls
  BY DEF ConfigRecords
<1>2. HeadUrl(remote) \in Urls \cup {Nil}
  BY <1>1, ChosenUrl DEF HeadUrl
<1>3. QED
  BY <1>2, NameAssumption DEF NameOf

\* The base of a pull request is a name or unknown.
LEMMA BaseType ==
  ASSUME config \in ConfigRecords, NEW remote \in Remotes, NEW from \in Names
  PROVE  BaseName(remote, from) \in Names \cup {Nil}
<1>1. \A r \in Remotes : config.fetch[r] \in Urls \cup {Nil} /\ config.urls[r] \in SUBSET Urls
  BY DEF ConfigRecords
<1>2. \A u \in Urls \cup {Nil} : NameOf(u) \in Names \cup {Nil}
  BY NameAssumption DEF NameOf
<1>3. UpstreamUrl \in Urls \cup {Nil}
  BY <1>1, ChosenUrl DEF UpstreamUrl
<1>4. QED
  BY <1>1, <1>2, <1>3 DEF BaseName

\* A prompt in progress has a current request.
LEMMA RequestType ==
  ASSUME TypeOK, pc # "idle"
  PROVE  /\ queue.requests \in Prompts /\ queue.requests \in Seq(Requests)
         /\ queue.at \in 1..Len(queue.requests)
         /\ Request \in Requests
         /\ Request.kind \in {"create", "checkout", "track", "push", "open"}
         /\ Request.kind \in {"create", "checkout"} => Request.branch \in Branches
         /\ Request.kind = "track" => Request.branch \in Destinations
         /\ Request.kind \in {"push", "open"} => Request.branch \in Refs
<1>1. queue.requests \in Prompts /\ queue.at \in DOMAIN queue.requests
  BY DEF TypeOK
<1>2. queue.requests \in Seq(Requests) /\ DOMAIN queue.requests = 1..Len(queue.requests)
  BY <1>1, PullAssumption
<1>3. Request \in Requests
  BY <1>1, <1>2 DEF Request
<1>4. QED
  BY <1>1, <1>2, <1>3 DEF Requests

\* HEAD is at a commit or at a branch that may have none.
LEMMA HeadType == LocalTypeOK => HeadOid \in Oids /\ HeadRef \in Refs
  BY DEF LocalTypeOK, HeadOid, HeadRef, Oids, Refs

\* The history is a record of Booleans.
LEMMA ObserveType ==
  ASSUME TypeOK, Observe
  PROVE  since' \in [Facts -> BOOLEAN]
  BY DEF TypeOK, Observe, Nothing, Holds

-----------------------------------------------------------------------------
(***************************************************************************)
(* Types.  Beside TypeOK: where the planner has been, and so what of the   *)
(* payload is known; a pull request is opened from a whole payload.        *)
(***************************************************************************)
Pending == {"confirm", "load", "start", "after", "compare", "run"}
Named   == {"planPublished", "planBase"}
Asking  == {"planRepository", "planSource"} \cup Named
Routed  == {"planOid", "planRef", "planTo"} \cup Asking
Idle    == {"idle", "resolve", "prepare", "planStatus", "planUpstream", "planDest", "planUrl",
            "next", "before"}
Places  == Idle \cup Routed \cup Pending \cup Opening

Payload == pc \in Opening \/ (pc \in Pending /\ IsOpen(Request))
Pushing == pc \in Pending /\ Request.kind = "push"

Learned ==
  /\ pc \in {"planUpstream", "planDest"} \/ Pushing => plan.branch \in Branches
  /\ pc \in Routed \cup {"planUrl"} \/ Payload \/ Pushing => plan.dest \in Destinations
  /\ pc \in Routed \/ Payload \/ Pushing => plan.from \in Names
  /\ pc \in Asking \/ Payload => plan.to \in Names
  /\ pc \in Named \cup {"planSource"} \/ Payload => plan.repository \in Names
  /\ pc \in Named \/ Payload =>
       plan.source \in Names /\ (plan.from = plan.to => plan.source = plan.repository)
  /\ Payload => plan.base \in Branches
  /\ pc \in {"prepare", "run"} => ~IsOpen(Request)
  /\ pc \in Routed \cup {"planStatus", "planUpstream", "planDest", "planUrl"} => IsOpen(Request)
  /\ pc = "planSource" => plan.from # plan.to
  /\ pc \in {"resolve", "confirm", "load", "start"} => queue.at = 1

\* The two records that are only ever changed field by field.
Shapes ==
  /\ queue = [requests |-> queue.requests, targets |-> queue.targets, at |-> queue.at]
  /\ effect = [created |-> effect.created, reported |-> effect.reported, steps |-> effect.steps]

TypeInv == TypeOK /\ pc \in Places /\ Learned /\ Shapes

\* What is left when the state the repository, GitHub and the policy are in is
\* not touched.
LEMMA StepType ==
  ASSUME TypeOK, NEW next, Step(next)
  PROVE  /\ pc' = next
         /\ scan' = NoScan /\ scan'.place = "none"
         /\ UNCHANGED <<answers, pulls, default, changes>>
         /\ UNCHANGED <<head, tip, tracking, config, canonical, published>>
         /\ LocalTypeOK'
         /\ config' \in ConfigRecords
         /\ canonical' \in [Names -> Names]
         /\ published' \in [Names \X Branches -> Oids]
         /\ tracking' \in [Destinations -> Oids]
         /\ pulls' \subseteq Pulls
         /\ default' \in Refs
         /\ changes' \in 0..MaxChanges
         /\ since' \in [Facts -> BOOLEAN]
<1>1. /\ pc' = next /\ scan' = NoScan
      /\ UNCHANGED <<head, tip, tracking, config, canonical, published, pulls, default, changes>>
  BY DEF Step, world, answers
<1>2. since' \in [Facts -> BOOLEAN]
  BY ObserveType DEF Step
<1>3. scan'.place = "none"
  BY <1>1 DEF NoScan
<1>4. QED
  BY <1>1, <1>2, <1>3 DEF TypeOK, LocalTypeOK, answers

\* A prompt that is accepted is not the one that is missing.
LEMMA QueueType ==
  ASSUME NEW requests \in Prompts
  PROVE  /\ requests # <<>> /\ requests \in Seq(Requests) /\ 1 \in DOMAIN requests
         /\ requests[1] \in Requests
  BY PullAssumption

\* The planner adds to the payload what it has read.
LEMMA LearnType ==
  ASSUME TypeInv, NEW payload \in PlanRecords, NEW next \in Places \ {"idle"},
         pc # "idle", Learn(payload, next),
         Learned'
  PROVE  TypeInv'
<1>1. /\ plan' = payload /\ UNCHANGED <<loaded, queue, effect>> /\ Step(next)
  BY DEF Learn
<1>2. QED
  BY <1>1, StepType DEF TypeInv, TypeOK, Shapes

\* The planner keeps to its request.
LEMMA LearnGoes ==
  ASSUME NEW payload, NEW next, Learn(payload, next)
  PROVE  /\ plan' = payload /\ pc' = next /\ UNCHANGED queue
         /\ Request' = Request /\ (IsOpen(Request)' <=> IsOpen(Request))
  BY DEF Learn, Step, Request, IsOpen

LEMMA NoPlanType == NoPlan \in PlanRecords
  BY DEF NoPlan, PlanRecords, Oids, Refs

\* The steps of plan_open_pull_request.
LEMMA PlannerType ==
  ASSUME TypeInv,
         \/ ReadStatus \/ ReadUpstream \/ ReadDestination \/ ReadUrl \/ ReadHeadOid \/ ReadHeadRef
         \/ ReadBaseName \/ ReadRepository \/ ReadSource \/ ReadPublished \/ ReadBase
  PROVE  TypeInv'
<1> USE DEF Places, Idle, Named, Asking, Routed, Pending, Opening, Payload, Pushing
<1>0. /\ pc # "idle" /\ plan \in PlanRecords /\ LocalTypeOK /\ config \in ConfigRecords
      /\ canonical \in [Names -> Names] /\ loaded \in Refs
      /\ pc \notin CheckNames
  BY NamesOfChecks
     DEF TypeInv, TypeOK, ReadStatus, ReadUpstream, ReadDestination, ReadUrl, ReadHeadOid,
         ReadHeadRef, ReadBaseName, ReadRepository, ReadSource, ReadPublished, ReadBase
<1>1. CASE ReadStatus
  <2> DEFINE payload == [NoPlan EXCEPT !.branch = head, !.upstream = config.upstream[head]]
  <2>1. head \in Branches /\ config.upstream[head] \in Destinations \cup {Nil}
    BY <1>0, <1>1 DEF ReadStatus, OnBornBranch, ConfigRecords
  <2>2. payload \in PlanRecords /\ payload.branch = head
    BY <2>1, NoPlanType DEF PlanRecords, NoPlan, Refs
  <2>3. Learn(payload, "planUpstream") /\ pc = "planStatus"
    BY <1>1 DEF ReadStatus
  <2> HIDE DEF payload
  <2>4. Learned'
    BY <2>1, <2>2, <2>3, NamesOfChecks, LearnGoes DEF Learned, TypeInv
  <2>5. QED
    BY <1>0, <2>2, <2>3, <2>4, LearnType
<1>2. CASE ReadUpstream
  <2>1. Learn(plan, "planDest") /\ pc = "planUpstream"
    BY <1>2 DEF ReadUpstream
  <2>2. Learned'
    BY <2>1, NamesOfChecks, LearnGoes DEF Learned, TypeInv
  <2>3. QED
    BY <1>0, <2>1, <2>2, LearnType
<1>3. CASE ReadDestination
  <2> DEFINE dest == TypedPushTarget(plan.branch, plan.upstream)
             payload == [plan EXCEPT !.dest = dest]
  <2>1. plan.branch \in Branches /\ plan.upstream \in Destinations \cup {Nil}
    BY <1>0, <1>3 DEF ReadDestination, TypeInv, Learned, PlanRecords
  <2>2. dest \in Destinations
    BY <1>0, <1>3, <2>1, TargetType DEF ReadDestination
  <2>3. payload \in PlanRecords /\ payload.dest = dest
    BY <1>0, <2>2 DEF PlanRecords
  <2>4. Learn(payload, "planUrl") /\ pc = "planDest"
    BY <1>3 DEF ReadDestination
  <2> HIDE DEF payload, dest
  <2>5. Learned'
    BY <2>2, <2>3, <2>4, NamesOfChecks, LearnGoes DEF Learned, TypeInv
  <2>6. QED
    BY <1>0, <2>3, <2>4, <2>5, LearnType
<1>4. CASE ReadUrl
  <2> DEFINE url     == HeadUrl(plan.dest[1])
             payload == [plan EXCEPT !.url = url, !.from = NameOf(url)]
  <2>1. plan.dest \in Destinations /\ plan.dest[1] \in Remotes
    BY <1>4 DEF ReadUrl, TypeInv, Learned, Destinations
  <2>2. url \in Urls \cup {Nil} /\ NameOf(url) \in Names
    BY <1>0, <1>4, <2>1, NameType DEF ReadUrl
  <2>3. payload \in PlanRecords /\ payload.dest = plan.dest /\ payload.from = NameOf(url)
    BY <1>0, <2>2 DEF PlanRecords
  <2>4. Learn(payload, "planOid") /\ pc = "planUrl"
    BY <1>4 DEF ReadUrl
  <2> HIDE DEF payload, url
  <2>5. Learned'
    BY <2>1, <2>2, <2>3, <2>4, NamesOfChecks, LearnGoes DEF Learned, TypeInv
  <2>6. QED
    BY <1>0, <2>3, <2>4, <2>5, LearnType
<1>5. CASE ReadHeadOid
  <2> DEFINE payload == [plan EXCEPT !.oid = HeadOid]
  <2>1. payload \in PlanRecords /\ payload.dest = plan.dest /\ payload.from = plan.from
    BY <1>0, HeadType DEF PlanRecords
  <2>2. Learn(payload, "planRef") /\ pc = "planOid"
    BY <1>5 DEF ReadHeadOid
  <2> HIDE DEF payload
  <2>3. Learned'
    BY <2>1, <2>2, NamesOfChecks, LearnGoes DEF Learned, TypeInv
  <2>4. QED
    BY <1>0, <2>1, <2>2, <2>3, LearnType
<1>6. CASE ReadHeadRef
  <2> DEFINE payload == [plan EXCEPT !.ref = HeadRef]
  <2>1. payload \in PlanRecords /\ payload.dest = plan.dest /\ payload.from = plan.from
    BY <1>0, HeadType DEF PlanRecords
  <2>2. Learn(payload, "planTo") /\ pc = "planRef"
    BY <1>6 DEF ReadHeadRef
  <2> HIDE DEF payload
  <2>3. Learned'
    BY <2>1, <2>2, NamesOfChecks, LearnGoes DEF Learned, TypeInv
  <2>4. QED
    BY <1>0, <2>1, <2>2, <2>3, LearnType
<1>7. CASE ReadBaseName
  <2> DEFINE payload == [plan EXCEPT !.to = BaseName(plan.dest[1], plan.from)]
  <2>1. pc = "planTo" /\ plan.dest[1] \in Remotes /\ plan.from \in Names
    BY <1>7 DEF ReadBaseName, TypeInv, Learned, Destinations
  <2>2. BaseName(plan.dest[1], plan.from) \in Names
    BY <1>0, <1>7, <2>1, BaseType DEF ReadBaseName
  <2>3. /\ payload \in PlanRecords /\ payload.dest = plan.dest /\ payload.from = plan.from
        /\ payload.to \in Names
    BY <1>0, <2>2 DEF PlanRecords
  <2>4. Learn(payload, "planRepository")
    BY <1>7 DEF ReadBaseName
  <2> HIDE DEF payload
  <2>5. Learned'
    BY <2>1, <2>3, <2>4, NamesOfChecks, LearnGoes DEF Learned, TypeInv
  <2>6. QED
    BY <1>0, <2>3, <2>4, <2>5, LearnType
<1>8. CASE ReadRepository
  <2> DEFINE answer == canonical[plan.to]
             both   == [plan EXCEPT !.repository = answer, !.source = answer]
             one    == [plan EXCEPT !.repository = answer]
  <2>1. pc = "planRepository" /\ plan.to \in Names /\ plan.from \in Names
    BY <1>8 DEF ReadRepository, TypeInv, Learned
  <2>2. answer \in Names
    BY <1>0, <2>1
  <2>3. /\ both \in PlanRecords /\ both.dest = plan.dest /\ both.from = plan.from
        /\ both.to = plan.to /\ both.repository \in Names /\ both.source = both.repository
        /\ one \in PlanRecords /\ one.dest = plan.dest /\ one.from = plan.from
        /\ one.to = plan.to /\ one.repository \in Names
    BY <1>0, <2>2 DEF PlanRecords
  <2>4. \/ plan.from = plan.to /\ Learn(both, "planPublished")
        \/ plan.from # plan.to /\ Learn(one, "planSource")
    BY <1>8 DEF ReadRepository
  <2> HIDE DEF both, one, answer
  <2>5. Learned'
    BY <2>1, <2>3, <2>4, NamesOfChecks, LearnGoes DEF Learned, TypeInv
  <2>6. QED
    BY <1>0, <2>3, <2>4, <2>5, LearnType
<1>9. CASE ReadSource
  <2> DEFINE payload == [plan EXCEPT !.source = canonical[plan.from]]
  <2>1. /\ pc = "planSource" /\ plan.to \in Names /\ plan.from \in Names
        /\ plan.repository \in Names
    BY <1>9 DEF ReadSource, TypeInv, Learned
  <2>2. canonical[plan.from] \in Names
    BY <1>0, <2>1
  <2>3. /\ payload \in PlanRecords /\ payload.dest = plan.dest /\ payload.from = plan.from
        /\ payload.to = plan.to /\ payload.repository = plan.repository
        /\ payload.source \in Names
    BY <1>0, <2>2 DEF PlanRecords
  <2>4. Learn(payload, "planPublished")
    BY <1>9 DEF ReadSource
  <2>5. plan.from # plan.to
    BY <2>1 DEF TypeInv, Learned
  <2> HIDE DEF payload
  <2>6. Learned'
    BY <2>1, <2>3, <2>4, <2>5, NamesOfChecks, LearnGoes DEF Learned, TypeInv
  <2>7. QED
    BY <1>0, <2>3, <2>4, <2>6, LearnType
<1>10. CASE ReadPublished
  <2>1. Learn(plan, "planBase") /\ pc = "planPublished"
    BY <1>10 DEF ReadPublished
  <2>2. Learned'
    BY <2>1, NamesOfChecks, LearnGoes DEF Learned, TypeInv
  <2>3. QED
    BY <1>0, <2>1, <2>2, LearnType
<1>11. CASE ReadBase
  <2> DEFINE base == BaseBranch(Request.branch)
             payload == [plan EXCEPT !.base = base]
  <2>0. IsOpen(Request)
    BY <1>11 DEF ReadBase, TypeInv, Learned
  <2>1. base \in Branches
    BY <1>0, <2>0, RequestType, NameAssumption DEF TypeInv, BaseBranch, OrElse, Refs, IsOpen
  <2>2. /\ payload \in PlanRecords /\ payload.dest = plan.dest /\ payload.from = plan.from
        /\ payload.to = plan.to /\ payload.repository = plan.repository
        /\ payload.source = plan.source /\ payload.base \in Branches
    BY <1>0, <2>1 DEF PlanRecords, Refs
  <2>3. /\ Learn(payload, Planned) /\ pc = "planBase"
        /\ Planned \in {"confirm", "after", "compare"}
        /\ Planned = "confirm" => queue.at = 1
    BY <1>11 DEF ReadBase, Planned
  <2> HIDE DEF payload, base
  <2>4. Learned'
    BY <2>0, <2>2, <2>3, NamesOfChecks, LearnGoes DEF Learned, TypeInv, IsOpen
  <2>5. QED
    BY <1>0, <2>2, <2>3, <2>4, LearnType
<1>12. QED
  BY <1>1, <1>2, <1>3, <1>4, <1>5, <1>6, <1>7, <1>8, <1>9, <1>10, <1>11

\* A step that goes to another place, with the prompt and its payload kept.
LEMMA GoType ==
  ASSUME TypeInv, pc # "idle", NEW next \in Places \ {"idle"}, Step(next),
         UNCHANGED <<queue, plan, effect>>, loaded' \in Refs,
         Learned'
  PROVE  TypeInv'
<1>1. queue' = NoQueue \/ (queue'.requests \in Prompts /\ queue'.at \in DOMAIN queue'.requests)
  BY DEF TypeInv, TypeOK
<1>2. QED
  BY <1>1, StepType DEF TypeInv, TypeOK, Shapes

\* Where a prompt begins, and what follows the confirmation.
LEMMA ControlType ==
  ASSUME TypeInv,
         \/ Preview \/ Confirm \/ LoadPolicy \/ StartSequence \/ CheckBefore \/ CheckAfter
         \/ Compare \/ Check
         \/ \E requests \in Prompts : Submit(requests)
  PROVE  TypeInv'
<1> USE NamesOfChecks
    DEF Places, Idle, Named, Asking, Routed, Pending, Opening, Payload, Pushing
<1>0. TypeOK /\ Learned /\ default \in Refs /\ loaded \in Refs
  BY DEF TypeInv, TypeOK
<1>1. ASSUME NEW requests \in Prompts, Submit(requests) PROVE TypeInv'
  <2> DEFINE next == IF Len(requests) > 1 THEN "resolve" ELSE PlanFrom(requests[1])
  <2>1. /\ queue' = [requests |-> requests, targets |-> [i \in DOMAIN requests |-> Nil],
                     at |-> 1]
        /\ loaded' = default /\ plan' = plan /\ Step(next) /\ pc = "idle"
    BY <1>1 DEF Submit, NoQueue
  <2>2. Request' = requests[1] /\ (IsOpen(Request)' <=> IsOpen(requests[1]))
    BY <2>1 DEF Request, IsOpen
  <2>3. /\ next \in {"resolve", "planStatus", "prepare"}
        /\ next = "prepare" => ~IsOpen(requests[1])
        /\ next = "planStatus" => IsOpen(requests[1])
    BY DEF PlanFrom
  <2>4. queue' # NoQueue /\ queue'.requests \in Prompts /\ queue'.at \in DOMAIN queue'.requests
    BY <2>1, QueueType DEF NoQueue
  <2> HIDE DEF next
  <2>5. Learned'
    BY <1>0, <2>1, <2>2, <2>3, StepType DEF Learned
  <2>6. Shapes'
    BY <1>1, <2>1 DEF Submit, Shapes, NoEffect
  <2>7. QED
    BY <1>0, <2>1, <2>3, <2>4, <2>5, <2>6, StepType DEF TypeInv, TypeOK
<1>2. CASE Preview
  <2>1. queue' = [queue EXCEPT !.targets = scan.targets]
    BY <1>2 DEF Preview
  <2>2. pc = "resolve" /\ UNCHANGED <<loaded, plan, effect>> /\ Step(PlanFrom(Request))
    BY <1>2 DEF Preview
  <2>3. queue.requests \in Prompts /\ queue.at \in DOMAIN queue.requests /\ queue.at = 1
    BY <1>0, <2>2, RequestType DEF TypeOK, Learned
  <2>4. queue'.requests = queue.requests /\ queue'.at = queue.at /\ queue' # NoQueue
    <3>1. queue' = [requests |-> queue.requests, targets |-> scan.targets, at |-> queue.at]
      BY <2>1 DEF TypeInv, Shapes
    <3>2. QED
      BY <2>3, <3>1 DEF NoQueue
  <2>5. Request' = Request /\ IsOpen(Request)' = IsOpen(Request)
    BY <2>4 DEF Request, IsOpen
  <2>6. PlanFrom(Request) = IF IsOpen(Request) THEN "planStatus" ELSE "prepare"
    BY DEF PlanFrom
  <2>7. Shapes'
    BY <2>1, <2>2 DEF TypeInv, Shapes
  <2>8. pc' \in {"planStatus", "prepare"} /\ (pc' = "planStatus" <=> IsOpen(Request))
    BY <1>0, <2>2, <2>6, StepType
  <2>9. Learned'
    BY <1>0, <2>2, <2>3, <2>4, <2>5, <2>8 DEF Learned
  <2>10. QED
    BY <1>0, <2>2, <2>3, <2>4, <2>7, <2>8, <2>9, StepType DEF TypeInv, TypeOK
<1>3. CASE Confirm
  <2>1. pc = "confirm" /\ UNCHANGED <<loaded, queue, plan, effect>>
        /\ Step(IF IsSequence THEN "load" ELSE Dispatch(Request))
    BY <1>3 DEF Confirm
  <2>2. Dispatch(Request) = IF IsOpen(Request) THEN "oid" ELSE "run"
    BY DEF Dispatch, Checks
  <2>3. Request' = Request /\ (IsOpen(Request)' <=> IsOpen(Request))
    BY <2>1 DEF Request, IsOpen
  <2>4. pc' \in {"load", "oid", "run"} /\ (pc' = "run" => ~IsOpen(Request))
        /\ (pc' = "oid" => IsOpen(Request))
    BY <2>1, <2>2, StepType, <1>0
  <2>5. Learned'
    BY <1>0, <2>1, <2>3, <2>4 DEF Learned
  <2>6. QED
    BY <1>0, <2>1, <2>2, <2>5, GoType
<1>4. CASE LoadPolicy
  <2>1. /\ pc \in {"load", "next"} /\ UNCHANGED <<queue, plan, effect>> /\ loaded' = default
        /\ Step(IF pc = "load" THEN "start"
                ELSE IF Downstream THEN "before" ELSE PlanFrom(Request))
    BY <1>4 DEF LoadPolicy
  <2>2. PlanFrom(Request) = IF IsOpen(Request) THEN "planStatus" ELSE "prepare"
    BY DEF PlanFrom
  <2>3. Request' = Request /\ (IsOpen(Request)' <=> IsOpen(Request))
    BY <2>1 DEF Request, IsOpen
  <2>4. \/ pc' = "start" /\ pc = "load"
        \/ pc' = "before"
        \/ pc' = "planStatus" /\ IsOpen(Request)
        \/ pc' = "prepare" /\ ~IsOpen(Request)
    BY <2>1, <2>2, StepType, <1>0
  <2>5. Learned'
    BY <1>0, <2>1, <2>3, <2>4 DEF Learned
  <2>6. QED
    BY <1>0, <2>1, <2>2, <2>5, GoType
<1>5. CASE StartSequence \/ Compare
  <2>1. /\ pc \in {"start", "compare"} /\ UNCHANGED <<queue, plan, effect>>
        /\ loaded' \in {loaded, default}
        /\ Step(Dispatch(Request))
    BY <1>5 DEF StartSequence, Compare
  <2>2. Dispatch(Request) = IF IsOpen(Request) THEN "oid" ELSE "run"
    BY DEF Dispatch, Checks
  <2>3. Request' = Request /\ (IsOpen(Request)' <=> IsOpen(Request))
    BY <2>1 DEF Request, IsOpen
  <2>4. \/ pc' = "oid" /\ IsOpen(Request)
        \/ pc' = "run" /\ ~IsOpen(Request)
    BY <2>1, <2>2, StepType, <1>0
  <2>5. Learned'
    BY <1>0, <2>1, <2>3, <2>4 DEF Learned
  <2>6. QED
    BY <1>0, <2>1, <2>2, <2>5, GoType
<1>6. CASE CheckBefore
  <2>1. /\ pc = "before" /\ UNCHANGED <<queue, plan, effect>> /\ loaded' = default
        /\ Step(PlanFrom(Request))
    BY <1>6 DEF CheckBefore
  <2>2. PlanFrom(Request) = IF IsOpen(Request) THEN "planStatus" ELSE "prepare"
    BY DEF PlanFrom
  <2>3. Request' = Request /\ (IsOpen(Request)' <=> IsOpen(Request))
    BY <2>1 DEF Request, IsOpen
  <2>4. \/ pc' = "planStatus" /\ IsOpen(Request)
        \/ pc' = "prepare" /\ ~IsOpen(Request)
    BY <2>1, <2>2, StepType, <1>0
  <2>5. Learned'
    BY <1>0, <2>1, <2>3, <2>4 DEF Learned
  <2>6. QED
    BY <1>0, <2>1, <2>2, <2>5, GoType
<1>7. CASE CheckAfter
  <2>1. /\ pc = "after" /\ UNCHANGED <<queue, plan, effect>> /\ loaded' = default
        /\ Step("compare")
    BY <1>7 DEF CheckAfter
  <2>2. Request' = Request /\ (IsOpen(Request)' <=> IsOpen(Request))
    BY <2>1 DEF Request, IsOpen
  <2>3. Learned'
    BY <1>0, <2>1, <2>2, StepType DEF Learned
  <2>4. QED
    BY <1>0, <2>1, <2>3, GoType
<1>8. CASE Check
  <2>1. /\ pc \in CheckNames /\ UNCHANGED <<loaded, queue, plan, effect>>
        /\ Step(After(pc))
    BY <1>8 DEF Check
  <2>2. After(pc) \in Opening
    BY <2>1, OrderOfChecks
  <2>3. pc' = After(pc) /\ Request' = Request /\ (IsOpen(Request)' <=> IsOpen(Request))
    BY <1>0, <2>1, StepType DEF Request, IsOpen
  <2>4. Learned'
    BY <1>0, <2>1, <2>2, <2>3 DEF Learned
  <2>5. QED
    BY <1>0, <2>1, <2>2, <2>4, GoType
<1>9. QED
  BY <1>1, <1>2, <1>3, <1>4, <1>5, <1>6, <1>7, <1>8

\* The steps of a resolution.
LEMMA ResolveType ==
  ASSUME TypeInv, Begin \/ FollowBranch \/ AimRequest
  PROVE  TypeInv'
<1>1. /\ pc \in Resolving /\ Observe
      /\ UNCHANGED <<head, tip, tracking, config, canonical, published, pulls, default, loaded,
                     queue, plan, pc, effect, changes>>
  BY DEF Begin, FollowBranch, AimRequest, Resolve, world, answers
<1>2. since' \in [Facts -> BOOLEAN]
  BY <1>1, ObserveType DEF TypeInv
<1>3. Learned' /\ Shapes'
  BY <1>1 DEF TypeInv, Learned, Shapes, Payload, Pushing, Request, IsOpen
<1>4. QED
  BY <1>1, <1>2, <1>3 DEF TypeInv, TypeOK, LocalTypeOK

\* The payload of any other step.
LEMMA PrepareType ==
  ASSUME TypeInv, Prepare
  PROVE  TypeInv'
<1> USE NamesOfChecks
    DEF Places, Idle, Named, Asking, Routed, Pending, Opening, Payload, Pushing
<1>0. TypeOK /\ Learned /\ LocalTypeOK /\ config \in ConfigRecords /\ loaded \in Refs
  BY DEF TypeInv, TypeOK
<1> DEFINE snapshot == [NoPlan EXCEPT !.branch = HeadRef, !.oid = HeadOid]
<1>1. /\ pc = "prepare" /\ pc # "idle" /\ ~IsOpen(Request)
      /\ UNCHANGED <<loaded, queue, effect>> /\ Step(Planned)
      /\ Planned \in {"confirm", "after", "compare"}
      /\ Planned = "confirm" => queue.at = 1
  BY <1>0 DEF Prepare, Planned, Learned
<1>2. snapshot \in PlanRecords
  BY <1>0, HeadType DEF PlanRecords, NoPlan, Oids, Refs
<1>3. /\ plan' \in PlanRecords
      /\ Request.kind = "push" =>
           plan'.branch \in Branches /\ plan'.dest \in Destinations /\ plan'.from \in Names
  <2>1. CASE Request.kind = "create"
    BY <1>2, <2>1 DEF Prepare
  <2>2. CASE Request.kind = "checkout"
    <3>1. tip[Request.branch] \in Oids
      BY <1>0, <1>1, <2>2, RequestType DEF LocalTypeOK
    <3>2. plan' = [snapshot EXCEPT !.target = tip[Request.branch]]
      BY <2>2 DEF Prepare
    <3> HIDE DEF snapshot
    <3>3. QED
      BY <1>2, <2>2, <3>1, <3>2 DEF PlanRecords
  <2>3. CASE Request.kind = "track"
    <3>1. tracking[Request.branch] \in Oids
      BY <1>0, <1>1, <2>3, RequestType DEF TypeOK
    <3>2. plan' = [snapshot EXCEPT !.target = tracking[Request.branch]]
      BY <2>3 DEF Prepare
    <3> HIDE DEF snapshot
    <3>3. QED
      BY <1>2, <2>3, <3>1, <3>2 DEF PlanRecords
  <2>4. CASE Request.kind \notin {"create", "checkout", "track"}
    <3> DEFINE upstream == config.upstream[head]
               dest     == TypedPushTarget(head, upstream)
               name     == NameOf(HeadUrl(dest[1]))
    <3>1. head \in Branches /\ upstream \in Destinations \cup {Nil} /\ HeadRef = head
      BY <1>0, <2>4 DEF Prepare, OnBornBranch, ConfigRecords, HeadRef
    <3>2. dest # Nil /\ name # Nil
      BY <2>4 DEF Prepare
    <3>3. dest \in Destinations /\ dest[1] \in Remotes
      BY <1>0, <3>1, <3>2, TargetType DEF Destinations
    <3>4. name \in Names
      BY <1>0, <3>2, <3>3, NameType
    <3>5. plan' = [snapshot EXCEPT !.upstream = upstream, !.dest = dest, !.from = name]
      BY <2>4 DEF Prepare
    <3>6. snapshot.branch = head
      BY <3>1 DEF NoPlan
    <3> HIDE DEF snapshot, upstream, dest, name
    <3>7. QED
      BY <1>2, <3>1, <3>3, <3>4, <3>5, <3>6 DEF PlanRecords
  <2>5. QED
    BY <2>1, <2>2, <2>3, <2>4
<1>4. Request' = Request /\ (IsOpen(Request)' <=> IsOpen(Request)) /\ pc' = Planned
  BY <1>0, <1>1, StepType DEF Request, IsOpen
<1>5. Learned'
  BY <1>0, <1>1, <1>3, <1>4 DEF Learned
<1>6. QED
  BY <1>0, <1>1, <1>3, <1>5, StepType DEF TypeInv, TypeOK, Shapes

\* What is left of a prompt whose current step has succeeded.
LEMMA AdvanceType ==
  ASSUME TypeInv, pc # "idle", scan.place = "none", Advance, Observe,
         LocalTypeOK', config' \in ConfigRecords, UNCHANGED canonical,
         published' \in [Names \X Branches -> Oids], tracking' \in [Destinations -> Oids],
         pulls' \subseteq Pulls,
         effect' = [created |-> effect'.created, reported |-> effect'.reported,
                    steps |-> effect'.steps]
  PROVE  TypeInv'
<1> USE DEF Places, Idle, Named, Asking, Routed, Pending, Payload, Pushing
<1>1. /\ queue.requests \in Prompts /\ queue.requests \in Seq(Requests)
      /\ queue.at \in 1..Len(queue.requests) /\ queue # NoQueue
  BY RequestType DEF TypeInv, TypeOK
<1>2. /\ plan' = NoPlan /\ pc' = (IF IsLast THEN "idle" ELSE "next")
      /\ UNCHANGED <<loaded, scan, default, changes>>
      /\ queue' = IF IsLast THEN NoQueue ELSE [queue EXCEPT !.at = queue.at + 1]
  BY DEF Advance
<1>3. since' \in [Facts -> BOOLEAN]
  BY ObserveType DEF TypeInv
<1>4. ~IsLast => /\ queue'.requests \in Prompts /\ queue'.at \in DOMAIN queue'.requests
                 /\ queue' # NoQueue
  <2> SUFFICES ASSUME ~IsLast
               PROVE  /\ queue'.requests \in Prompts /\ queue'.at \in DOMAIN queue'.requests
                      /\ queue' # NoQueue
    OBVIOUS
  <2>1. queue.at + 1 \in 1..Len(queue.requests)
    BY <1>1 DEF IsLast
  <2>2. queue' = [requests |-> queue.requests, targets |-> queue.targets, at |-> queue.at + 1]
    BY <1>2 DEF TypeInv, Shapes
  <2>3. QED
    BY <1>1, <2>1, <2>2 DEF NoQueue
<1>5. Learned'
  BY <1>2, NamesOfChecks DEF Learned, Opening
<1>6. Shapes'
  BY <1>2 DEF TypeInv, Shapes, NoQueue
<1>7. QED
  BY <1>2, <1>3, <1>4, <1>5, <1>6, NoPlanType DEF TypeInv, TypeOK

\* A first push, or a tracking checkout, binds the upstream of its branch.
LEMMA BindType ==
  ASSUME config \in ConfigRecords, NEW branch \in Branches, NEW dest \in Destinations
  PROVE  [config EXCEPT !.upstream[branch] = dest] \in ConfigRecords
<1>1. config.upstream \in [Branches -> Destinations \cup {Nil}]
  BY DEF ConfigRecords
<1>2. [config.upstream EXCEPT ![branch] = dest] \in [Branches -> Destinations \cup {Nil}]
  BY <1>1
<1>3. QED
  BY <1>2 DEF ConfigRecords

\* A step before the pull request.
LEMMA RunType ==
  ASSUME TypeInv, RunStep
  PROVE  TypeInv'
<1>0. /\ pc = "run" /\ pc # "idle" /\ TypeOK /\ LocalTypeOK /\ config \in ConfigRecords
      /\ canonical \in [Names -> Names] /\ published \in [Names \X Branches -> Oids]
      /\ tracking \in [Destinations -> Oids] /\ scan.place = "none"
      /\ pulls \subseteq Pulls /\ ~IsOpen(Request) /\ plan \in PlanRecords
  BY DEF RunStep, TypeInv, TypeOK, Learned, Resolving, Rechecking
<1>1. /\ Request.kind \in {"create", "checkout", "track", "push", "open"}
      /\ Request.kind \in {"create", "checkout"} => Request.branch \in Branches
      /\ Request.kind = "track" => Request.branch \in Destinations
  BY <1>0, RequestType
<1>2. plan.oid \in Oids /\ plan.target \in Oids
  BY <1>0 DEF PlanRecords
<1>3. /\ LocalTypeOK' /\ config' \in ConfigRecords
      /\ published' \in [Names \X Branches -> Oids]
      /\ tracking' \in [Destinations -> Oids]
  <2>1. CASE Request.kind = "create"
    BY <1>0, <1>1, <1>2, <2>1 DEF RunStep, LocalTypeOK
  <2>2. CASE Request.kind = "checkout"
    BY <1>0, <1>1, <2>2 DEF RunStep, LocalTypeOK
  <2>3. CASE Request.kind = "track"
    <3>1. Request.branch \in Destinations /\ Request.branch[2] \in Branches
      BY <1>1, <2>3 DEF Destinations
    <3>2. /\ tip' = [tip EXCEPT ![Request.branch[2]] = plan.target]
          /\ head' = Request.branch[2]
          /\ config' = [config EXCEPT !.upstream[Request.branch[2]] = Request.branch]
          /\ UNCHANGED <<tracking, published>>
      BY <2>3 DEF RunStep
    <3> DEFINE name     == Request.branch[2]
               upstream == Request.branch
    <3>3. config' = [config EXCEPT !.upstream[name] = upstream]
      BY <3>2
    <3>4. name \in Branches /\ upstream \in Destinations
      BY <3>1
    <3> HIDE DEF name, upstream
    <3>5. config' \in ConfigRecords
      BY <1>0, <3>3, <3>4, BindType
    <3>6. QED
      BY <1>0, <1>2, <3>1, <3>2, <3>5 DEF LocalTypeOK
  <2>4. CASE Request.kind \notin {"create", "checkout", "track"}
    <3>1. Request.kind = "push"
      BY <1>0, <1>1, <2>4 DEF IsOpen
    <3>2. plan.dest \in Destinations /\ plan.from \in Names /\ plan.branch \in Branches
      BY <1>0, <3>1 DEF TypeInv, Learned, Pushing, Pending
    <3>3. plan.dest[1] \in Remotes /\ plan.dest[2] \in Branches
      BY <3>2 DEF Destinations
    <3>4. <<plan.dest[1], plan.branch>> \in Destinations
      BY <3>2, <3>3 DEF Destinations
    <3>5. /\ published' = [published EXCEPT ![<<canonical[plan.from], plan.dest[2]>>] = plan.oid]
          /\ tracking' = [tracking EXCEPT ![plan.dest] = plan.oid]
          /\ config' \in {config, [config EXCEPT !.upstream[plan.branch]
                                                   = <<plan.dest[1], plan.branch>>]}
          /\ UNCHANGED <<head, tip>>
      BY <2>4 DEF RunStep
    <3>6. config' \in ConfigRecords
      <4> DEFINE name     == plan.branch
                 upstream == <<plan.dest[1], plan.branch>>
      <4>1. config' \in {config, [config EXCEPT !.upstream[name] = upstream]}
        BY <3>5
      <4>2. name \in Branches /\ upstream \in Destinations
        BY <3>2, <3>4
      <4> HIDE DEF name, upstream
      <4>3. QED
        BY <1>0, <4>1, <4>2, BindType
    <3>7. published' \in [Names \X Branches -> Oids] /\ tracking' \in [Destinations -> Oids]
      BY <1>0, <1>2, <3>5
    <3>8. QED
      BY <1>0, <3>5, <3>6, <3>7 DEF LocalTypeOK
  <2>5. QED
    BY <2>1, <2>2, <2>3, <2>4
<1>4. Advance /\ Observe /\ UNCHANGED <<canonical, pulls>>
  BY DEF RunStep
<1>5. effect' = [created |-> effect'.created, reported |-> effect'.reported,
                 steps |-> effect'.steps]
  BY DEF RunStep, TypeInv, Shapes
<1>6. QED
  BY <1>0, <1>3, <1>4, <1>5, AdvanceType

\* A whole payload makes pull requests between known repositories.
LEMMA CreatedType ==
  ASSUME TypeInv, pc \in Opening
  PROVE  /\ Created \in Pulls
         /\ PlannedTarget \in Pulls
         /\ plan.to \in Names /\ canonical[plan.to] \in Names
         /\ plan.repository \in Names /\ plan.source \in Names
<1>1. /\ plan.dest \in Destinations /\ plan.to \in Names /\ plan.base \in Branches
      /\ plan.repository \in Names /\ plan.source \in Names
  BY DEF TypeInv, Learned, Payload
<1>2. plan.dest[2] \in Branches /\ canonical[plan.to] \in Names
  BY <1>1 DEF Destinations, TypeInv, TypeOK
<1>3. PlannedTarget \in Pulls
  BY <1>1, <1>2 DEF PlannedTarget, Pulls
<1>4. QED
  BY <1>1, <1>2, <1>3 DEF Created, PlannedTarget, Pulls

\* Opening the pull request, or reporting the one that is there.
LEMMA OpenType ==
  ASSUME TypeInv, Surface \/ Create \/ CreateFails \/ SearchAgain
  PROVE  TypeInv'
<1>0. /\ pc \in Opening /\ pc # "idle" /\ pc \notin {"prepare", "run"} /\ pc \notin Resolving
      /\ scan.place = "none"
      /\ TypeOK /\ LocalTypeOK /\ config \in ConfigRecords
      /\ tracking \in [Destinations -> Oids]
      /\ published \in [Names \X Branches -> Oids] /\ pulls \subseteq Pulls
  BY NamesOfChecks DEF Surface, Create, CreateFails, SearchAgain, Opening, TypeInv, TypeOK,
                       Resolving, Rechecking
<1>1. CASE Surface \/ Create \/ SearchAgain
  <2>1. /\ Advance /\ Observe
        /\ UNCHANGED <<head, tip, tracking, config, canonical, published>>
        /\ pulls' \subseteq Pulls
    BY <1>0, <1>1, CreatedType DEF Surface, Create, SearchAgain, Report, answers
  <2>2. effect' = [created |-> effect'.created, reported |-> effect'.reported,
                   steps |-> effect'.steps]
    BY <1>1 DEF Surface, Create, SearchAgain, Report, TypeInv, Shapes
  <2>3. /\ LocalTypeOK' /\ config' \in ConfigRecords /\ tracking' \in [Destinations -> Oids]
        /\ published' \in [Names \X Branches -> Oids]
    BY <1>0, <2>1 DEF LocalTypeOK
  <2>4. QED
    BY <1>0, <2>1, <2>2, <2>3, AdvanceType
<1>2. CASE CreateFails
  <2>1. /\ pc = "create" /\ pc' = "search" /\ Observe
        /\ UNCHANGED <<head, tip, tracking, config, canonical, published, default, loaded,
                       queue, scan, plan, changes>>
        /\ pulls' \subseteq Pulls
    BY <1>0, <1>2, CreatedType DEF CreateFails, answers
  <2>2. Shapes'
    BY <1>2 DEF CreateFails, TypeInv, Shapes
  <2>3. Learned'
    BY <1>0, <2>1, NamesOfChecks
       DEF TypeInv, Learned, Payload, Pushing, Pending, Opening, Routed, Asking, Named
  <2>4. QED
    BY <1>0, <2>1, <2>2, <2>3, ObserveType DEF TypeInv, TypeOK, LocalTypeOK, Places, Opening
<1>3. QED
  BY <1>1, <1>2

\* Refusals and everybody else.
LEMMA OthersType ==
  ASSUME TypeInv, \/ Refuse
         \/ OtherClient \/ EditConfig \/ EditPolicy \/ Rename \/ OtherFetch \/ OtherPush
         \/ OtherPullRequest
  PROVE  TypeInv'
<1>0. TypeOK /\ LocalTypeOK /\ Shapes /\ Learned
  BY DEF TypeInv, TypeOK
<1>1. CASE Refuse
  <2>1. /\ plan' = NoPlan /\ queue' = NoQueue /\ UNCHANGED <<loaded, effect>> /\ Step("idle")
    BY <1>1 DEF Refuse
  <2>2. Learned' /\ Shapes'
    BY <1>0, <2>1, StepType, NamesOfChecks
       DEF Learned, Shapes, NoQueue, Routed, Asking, Named, Payload, Pushing, Pending, Opening
  <2>3. QED
    BY <1>0, <2>1, <2>2, NoPlanType, StepType DEF TypeInv, TypeOK, Places, Idle
<1>2. CASE \/ OtherClient \/ EditConfig \/ EditPolicy \/ Rename \/ OtherFetch \/ OtherPush
           \/ OtherPullRequest
  <2> USE <1>0, <1>2
      DEF OtherClient, EditConfig, EditPolicy, Rename, OtherFetch, OtherPush, OtherPullRequest
  <2>1. /\ UNCHANGED <<loaded, queue, scan, plan, pc, effect>> /\ Observe
        /\ changes' \in 0..MaxChanges
    BY PullAssumption DEF Changing, TypeOK
  <2>2. head' \in Branches \cup Commits /\ tip' \in [Branches -> Oids]
    BY DEF OtherLocalClient, SwitchHead, MoveBranch, LocalTypeOK, answers
  <2>3. config' \in ConfigRecords
    BY PushAssumption DEF TypeOK, answers
  <2>4. canonical' \in [Names -> Names]
    BY DEF TypeOK, answers
  <2>5. published' \in [Names \X Branches -> Oids]
    BY DEF TypeOK, answers
  <2>6. pulls' \subseteq Pulls
    BY PullAssumption DEF TypeOK, answers
  <2>7. default' \in Refs
    BY DEF TypeOK
  <2>8. tracking' \in [Destinations -> Oids]
    <3>1. CASE OtherFetch
      <4>1. PICK d \in Destinations :
                   /\ NameOf(config.fetch[d[1]]) # Nil
                   /\ tracking' = [tracking EXCEPT
                                     ![d] = BranchOid(NameOf(config.fetch[d[1]]), d[2])]
        BY <3>1
      <4>2. d[1] \in Remotes /\ d[2] \in Branches /\ config.fetch[d[1]] \in Urls \cup {Nil}
        BY <4>1 DEF Destinations, TypeOK, ConfigRecords
      <4>3. NameOf(config.fetch[d[1]]) \in Names
        BY <4>1, <4>2, NameAssumption DEF NameOf
      <4>4. BranchOid(NameOf(config.fetch[d[1]]), d[2]) \in Oids
        BY <4>2, <4>3 DEF BranchOid, TypeOK
      <4>5. QED
        BY <4>1, <4>4 DEF TypeOK
    <3>2. CASE ~OtherFetch
      BY <3>2 DEF TypeOK, answers
    <3>3. QED
      BY <3>1, <3>2
  <2>9. since' \in [Facts -> BOOLEAN]
    BY <2>1, ObserveType
  <2>10. Learned' /\ Shapes'
    BY <2>1 DEF Learned, Shapes, Payload, Pushing, Request, IsOpen
  <2>11. QED
    BY <2>1, <2>2, <2>3, <2>4, <2>5, <2>6, <2>7, <2>8, <2>9, <2>10
       DEF TypeInv, TypeOK, LocalTypeOK
<1>3. QED
  BY <1>1, <1>2

\* Every action keeps the types.
LEMMA TypeStep == TypeInv /\ [Next]_vars => TypeInv'
<1> SUFFICES ASSUME TypeInv, [Next]_vars PROVE TypeInv'
  OBVIOUS
<1>1. CASE UNCHANGED vars
  BY <1>1 DEF vars, world, answers, TypeInv, TypeOK, LocalTypeOK, Learned, Shapes, Payload,
              Pushing, Request, IsOpen
<1>2. QED
  BY <1>1, PlannerType, ControlType, ResolveType, PrepareType, RunType, OpenType, OthersType
     DEF Next

\* The initial states have the types.
LEMMA InitType == Init => TypeInv
<1> SUFFICES ASSUME Init PROVE TypeInv
  OBVIOUS
<1>1. TypeOK
  BY NoPlanType, PushAssumption, PullAssumption
     DEF Init, TypeOK, LocalTypeOK, Nothing, Refs, NoScan
<1>2. Learned /\ Shapes /\ pc \in Places
  BY NamesOfChecks
     DEF Init, Learned, Shapes, NoQueue, NoEffect, Places, Idle, Routed, Asking, Named,
         Payload, Pushing, Pending, Opening
<1>3. QED
  BY <1>1, <1>2 DEF TypeInv

\* Reachable states have their types, and a payload is there only while its
\* prompt is, for prompts of any length.
THEOREM TypeCorrect == Spec => []TypeOK
<1>1. TypeInv => TypeOK
  BY DEF TypeInv
<1>2. QED
  BY <1>1, InitType, TypeStep, PTL DEF Spec

-----------------------------------------------------------------------------
(***************************************************************************)
(* Induction, as in Local_proofs: a set of positions has a least one.      *)
(***************************************************************************)
\* Every set of natural numbers but the empty one has a least element.
LEMMA LeastNatural ==
  ASSUME NEW T \in SUBSET Nat, T # {}
  PROVE  \E n \in T : \A m \in T : n <= m
<1>1. \E R : /\ IsWellFoundedOn(R, Nat)
             /\ \A x, y \in Nat : <<y, x>> \in R <=> y < x
  <2> DEFINE R == OpToRel(<, Nat)
  <2>1. IsWellFoundedOn(R, Nat)
    BY NatLessThanWellFounded
  <2>2. \A x, y \in Nat : <<y, x>> \in R <=> y < x
    BY DEF OpToRel
  <2> HIDE DEF R
  <2>3. QED
    BY <2>1, <2>2
<1>2. PICK R : /\ IsWellFoundedOn(R, Nat)
               /\ \A x, y \in Nat : <<y, x>> \in R <=> y < x
  BY <1>1
<1>3. PICK x \in T : \A y \in T : ~ (<<y, x>> \in R)
  BY <1>2, WFMin
<1>4. \A y \in T : ~ (y < x)
  <2> SUFFICES ASSUME NEW y \in T PROVE ~ (y < x)
    OBVIOUS
  <2>1. x \in Nat /\ y \in Nat /\ ~ (<<y, x>> \in R)
    BY <1>3
  <2>2. QED
    BY <1>2, <2>1
<1>5. QED
  BY <1>4

LEMMA SetInduction ==
  ASSUME NEW S, 0 \in S, \A n \in Nat : n \in S => n + 1 \in S
  PROVE  Nat \subseteq S
<1> SUFFICES ASSUME ~(Nat \subseteq S) PROVE FALSE
  OBVIOUS
<1>1. PICK n \in Nat \ S : \A m \in Nat \ S : n <= m
  BY LeastNatural
<1>2. n # 0 /\ n - 1 \in Nat
  BY <1>1
<1>3. n - 1 \in S
  BY <1>1, <1>2
<1>4. QED
  BY <1>1, <1>2, <1>3

-----------------------------------------------------------------------------
(***************************************************************************)
(* The branch through the sequence.  BranchesFrom exists, since its initial *)
(* parts do; it starts with the given branch, and goes on request by       *)
(* request.                                                                *)
(***************************************************************************)
IsBranchesTo(b, name, last) ==
  b = [i \in queue.at..last |->
         IF i = queue.at THEN SequenceBranch(name, FALSE, Nil)
         ELSE AfterRequest(b[i - 1], queue.requests[i - 1])]

IsBranches(b) ==
  /\ b[queue.at] = SequenceBranch(StartBranch, FALSE, Nil)
  /\ \A i \in (queue.at + 1)..Len(queue.requests) :
       b[i] = AfterRequest(b[i - 1], queue.requests[i - 1])

LEMMA BranchesExist ==
  ASSUME queue.at \in Nat, NEW name, NEW n \in Nat
  PROVE  \E b : IsBranchesTo(b, name, queue.at + n)
<1> DEFINE at == queue.at
           S == {k \in Nat : \E b : IsBranchesTo(b, name, at + k)}
<1>0. at \in Nat
  OBVIOUS
<1>1. 0 \in S
  <2> DEFINE b == [i \in at..(at + 0) |-> SequenceBranch(name, FALSE, Nil)]
  <2>1. \A i \in at..(at + 0) : i = at
    OBVIOUS
  <2>2. IsBranchesTo(b, name, at + 0)
    BY <2>1 DEF IsBranchesTo
  <2>3. QED
    BY <2>2
<1>2. ASSUME NEW k \in Nat, k \in S PROVE k + 1 \in S
  <2>1. PICK b : IsBranchesTo(b, name, at + k)
    BY <1>2
  <2> DEFINE last == AfterRequest(b[at + k], queue.requests[at + k])
             next == [i \in at..(at + (k + 1)) |-> IF i = at + (k + 1) THEN last ELSE b[i]]
             step(s, i) == IF i = at THEN SequenceBranch(name, FALSE, Nil)
                           ELSE AfterRequest(s[i - 1], queue.requests[i - 1])
  <2>2. ASSUME NEW i \in at..(at + (k + 1))
        PROVE  next[i] = step(next, i)
    <3>1. CASE i = at + (k + 1)
      <4>1. next[i] = last /\ next[i - 1] = b[at + k] /\ i # at /\ i - 1 = at + k
        BY <3>1
      <4> HIDE DEF next
      <4>2. QED
        BY <3>1, <4>1
    <3>2. CASE i \in at..(at + k)
      <4>1. next[i] = b[i] /\ (i # at => next[i - 1] = b[i - 1])
        BY <3>2
      <4>2. b[i] = step(b, i)
        BY <2>1, <3>2 DEF IsBranchesTo
      <4> HIDE DEF next
      <4>3. QED
        BY <4>1, <4>2
    <3>3. i = at + (k + 1) \/ i \in at..(at + k)
      BY <1>0
    <3>4. QED
      BY <3>1, <3>2, <3>3
  <2>3. next = [i \in at..(at + (k + 1)) |-> next[i]]
    OBVIOUS
  <2> HIDE DEF next
  <2>4. IsBranchesTo(next, name, at + (k + 1))
    BY <2>2, <2>3 DEF IsBranchesTo
  <2>5. QED
    BY <2>4
<1> HIDE DEF S
<1>3. Nat \subseteq S
  BY <1>1, <1>2, SetInduction
<1>4. QED
  BY <1>3 DEF S

LEMMA BranchesDef ==
  ASSUME queue.at \in Nat, Len(queue.requests) \in Nat, queue.at <= Len(queue.requests)
  PROVE  IsBranches(BranchesFrom(StartBranch))
<1> DEFINE last == Len(queue.requests)
           name == StartBranch
           b    == CHOOSE c : IsBranchesTo(c, name, last)
<1>1. last - queue.at \in Nat /\ last = queue.at + (last - queue.at)
  OBVIOUS
<1>2. \E c : IsBranchesTo(c, name, last)
  <2>1. \E c : IsBranchesTo(c, name, queue.at + (last - queue.at))
    BY <1>1, BranchesExist
  <2>2. QED
    BY <1>1, <2>1
<1>3. IsBranchesTo(b, name, last)
  BY <1>2
<1>4. BranchesFrom(name) = b
  BY DEF BranchesFrom, IsBranchesTo
<1> HIDE DEF b, name
<1>5. /\ queue.at \in queue.at..last
      /\ \A i \in (queue.at + 1)..last : i \in queue.at..last /\ i # queue.at
  OBVIOUS
<1> HIDE DEF last
<1>6. b[queue.at] = SequenceBranch(name, FALSE, Nil)
  BY <1>3, <1>5 DEF IsBranchesTo
<1>7. \A i \in (queue.at + 1)..last : b[i] = AfterRequest(b[i - 1], queue.requests[i - 1])
  BY <1>3, <1>5 DEF IsBranchesTo
<1>8. QED
  BY <1>4, <1>6, <1>7 DEF IsBranches, name, last

-----------------------------------------------------------------------------
(***************************************************************************)
(* A resolution.  As long as none of the answers has changed since it      *)
(* began, what it has read is what there is, the branch it has come to is  *)
(* the one BranchesFrom has there, and the targets behind it are those of  *)
(* the present moment.                                                     *)
(***************************************************************************)
Reading == {"available", "dest", "url", "to", "repository", "source", "base"}

ReadFields ==
  [upstream |-> scan.read.upstream, dest |-> scan.read.dest, from |-> scan.read.from,
   to |-> scan.read.to, repository |-> scan.read.repository, source |-> scan.read.source]

ScanShape ==
  /\ scan = [place |-> scan.place, at |-> scan.at, branch |-> scan.branch,
             read |-> scan.read, targets |-> scan.targets]
  /\ scan.place # "none" =>
       /\ scan.at \in queue.at..(Len(queue.requests) + 1)
       /\ scan.place \in Reading => scan.at <= Len(queue.requests)
       /\ scan.place \in Reading \cup {"follow", "resolved"}
       /\ scan.read = ReadFields
       /\ DOMAIN scan.targets = DOMAIN queue.requests

ReadExact ==
  LET read  == scan.read
      place == scan.place
  IN /\ place = "resolved" => OpenFrom(scan.at) = {}
     /\ place = "available" => Scanned.kind = "track" /\ tracking[Scanned.branch] # Nil
     /\ place \in Reading \ {"available"} =>
          /\ scan.branch.name # Nil
          /\ Scanned.kind \in {"push", "open"}
          /\ Scanned.kind = "open" => Aiming
          /\ read.upstream = UpstreamOf(scan.branch)
     /\ place \in Reading \ {"available", "dest"} =>
          /\ Aiming
          /\ read.upstream # Nil
          /\ read.dest = Destination
          /\ read.dest # Nil
     /\ place \in {"to", "repository", "source", "base"} =>
          read.from = NameOf(HeadUrl(read.dest[1])) /\ read.from # Nil
     /\ place \in {"repository", "source", "base"} =>
          read.to = BaseName(read.dest[1], read.from) /\ read.to # Nil
     /\ place \in {"source", "base"} => read.repository = canonical[read.to]
     /\ place = "base" => read.source = canonical[read.from]

Followed(b) ==
  /\ scan.at <= Len(queue.requests) => b[scan.at] = scan.branch
  /\ \A j \in OpenFrom(queue.at) :
       j < scan.at => scan.targets[j] = TargetOf(b[j], queue.requests[j].branch)

Exact == ReadExact /\ \A b : IsBranches(b) => Followed(b)

ScanExact == pc \in Rechecking /\ scan.place # "none" /\ ~since.disturbed => Exact

\* Where the answers are the same, so is what follows from them.
LEMMA SameUpstream ==
  ASSUME UNCHANGED answers, NEW b
  PROVE  UpstreamOf(b)' = UpstreamOf(b)
  BY DEF answers, UpstreamOf

LEMMA SamePush ==
  ASSUME UNCHANGED answers, NEW branch, NEW upstream
  PROVE  TypedPushTarget(branch, upstream)' = TypedPushTarget(branch, upstream)
  BY DEF answers, TypedPushTarget, ChosenRemote

LEMMA SameNames ==
  ASSUME UNCHANGED answers, NEW remote, NEW from
  PROVE  /\ HeadUrl(remote)' = HeadUrl(remote)
         /\ BaseName(remote, from)' = BaseName(remote, from)
  BY DEF answers, HeadUrl, BaseName, UpstreamUrl

LEMMA SameTarget ==
  ASSUME UNCHANGED <<answers, loaded>>, NEW b, NEW requested
  PROVE  TargetOf(b, requested)' = TargetOf(b, requested)
<1>1. \A dest, from : /\ HeadUrl(dest)' = HeadUrl(dest)
                      /\ BaseName(dest, from)' = BaseName(dest, from)
  BY SameNames
<1>2. \A c, d : TypedPushTarget(c, d)' = TypedPushTarget(c, d)
  BY SamePush
<1>3. UpstreamOf(b)' = UpstreamOf(b) /\ UNCHANGED <<canonical, published, loaded>>
  BY SameUpstream DEF answers
<1>4. QED
  BY <1>1, <1>2, <1>3 DEF TargetOf, BaseBranch, DistinctRefs, BranchOid, NameOf, OrElse

LEMMA SameBranches ==
  ASSUME UNCHANGED <<answers, loaded, queue, plan>>, NEW b
  PROVE  IsBranches(b)' <=> IsBranches(b)
<1>1. \A c, r : AfterRequest(c, r)' = AfterRequest(c, r)
  <2> SUFFICES ASSUME NEW c, NEW r PROVE AfterRequest(c, r)' = AfterRequest(c, r)
    OBVIOUS
  <2>1. \A d, e : TypedPushTarget(d, e)' = TypedPushTarget(d, e)
    BY SamePush
  <2>2. UpstreamOf(c)' = UpstreamOf(c) /\ UNCHANGED <<tip, tracking>>
    BY SameUpstream DEF answers
  <2>3. QED
    BY <2>1, <2>2 DEF AfterRequest
<1>2. StartBranch' = StartBranch
  BY DEF answers, StartBranch, Request, CurrentBranch
<1>3. UNCHANGED queue
  OBVIOUS
<1>4. QED
  BY <1>1, <1>2, <1>3 DEF IsBranches

LEMMA SameOpen ==
  ASSUME UNCHANGED queue, NEW i
  PROVE  OpenFrom(i)' = OpenFrom(i)
  BY DEF OpenFrom, IsOpen

\* What the resolution has behind it: kept where it stays, and extended where
\* it goes on to the branch that the next request finds.
LEMMA FollowedStays ==
  ASSUME UNCHANGED <<answers, loaded, queue, plan>>,
         scan'.at = scan.at, scan'.branch = scan.branch, scan'.targets = scan.targets,
         \A b : IsBranches(b) => Followed(b)
  PROVE  (\A b : IsBranches(b) => Followed(b))'
<1> SUFFICES ASSUME NEW b, IsBranches(b)' PROVE Followed(b)'
  OBVIOUS
<1>1. IsBranches(b) /\ Followed(b)
  BY SameBranches
<1>2. \A c, r : TargetOf(c, r)' = TargetOf(c, r)
  BY SameTarget
<1>3. OpenFrom(queue.at)' = OpenFrom(queue.at) /\ UNCHANGED queue
  <2>1. UNCHANGED queue
    OBVIOUS
  <2>2. QED
    BY <2>1 DEF OpenFrom, IsOpen
<1>4. QED
  BY <1>1, <1>2, <1>3 DEF Followed

LEMMA FollowedGoesOn ==
  ASSUME UNCHANGED <<answers, loaded, queue, plan>>,
         Len(queue.requests) \in Nat, queue.at \in Nat, scan.at \in Nat,
         queue.at <= scan.at, scan.at <= Len(queue.requests),
         scan'.at = scan.at + 1,
         scan'.branch = AfterRequest(scan.branch, Scanned),
         Aiming => scan'.targets[scan.at] = TargetOf(scan.branch, Scanned.branch),
         \A j \in OpenFrom(queue.at) : j < scan.at => scan'.targets[j] = scan.targets[j],
         \A b : IsBranches(b) => Followed(b)
  PROVE  (\A b : IsBranches(b) => Followed(b))'
<1> SUFFICES ASSUME NEW b, IsBranches(b)' PROVE Followed(b)'
  OBVIOUS
<1>1. IsBranches(b) /\ Followed(b)
  BY SameBranches
<1>2. \A c, r : TargetOf(c, r)' = TargetOf(c, r)
  BY SameTarget
<1>3. OpenFrom(queue.at)' = OpenFrom(queue.at) /\ UNCHANGED queue
  <2>1. UNCHANGED queue
    OBVIOUS
  <2>2. QED
    BY <2>1 DEF OpenFrom, IsOpen
<1>4. b[scan.at] = scan.branch
  BY <1>1 DEF Followed
<1>5. scan.at + 1 <= Len(queue.requests) => b[scan.at + 1] = scan'.branch
  <2> SUFFICES ASSUME scan.at + 1 <= Len(queue.requests)
               PROVE  b[scan.at + 1] = scan'.branch
    OBVIOUS
  <2>1. scan.at + 1 \in (queue.at + 1)..Len(queue.requests) /\ (scan.at + 1) - 1 = scan.at
    OBVIOUS
  <2>2. b[scan.at + 1] = AfterRequest(b[scan.at], queue.requests[scan.at])
    BY <1>1, <2>1 DEF IsBranches
  <2>3. QED
    BY <1>4, <2>2 DEF Scanned
<1>6. ASSUME NEW j \in OpenFrom(queue.at), j < scan.at + 1
      PROVE  scan'.targets[j] = TargetOf(b[j], queue.requests[j].branch)
  <2>1. j \in Nat /\ queue.at < j /\ IsOpen(queue.requests[j])
    BY DEF OpenFrom
  <2>2. CASE j = scan.at
    <3>1. Aiming
      BY <2>1, <2>2 DEF Aiming, Scanned
    <3>2. QED
      BY <1>4, <2>2, <3>1 DEF Scanned
  <2>3. CASE j < scan.at
    BY <1>1, <2>3 DEF Followed
  <2>4. QED
    BY <1>6, <2>1, <2>2, <2>3
<1>7. QED
  BY <1>2, <1>3, <1>5, <1>6 DEF Followed

\* The requests a resolution is in.
LEMMA ScanPlace ==
  ASSUME TypeOK, pc # "idle", ScanShape, scan.place # "none"
  PROVE  /\ Len(queue.requests) \in Nat /\ queue.at \in Nat /\ scan.at \in Nat
         /\ queue.at >= 1 /\ queue.at <= scan.at /\ scan.at <= Len(queue.requests) + 1
         /\ DOMAIN scan.targets = 1..Len(queue.requests)
         /\ OpenFrom(scan.at) # {} => scan.at <= Len(queue.requests)
         /\ scan.place \in Reading => scan.at <= Len(queue.requests)
         /\ scan.at <= Len(queue.requests) =>
              Scanned.kind \in {"create", "checkout", "track", "push", "open"}
<1>1. /\ queue.requests \in Seq(Requests) /\ queue.at \in 1..Len(queue.requests)
      /\ Len(queue.requests) \in Nat
  BY RequestType
<1>2. scan.at \in queue.at..(Len(queue.requests) + 1)
  BY DEF ScanShape
<1>3. scan.at \in Nat /\ scan.at >= 1
  BY <1>1, <1>2
<1>4. OpenFrom(scan.at) # {} => scan.at <= Len(queue.requests)
  BY <1>1, <1>3 DEF OpenFrom
<1>5. scan.at <= Len(queue.requests) => Scanned \in Requests
  BY <1>1, <1>3 DEF Scanned
<1>6. \A r \in Requests : r.kind \in {"create", "checkout", "track", "push", "open"}
  BY DEF Requests
<1>7. QED
  BY <1>1, <1>2, <1>3, <1>4, <1>5, <1>6 DEF ScanShape

\* A resolution begins with the branch that the prompt starts on.
LEMMA BeginExact ==
  ASSUME TypeOK, pc # "idle", BeginScan(StartBranch),
         UNCHANGED <<answers, loaded, queue, plan>>
  PROVE  ScanShape' /\ Exact'
<1>1. /\ scan' = [place |-> "follow", at |-> queue.at,
                  branch |-> SequenceBranch(StartBranch, FALSE, Nil), read |-> NoRead,
                  targets |-> [i \in DOMAIN queue.requests |-> Nil]]
      /\ UNCHANGED queue
  BY DEF BeginScan, NoScan
<1>2. /\ queue.requests \in Seq(Requests) /\ queue.at \in 1..Len(queue.requests)
      /\ Len(queue.requests) \in Nat
  BY RequestType
<1>3. queue.at \in queue.at..(Len(queue.requests) + 1)
  BY <1>2
<1>4. ScanShape'
  BY <1>1, <1>3 DEF ScanShape, Reading, ReadFields, NoRead
<1>5. ReadExact'
  BY <1>1 DEF ReadExact, Reading
<1>6. ASSUME NEW b, IsBranches(b)' PROVE Followed(b)'
  <2>1. IsBranches(b)
    BY <1>6, SameBranches
  <2>2. scan'.branch = SequenceBranch(StartBranch, FALSE, Nil) /\ scan'.at = queue.at
    BY <1>1
  <2>3. b[queue'.at] = scan'.branch
    BY <1>1, <2>1, <2>2 DEF IsBranches
  <2>4. \A j \in OpenFrom(queue.at)' : ~(j < scan'.at)
    <3>1. \A j \in OpenFrom(queue.at)' : j \in (queue.at + 1)..Len(queue.requests)
      BY <1>1 DEF OpenFrom
    <3>2. QED
      BY <1>2, <2>2, <3>1
  <2>5. QED
    BY <1>1, <2>2, <2>3, <2>4 DEF Followed
<1>7. QED
  BY <1>4, <1>5, <1>6 DEF Exact

\* Going on to the next request.
LEMMA FollowToExact ==
  ASSUME TypeOK, pc # "idle", ScanShape, scan.place # "none",
         UNCHANGED <<answers, loaded, queue, plan>>,
         NEW b, FollowTo(b), scan.at <= Len(queue.requests)
  PROVE  /\ ScanShape'
         /\ Exact /\ ~Aiming /\ b = AfterRequest(scan.branch, Scanned) => Exact'
<1>1. /\ scan' = [place |-> "follow", at |-> scan.at + 1, branch |-> b, read |-> NoRead,
                  targets |-> scan.targets]
      /\ UNCHANGED queue
  BY DEF FollowTo, ScanShape
<1>2. /\ Len(queue.requests) \in Nat /\ queue.at \in Nat /\ scan.at \in Nat
      /\ queue.at <= scan.at
  BY ScanPlace
<1>3. scan.at + 1 \in queue.at..(Len(queue.requests) + 1)
  BY <1>2
<1>4. ScanShape'
  BY <1>1, <1>3 DEF ScanShape, Reading, ReadFields, NoRead
<1>5. ReadExact'
  BY <1>1 DEF ReadExact, Reading
<1>6. ASSUME Exact, ~Aiming, b = AfterRequest(scan.branch, Scanned) PROVE Exact'
  <2>1. \A c : IsBranches(c) => Followed(c)
    BY <1>6 DEF Exact
  <2>2. /\ scan'.at = scan.at + 1 /\ scan'.branch = AfterRequest(scan.branch, Scanned)
        /\ scan'.targets = scan.targets
    BY <1>1, <1>6
  <2>3. (\A c : IsBranches(c) => Followed(c))'
    BY <1>2, <1>6, <2>1, <2>2, FollowedGoesOn
  <2>4. QED
    BY <1>5, <2>3 DEF Exact
<1>7. QED
  BY <1>4, <1>6

LEMMA FollowExact ==
  ASSUME TypeOK, pc # "idle", ScanShape, Follow,
         UNCHANGED <<answers, loaded, queue, plan>>
  PROVE  ScanShape' /\ (Exact => Exact')
<1>1. CASE EndScan
  <2>1. /\ scan' = [scan EXCEPT !.place = "resolved"] /\ scan.place = "follow"
        /\ OpenFrom(scan.at) = {} /\ UNCHANGED queue
    BY <1>1 DEF EndScan
  <2>2. /\ scan'.place = "resolved" /\ scan'.at = scan.at /\ scan'.branch = scan.branch
        /\ scan'.read = scan.read /\ scan'.targets = scan.targets
        /\ scan' = [place |-> "resolved", at |-> scan.at, branch |-> scan.branch,
                    read |-> scan.read, targets |-> scan.targets]
    BY <2>1 DEF ScanShape
  <2>3. ScanShape'
    BY <2>1, <2>2 DEF ScanShape, Reading, ReadFields
  <2>4. OpenFrom(scan.at)' = {}
    BY <2>1, <2>2 DEF OpenFrom, IsOpen
  <2>5. ReadExact'
    BY <2>2, <2>4 DEF ReadExact, Reading
  <2>6. Exact => Exact'
    BY <2>2, <2>5, FollowedStays DEF Exact
  <2>7. QED
    BY <2>3, <2>6
<1>2. CASE FollowRemote
  <2>1. /\ scan' = [scan EXCEPT !.place = "available"] /\ scan.place = "follow"
        /\ OpenFrom(scan.at) # {} /\ Scanned.kind = "track" /\ tracking[Scanned.branch] # Nil
        /\ UNCHANGED queue
    BY <1>2 DEF FollowRemote, Following
  <2>2. /\ scan'.place = "available" /\ scan'.at = scan.at /\ scan'.branch = scan.branch
        /\ scan'.read = scan.read /\ scan'.targets = scan.targets
        /\ scan' = [place |-> "available", at |-> scan.at, branch |-> scan.branch,
                    read |-> scan.read, targets |-> scan.targets]
    BY <2>1 DEF ScanShape
  <2>3. scan.at <= Len(queue.requests)
    BY <2>1, ScanPlace
  <2>4. ScanShape'
    BY <2>1, <2>2, <2>3 DEF ScanShape, Reading, ReadFields
  <2>5. Scanned' = Scanned /\ UNCHANGED tracking
    BY <2>1, <2>2 DEF Scanned, answers
  <2>6. ReadExact'
    BY <2>1, <2>2, <2>5 DEF ReadExact, Reading
  <2>7. Exact => Exact'
    BY <2>2, <2>6, FollowedStays DEF Exact
  <2>8. QED
    BY <2>4, <2>7
<1>3. CASE FollowSame \/ FollowCheckout \/ FollowCreate
  <2>1. scan.place = "follow" /\ OpenFrom(scan.at) # {}
    BY <1>3 DEF FollowSame, FollowCheckout, FollowCreate, Following
  <2>2. scan.at <= Len(queue.requests)
    BY <2>1, ScanPlace
  <2>3. PICK b : FollowTo(b) /\ b = AfterRequest(scan.branch, Scanned) /\ ~Aiming
    <3>1. CASE FollowSame
      BY <3>1 DEF FollowSame, Following, AfterRequest, Aiming, IsOpen
    <3>2. CASE FollowCheckout
      BY <3>2 DEF FollowCheckout, Following, AfterRequest, Aiming, IsOpen
    <3>3. CASE FollowCreate
      BY <3>3 DEF FollowCreate, Following, AfterRequest, Aiming, IsOpen
    <3>4. QED
      BY <1>3, <3>1, <3>2, <3>3
  <2>4. QED
    BY <2>1, <2>2, <2>3, FollowToExact
<1>4. CASE FollowTracking
  <2> DEFINE b == SequenceBranch(Scanned.branch[2], TRUE, Scanned.branch)
  <2>1. scan.place = "available" /\ tip[Scanned.branch[2]] = Nil /\ FollowTo(b)
    BY <1>4 DEF FollowTracking
  <2>2. scan.at <= Len(queue.requests)
    BY <2>1, ScanPlace DEF Reading
  <2>3. Exact => ~Aiming /\ b = AfterRequest(scan.branch, Scanned)
    BY <2>1 DEF Exact, ReadExact, AfterRequest, Aiming, IsOpen
  <2> HIDE DEF b
  <2>4. QED
    BY <2>1, <2>2, <2>3, FollowToExact
<1>5. QED
  BY <1>1, <1>2, <1>3, <1>4 DEF Follow

\* Reading the next item of a target.
LEMMA ReadNextExact ==
  ASSUME TypeOK, pc # "idle", ScanShape, scan.place # "none",
         UNCHANGED <<answers, loaded, queue, plan>>,
         NEW place \in Reading, NEW read, ReadNext(place, read),
         read = [upstream |-> read.upstream, dest |-> read.dest, from |-> read.from,
                 to |-> read.to, repository |-> read.repository, source |-> read.source],
         scan.at <= Len(queue.requests)
  PROVE  /\ ScanShape'
         /\ scan'.place = place /\ scan'.read = read /\ scan'.branch = scan.branch
         /\ scan'.at = scan.at /\ Scanned' = Scanned /\ (Aiming' <=> Aiming)
         /\ Exact /\ ReadExact' => Exact'
<1>1. /\ scan' = [place |-> place, at |-> scan.at, branch |-> scan.branch, read |-> read,
                  targets |-> scan.targets]
      /\ UNCHANGED queue
  BY DEF ReadNext, ScanShape
<1>2. /\ scan'.place = place /\ scan'.read = read /\ scan'.branch = scan.branch
      /\ scan'.at = scan.at /\ scan'.targets = scan.targets
  BY <1>1
<1>3. place # "none"
  BY DEF Reading
<1>4. ScanShape'
  BY <1>1, <1>2, <1>3 DEF ScanShape, Reading, ReadFields
<1>5. Scanned' = Scanned /\ (Aiming' <=> Aiming)
  BY <1>1, <1>2 DEF Scanned, Aiming, IsOpen
<1>6. Exact /\ ReadExact' => Exact'
  BY <1>2, FollowedStays DEF Exact
<1>7. QED
  BY <1>2, <1>4, <1>5, <1>6

\* The same questions have the same answers, as long as the branch and what was
\* read before are the same.
LEMMA SameAnswers ==
  ASSUME UNCHANGED answers, scan'.branch = scan.branch
  PROVE  /\ UpstreamOf(scan.branch)' = UpstreamOf(scan.branch)
         /\ scan'.read.upstream = scan.read.upstream => Destination' = Destination
         /\ scan'.read.dest = scan.read.dest =>
              NameOf(HeadUrl(scan.read.dest[1]))' = NameOf(HeadUrl(scan.read.dest[1]))
         /\ scan'.read.dest = scan.read.dest /\ scan'.read.from = scan.read.from =>
              BaseName(scan.read.dest[1], scan.read.from)'
                = BaseName(scan.read.dest[1], scan.read.from)
         /\ UNCHANGED <<canonical, published, config>>
<1>1. UpstreamOf(scan.branch)' = UpstreamOf(scan.branch)
  BY DEF answers, UpstreamOf
<1>2. scan'.read.upstream = scan.read.upstream => Destination' = Destination
  BY DEF answers, Destination, TypedPushTarget, ChosenRemote
<1>3. scan'.read.dest = scan.read.dest =>
        NameOf(HeadUrl(scan.read.dest[1]))' = NameOf(HeadUrl(scan.read.dest[1]))
  BY DEF answers, NameOf, HeadUrl
<1>4. scan'.read.dest = scan.read.dest /\ scan'.read.from = scan.read.from =>
        BaseName(scan.read.dest[1], scan.read.from)'
          = BaseName(scan.read.dest[1], scan.read.from)
  BY DEF answers, BaseName, NameOf, UpstreamUrl
<1>5. QED
  BY <1>1, <1>2, <1>3, <1>4 DEF answers

LEMMA AimReadExact ==
  ASSUME TypeOK, pc # "idle", ScanShape,
         AimUpstream \/ AimDestination \/ AimUrl \/ AimBaseName \/ AimRepository \/ AimSource,
         UNCHANGED <<answers, loaded, queue, plan>>
  PROVE  ScanShape' /\ (Exact => Exact')
<1>0. scan.place # "none" /\ scan.at <= Len(queue.requests)
  BY ScanPlace DEF AimUpstream, AimDestination, AimUrl, AimBaseName, AimRepository, AimSource,
                   Following, Reading
<1>1. scan.place \in Reading => scan.read = ReadFields
  BY DEF ScanShape, Reading
<1>2. CASE AimUpstream
  <2> DEFINE read == [NoRead EXCEPT !.upstream = UpstreamOf(scan.branch)]
  <2>1. /\ ReadNext("dest", read) /\ scan.branch.name # Nil
        /\ Scanned.kind \in {"push", "open"} /\ (Scanned.kind = "open" => Aiming)
    BY <1>2 DEF AimUpstream, Following
  <2>2. /\ read = [upstream |-> read.upstream, dest |-> read.dest, from |-> read.from,
                   to |-> read.to, repository |-> read.repository, source |-> read.source]
        /\ read.upstream = UpstreamOf(scan.branch)
    BY DEF NoRead
  <2> HIDE DEF read
  <2>3. /\ ScanShape'
        /\ scan'.place = "dest" /\ scan'.read = read /\ scan'.branch = scan.branch
        /\ scan'.at = scan.at /\ Scanned' = Scanned /\ (Aiming' <=> Aiming)
        /\ Exact /\ ReadExact' => Exact'
    BY <1>0, <2>1, <2>2, ReadNextExact DEF Reading
  <2>4. ReadExact'
    BY <2>1, <2>2, <2>3, SameAnswers DEF ReadExact, Reading
  <2>5. QED
    BY <2>3, <2>4
<1>3. CASE AimDestination
  <2> DEFINE answer == Destination
             read   == [scan.read EXCEPT !.dest = answer]
  <2>1. ReadNext("url", read) /\ scan.place = "dest" /\ IsOpen(Scanned)
        /\ scan.read.upstream # Nil /\ answer # Nil
    BY <1>3 DEF AimDestination
  <2>2. /\ read = [upstream |-> read.upstream, dest |-> read.dest, from |-> read.from,
                   to |-> read.to, repository |-> read.repository, source |-> read.source]
        /\ read.dest = answer
        /\ read.upstream = scan.read.upstream
    BY <1>1, <2>1 DEF ReadFields, Reading
  <2> HIDE DEF read, answer
  <2>3. /\ ScanShape'
        /\ scan'.place = "url" /\ scan'.read = read /\ scan'.branch = scan.branch
        /\ scan'.at = scan.at /\ Scanned' = Scanned /\ (Aiming' <=> Aiming)
        /\ Exact /\ ReadExact' => Exact'
    BY <1>0, <2>1, <2>2, ReadNextExact DEF Reading
  <2>4. Exact => ReadExact'
    BY <2>1, <2>2, <2>3, SameAnswers DEF Exact, ReadExact, Reading, answer, IsOpen
  <2>5. QED
    BY <2>3, <2>4
<1>4. CASE AimUrl
  <2> DEFINE answer == NameOf(HeadUrl(scan.read.dest[1]))
             read   == [scan.read EXCEPT !.from = answer]
  <2>1. ReadNext("to", read) /\ scan.place = "url" /\ answer # Nil
    BY <1>4 DEF AimUrl
  <2>2. /\ read = [upstream |-> read.upstream, dest |-> read.dest, from |-> read.from,
                   to |-> read.to, repository |-> read.repository, source |-> read.source]
        /\ read.from = answer
        /\ read.upstream = scan.read.upstream /\ read.dest = scan.read.dest
    BY <1>1, <2>1 DEF ReadFields, Reading
  <2> HIDE DEF read, answer
  <2>3. /\ ScanShape'
        /\ scan'.place = "to" /\ scan'.read = read /\ scan'.branch = scan.branch
        /\ scan'.at = scan.at /\ Scanned' = Scanned /\ (Aiming' <=> Aiming)
        /\ Exact /\ ReadExact' => Exact'
    BY <1>0, <2>1, <2>2, ReadNextExact DEF Reading
  <2>4. Exact => ReadExact'
    BY <2>1, <2>2, <2>3, SameAnswers DEF Exact, ReadExact, Reading, answer
  <2>5. QED
    BY <2>3, <2>4
<1>5. CASE AimBaseName
  <2> DEFINE answer == BaseName(scan.read.dest[1], scan.read.from)
             read   == [scan.read EXCEPT !.to = answer]
  <2>1. ReadNext("repository", read) /\ scan.place = "to" /\ answer # Nil
    BY <1>5 DEF AimBaseName
  <2>2. /\ read = [upstream |-> read.upstream, dest |-> read.dest, from |-> read.from,
                   to |-> read.to, repository |-> read.repository, source |-> read.source]
        /\ read.to = answer
        /\ read.upstream = scan.read.upstream /\ read.dest = scan.read.dest /\ read.from = scan.read.from
    BY <1>1, <2>1 DEF ReadFields, Reading
  <2> HIDE DEF read, answer
  <2>3. /\ ScanShape'
        /\ scan'.place = "repository" /\ scan'.read = read /\ scan'.branch = scan.branch
        /\ scan'.at = scan.at /\ Scanned' = Scanned /\ (Aiming' <=> Aiming)
        /\ Exact /\ ReadExact' => Exact'
    BY <1>0, <2>1, <2>2, ReadNextExact DEF Reading
  <2>4. Exact => ReadExact'
    BY <2>1, <2>2, <2>3, SameAnswers DEF Exact, ReadExact, Reading, answer
  <2>5. QED
    BY <2>3, <2>4
<1>6. CASE AimRepository /\ scan.read.from = scan.read.to
  <2> DEFINE answer == canonical[scan.read.to]
             read   == [scan.read EXCEPT !.repository = answer, !.source = answer]
  <2>1. ReadNext("base", read) /\ scan.place = "repository"
    BY <1>6 DEF AimRepository
  <2>2. /\ read = [upstream |-> read.upstream, dest |-> read.dest, from |-> read.from,
                   to |-> read.to, repository |-> read.repository, source |-> read.source]
        /\ read.repository = answer /\ read.source = answer
        /\ read.upstream = scan.read.upstream /\ read.dest = scan.read.dest /\ read.from = scan.read.from /\ read.to = scan.read.to
    <3>1. scan.read = ReadFields
      BY <1>1, <2>1 DEF Reading
    <3>2. read = [upstream |-> scan.read.upstream, dest |-> scan.read.dest,
                  from |-> scan.read.from, to |-> scan.read.to,
                  repository |-> answer, source |-> answer]
      <4> DEFINE old == scan.read
                 one == [old EXCEPT !.repository = answer]
      <4>1. old = [upstream |-> old.upstream, dest |-> old.dest, from |-> old.from,
                   to |-> old.to, repository |-> old.repository, source |-> old.source]
        BY <3>1 DEF ReadFields
      <4> HIDE DEF answer, old
      <4>2. one = [upstream |-> old.upstream, dest |-> old.dest, from |-> old.from,
                   to |-> old.to, repository |-> answer, source |-> old.source]
        BY <4>1
      <4>3. [one EXCEPT !.source = answer]
              = [upstream |-> old.upstream, dest |-> old.dest, from |-> old.from,
                 to |-> old.to, repository |-> answer, source |-> answer]
        <5> HIDE DEF one
        <5>1. QED
          BY <4>2
      <4>4. [old EXCEPT !.repository = answer, !.source = answer]
              = [one EXCEPT !.source = answer]
        BY <4>1
      <4>5. QED
        BY <4>3, <4>4 DEF old
    <3> HIDE DEF read, answer
    <3>3. QED
      BY <3>2
  <2> HIDE DEF read, answer
  <2>3. /\ ScanShape'
        /\ scan'.place = "base" /\ scan'.read = read /\ scan'.branch = scan.branch
        /\ scan'.at = scan.at /\ Scanned' = Scanned /\ (Aiming' <=> Aiming)
        /\ Exact /\ ReadExact' => Exact'
    BY <1>0, <2>1, <2>2, ReadNextExact DEF Reading
  <2>4. Exact => ReadExact'
    BY <1>6, <2>1, <2>2, <2>3, SameAnswers DEF Exact, ReadExact, Reading, answer
  <2>5. QED
    BY <2>3, <2>4
<1>7. CASE AimRepository /\ scan.read.from # scan.read.to
  <2> DEFINE answer == canonical[scan.read.to]
             read   == [scan.read EXCEPT !.repository = answer]
  <2>1. ReadNext("source", read) /\ scan.place = "repository"
    BY <1>7 DEF AimRepository
  <2>2. /\ read = [upstream |-> read.upstream, dest |-> read.dest, from |-> read.from,
                   to |-> read.to, repository |-> read.repository, source |-> read.source]
        /\ read.repository = answer
        /\ read.upstream = scan.read.upstream /\ read.dest = scan.read.dest /\ read.from = scan.read.from /\ read.to = scan.read.to
    BY <1>1, <2>1 DEF ReadFields, Reading
  <2> HIDE DEF read, answer
  <2>3. /\ ScanShape'
        /\ scan'.place = "source" /\ scan'.read = read /\ scan'.branch = scan.branch
        /\ scan'.at = scan.at /\ Scanned' = Scanned /\ (Aiming' <=> Aiming)
        /\ Exact /\ ReadExact' => Exact'
    BY <1>0, <2>1, <2>2, ReadNextExact DEF Reading
  <2>4. Exact => ReadExact'
    BY <2>1, <2>2, <2>3, SameAnswers DEF Exact, ReadExact, Reading, answer
  <2>5. QED
    BY <2>3, <2>4
<1>8. CASE AimSource
  <2> DEFINE answer == canonical[scan.read.from]
             read   == [scan.read EXCEPT !.source = answer]
  <2>1. ReadNext("base", read) /\ scan.place = "source"
    BY <1>8 DEF AimSource
  <2>2. /\ read = [upstream |-> read.upstream, dest |-> read.dest, from |-> read.from,
                   to |-> read.to, repository |-> read.repository, source |-> read.source]
        /\ read.source = answer
        /\ read.upstream = scan.read.upstream /\ read.dest = scan.read.dest /\ read.from = scan.read.from /\ read.to = scan.read.to /\ read.repository = scan.read.repository
    BY <1>1, <2>1 DEF ReadFields, Reading
  <2> HIDE DEF read, answer
  <2>3. /\ ScanShape'
        /\ scan'.place = "base" /\ scan'.read = read /\ scan'.branch = scan.branch
        /\ scan'.at = scan.at /\ Scanned' = Scanned /\ (Aiming' <=> Aiming)
        /\ Exact /\ ReadExact' => Exact'
    BY <1>0, <2>1, <2>2, ReadNextExact DEF Reading
  <2>4. Exact => ReadExact'
    BY <2>1, <2>2, <2>3, SameAnswers DEF Exact, ReadExact, Reading, answer
  <2>5. QED
    BY <2>3, <2>4
<1>9. QED
  BY <1>2, <1>3, <1>4, <1>5, <1>6, <1>7, <1>8

\* A target is complete: it is the one of this moment.
LEMMA AimBaseExact ==
  ASSUME TypeOK, pc # "idle", ScanShape, AimBase,
         UNCHANGED <<answers, loaded, queue, plan>>
  PROVE  ScanShape' /\ (Exact => Exact')
<1> DEFINE base   == BaseBranch(Scanned.branch)
           read   == scan.read
           target == [repository |-> read.repository, base |-> base,
                      from |-> read.source, branch |-> read.dest[2]]
           targets == [scan.targets EXCEPT ![scan.at] = target]
<1>1. /\ scan.place = "base"
      /\ DistinctRefs(read.repository, base, read.source, read.dest[2])
      /\ BranchOid(read.to, base) # Nil
      /\ scan' = [place |-> "follow", at |-> scan.at + 1, branch |-> scan.branch,
                  read |-> NoRead, targets |-> targets]
      /\ UNCHANGED queue
  BY DEF AimBase, ScanShape
<1>2. /\ Len(queue.requests) \in Nat /\ queue.at \in Nat /\ scan.at \in Nat
      /\ queue.at >= 1 /\ queue.at <= scan.at /\ scan.at <= Len(queue.requests)
      /\ DOMAIN scan.targets = 1..Len(queue.requests)
  BY <1>1, ScanPlace DEF Reading
<1>3. /\ scan.at \in DOMAIN scan.targets /\ DOMAIN targets = DOMAIN scan.targets
      /\ targets[scan.at] = target
      /\ \A j \in DOMAIN scan.targets : j # scan.at => targets[j] = scan.targets[j]
  BY <1>2
<1> HIDE DEF targets
<1>4. ScanShape'
  <2>1. scan.at + 1 \in queue.at..(Len(queue.requests) + 1)
    BY <1>2
  <2>2. QED
    BY <1>1, <1>3, <2>1 DEF ScanShape, Reading, ReadFields, NoRead
<1>5. ReadExact'
  BY <1>1 DEF ReadExact, Reading
<1>6. ASSUME Exact PROVE Exact'
  <2>1. /\ Aiming /\ scan.branch.name # Nil
        /\ read.upstream = UpstreamOf(scan.branch) /\ read.upstream # Nil
        /\ read.dest = Destination /\ read.dest # Nil
        /\ read.from = NameOf(HeadUrl(read.dest[1])) /\ read.from # Nil
        /\ read.to = BaseName(read.dest[1], read.from) /\ read.to # Nil
        /\ read.repository = canonical[read.to] /\ read.source = canonical[read.from]
    BY <1>1, <1>6 DEF Exact, ReadExact, Reading
  <2>2. target = TargetOf(scan.branch, Scanned.branch)
    <3>1. read.dest = TypedPushTarget(scan.branch.name, UpstreamOf(scan.branch))
      BY <2>1 DEF Destination
    <3> HIDE DEF base, read
    <3>2. QED
      BY <1>1, <2>1, <3>1 DEF TargetOf, base
  <2>3. AfterRequest(scan.branch, Scanned) = scan.branch
    BY <2>1 DEF Aiming, IsOpen, AfterRequest
  <2>4. \A j \in OpenFrom(queue.at) : j \in DOMAIN scan.targets
    BY <1>2 DEF OpenFrom
  <2>5. /\ scan'.at = scan.at + 1
        /\ scan'.branch = AfterRequest(scan.branch, Scanned)
        /\ scan'.targets[scan.at] = TargetOf(scan.branch, Scanned.branch)
        /\ \A j \in OpenFrom(queue.at) : j < scan.at => scan'.targets[j] = scan.targets[j]
    BY <1>1, <1>2, <1>3, <2>2, <2>3, <2>4
  <2>6. \A b : IsBranches(b) => Followed(b)
    BY <1>6 DEF Exact
  <2>7. (\A b : IsBranches(b) => Followed(b))'
    BY <1>2, <2>5, <2>6, FollowedGoesOn
  <2>8. QED
    BY <1>5, <2>7 DEF Exact
<1>7. QED
  BY <1>4, <1>6

LEMMA AimExact ==
  ASSUME TypeOK, pc # "idle", ScanShape, Aim,
         UNCHANGED <<answers, loaded, queue, plan>>
  PROVE  ScanShape' /\ (Exact => Exact')
<1>1. CASE FollowPush
  <2> DEFINE b == IF scan.read.upstream = Nil
                  THEN SequenceBranch(scan.branch.name, TRUE, Destination) ELSE scan.branch
  <2>1. scan.place = "dest" /\ ~IsOpen(Scanned) /\ Destination # Nil /\ FollowTo(b)
    BY <1>1 DEF FollowPush
  <2>2. scan.place # "none" /\ scan.at <= Len(queue.requests)
    BY <2>1, ScanPlace DEF Reading
  <2>3. ASSUME Exact PROVE b = AfterRequest(scan.branch, Scanned)
    <3>1. /\ scan.branch.name # Nil /\ Scanned.kind = "push"
          /\ scan.read.upstream = UpstreamOf(scan.branch)
      BY <2>1, <2>3 DEF Exact, ReadExact, Reading, IsOpen
    <3>2. Destination = TypedPushTarget(scan.branch.name, UpstreamOf(scan.branch))
      BY <3>1 DEF Destination
    <3>3. QED
      BY <2>1, <3>1, <3>2 DEF AfterRequest
  <2>4. ~Aiming
    BY <2>1 DEF Aiming
  <2> HIDE DEF b
  <2>5. QED
    BY <2>1, <2>2, <2>3, <2>4, FollowToExact
<1>2. QED
  BY <1>1, AimReadExact, AimBaseExact DEF Aim

\* What was resolved while nothing changed holds at this moment.
LEMMA ResolvedAims ==
  ASSUME TypeOK, pc # "idle", ScanShape, Exact, AsPreviewed
  PROVE  Aimed
<1> DEFINE b == BranchesFrom(StartBranch)
<1>1. /\ Len(queue.requests) \in Nat /\ queue.at \in Nat /\ scan.at \in Nat
      /\ queue.at <= Len(queue.requests) /\ scan.place = "resolved"
  BY RequestType, ScanPlace DEF AsPreviewed
<1>2. IsBranches(b)
  BY <1>1, BranchesDef
<1>3. Followed(b) /\ OpenFrom(scan.at) = {}
  BY <1>1, <1>2 DEF Exact, ReadExact
<1> HIDE DEF b
<1>4. ASSUME NEW i \in OpenFrom(queue.at)
      PROVE  TargetOf(b[i], queue.requests[i].branch) = queue.targets[i]
  <2>1. i < scan.at
    <3>1. i \in (queue.at + 1)..Len(queue.requests) /\ IsOpen(queue.requests[i])
      BY DEF OpenFrom
    <3>2. i \notin OpenFrom(scan.at)
      BY <1>3
    <3>3. QED
      BY <1>1, <3>1, <3>2 DEF OpenFrom
  <2>2. scan.targets[i] = TargetOf(b[i], queue.requests[i].branch)
    BY <1>3, <2>1 DEF Followed
  <2>3. QED
    BY <2>2 DEF AsPreviewed
<1>5. QED
  BY <1>4 DEF Aimed, TargetsFrom, b

-----------------------------------------------------------------------------
(***************************************************************************)
(* The inductive invariant.  At each check those before it have been seen  *)
(* to hold; a later request of a sequence is opened where the preview      *)
(* said; the base repository answers to its name until it is exchanged;    *)
(* a resolution is exact until it is disturbed; and when a step's turn has *)
(* come, what follows it has been aimed, or its resolution was disturbed.  *)
(***************************************************************************)
BeforeNames == {"oid", "ref", "status", "upstream", "dest", "urls", "to"}

Before ==
  [oid |-> {}, ref |-> {"oid"}, status |-> {"oid", "ref"}, upstream |-> {"oid", "ref", "status"},
   dest |-> {"oid", "ref", "status", "upstream"},
   urls |-> {"oid", "ref", "status", "upstream", "dest"},
   to |-> BeforeNames \ {"to"},
   repository |-> BeforeNames,
   source |-> BeforeNames \cup {"repository"},
   published |-> BeforeNames \cup {"repository", "source"},
   absent |-> CheckNames \ {"absent", "base"}, base |-> CheckNames \ {"base"},
   create |-> CheckNames, search |-> {}]

Seen == pc \in Opening => \A f \in Before[pc] : since[f]

Compared == pc \in Opening /\ queue.at > 1 => PlannedTarget = queue.targets[queue.at]

Unmoved == pc \in Settled /\ ~since.moved => canonical[plan.to] = plan.repository

AimedOnTurn == pc \in {"compare", "run"} /\ Downstream => since.aimed \/ since.disturbed

EffectOK ==
  /\ CreatesWhatWasChecked
  /\ LandsWherePreviewed
  /\ StepsServeThePreviewedTarget
  /\ ReportsOpenPullRequests

ScanInv == ScanShape /\ ScanExact
PullInv == TypeInv /\ ScanInv /\ Seen /\ Compared /\ Unmoved /\ AimedOnTurn /\ EffectOK

\* What has been seen stays seen, and what holds is seen, while a pull request
\* is being opened.
LEMMA ObserveOpening ==
  ASSUME TypeOK, Observe, pc \in Opening
  PROVE  /\ \A f \in CheckNames : since[f] \/ Holds[f] => since'[f]
         /\ since.present \/ IsThere => since'.present
         /\ since'.moved = (since.moved \/ (pc \in Settled /\ canonical'[plan.to] # canonical[plan.to]))
<1>1. DOMAIN since = CheckNames \cup {"present", "moved", "aimed", "disturbed"}
  BY DEF TypeOK, Facts
<1>2. DEFINE holds == Holds
<1>3. since' = [f \in Facts |->
                  \/ since[f]
                  \/ f = "present" /\ IsThere
                  \/ f = "moved" /\ pc \in Settled /\ canonical'[plan.to] # canonical[plan.to]
                  \/ f \in CheckNames /\ holds[f]]
  BY <1>1 DEF Observe
<1>4. "moved" \notin CheckNames /\ "present" \notin CheckNames
  BY NamesOfChecks
<1> HIDE DEF holds
<1>5. /\ \A f \in CheckNames : since[f] \/ holds[f] => since'[f]
      /\ since.present \/ IsThere => since'.present
      /\ since'.moved = (since.moved \/ (pc \in Settled /\ canonical'[plan.to] # canonical[plan.to]))
  <2>1. since'["moved"] = (since["moved"] \/ (pc \in Settled /\ canonical'[plan.to] # canonical[plan.to]))
    BY <1>3, <1>4 DEF Facts
  <2>2. QED
    BY <1>3, <2>1 DEF Facts
<1>6. QED
  BY <1>5 DEF holds

\* While targets are resolved, whether they were aimed in the meantime, and
\* whether an answer changed.
LEMMA ObserveResolving ==
  ASSUME Observe, pc \in Rechecking
  PROVE  /\ Aimed => since'.aimed
         /\ scan.place # "none" /\ since.aimed => since'.aimed
         /\ since'.disturbed <=> scan.place # "none" /\ (since.disturbed \/ answers' # answers)
<1>1. pc \notin Opening
  BY NamesOfChecks DEF Rechecking, Opening
<1>2. DEFINE begun == scan.place # "none"
<1>3. since' = [Nothing EXCEPT !.aimed = (begun /\ since.aimed) \/ Aimed,
                              !.disturbed = begun /\ (since.disturbed \/ answers' # answers)]
  BY <1>1 DEF Observe
<1>4. /\ since'.aimed = ((begun /\ since.aimed) \/ Aimed)
      /\ since'.disturbed = (begun /\ (since.disturbed \/ answers' # answers))
  BY <1>3 DEF Nothing, Facts
<1>5. QED
  BY <1>4

\* While a step waits for its turn, what was found at its resolution is kept.
LEMMA ObserveWaiting ==
  ASSUME Observe, pc \in {"compare", "run"}
  PROVE  /\ since.aimed \/ Aimed => since'.aimed
         /\ since.disturbed => since'.disturbed
<1>1. pc \notin Opening /\ pc \notin Rechecking
  BY NamesOfChecks DEF Rechecking, Opening
<1>2. since' = [Nothing EXCEPT !.aimed = since.aimed \/ Aimed, !.disturbed = since.disturbed]
  BY <1>1 DEF Observe
<1>3. since'.aimed = (since.aimed \/ Aimed) /\ since'.disturbed = since.disturbed
  BY <1>2 DEF Nothing, Facts
<1>4. QED
  BY <1>3

\* The steps before the opening lead to its first check, or not to it.
LEMMA Ahead ==
  ASSUME TypeInv,
         \/ \E requests \in Prompts : Submit(requests)
         \/ Begin \/ FollowBranch \/ AimRequest \/ Preview \/ Prepare \/ Confirm
         \/ ReadStatus \/ ReadUpstream \/ ReadDestination \/ ReadUrl \/ ReadHeadOid \/ ReadHeadRef
         \/ ReadBaseName \/ ReadRepository \/ ReadSource \/ ReadPublished \/ ReadBase
         \/ LoadPolicy \/ StartSequence \/ CheckBefore \/ CheckAfter \/ Compare
         \/ Refuse
  PROVE  /\ pc' \in Opening => /\ pc' = "oid"
                               /\ Confirm \/ StartSequence \/ Compare
         /\ effect' \in {effect, NoEffect}
<1> USE NamesOfChecks DEF Opening, Step
<1>1. /\ Dispatch(Request) \in {"oid", "run"}
      /\ \A r : PlanFrom(r) \in {"planStatus", "prepare"}
      /\ Planned \in {"confirm", "after", "compare"}
  BY DEF Dispatch, Checks, PlanFrom, Planned
<1>2. CASE \/ \E requests \in Prompts : Submit(requests)
           \/ Preview \/ Prepare \/ LoadPolicy \/ CheckBefore \/ CheckAfter \/ Refuse
  BY <1>1, <1>2 DEF Submit, Preview, Prepare, LoadPolicy, CheckBefore, CheckAfter, Refuse
<1>3. CASE \/ ReadStatus \/ ReadUpstream \/ ReadDestination \/ ReadUrl \/ ReadHeadOid \/ ReadHeadRef
           \/ ReadBaseName \/ ReadRepository \/ ReadSource \/ ReadPublished \/ ReadBase
  BY <1>1, <1>3 DEF Learn, ReadStatus, ReadUpstream, ReadDestination, ReadUrl, ReadHeadOid,
       ReadHeadRef, ReadBaseName, ReadRepository, ReadSource, ReadPublished, ReadBase
<1>4. CASE Confirm \/ StartSequence \/ Compare
  BY <1>1, <1>4 DEF Confirm, StartSequence, Compare
<1>5. CASE Begin \/ FollowBranch \/ AimRequest
  BY <1>5 DEF Begin, FollowBranch, AimRequest, Resolve, Resolving, Rechecking
<1>6. QED
  BY <1>2, <1>3, <1>4, <1>5

\* After the last action of a prompt's step nothing is being opened.
LEMMA Done ==
  ASSUME Advance
  PROVE  pc' \in {"idle", "next"}
  BY DEF Advance

\* Everybody else leaves the request where it is, and is observed.
OthersAct ==
  \/ OtherClient \/ EditConfig \/ EditPolicy \/ Rename \/ OtherFetch \/ OtherPush
  \/ OtherPullRequest

LEMMA OthersKeep ==
  ASSUME OthersAct
  PROVE  UNCHANGED <<loaded, queue, scan, plan, pc, effect>> /\ Observe
  BY DEF OthersAct, OtherClient, EditConfig, EditPolicy, Rename, OtherFetch, OtherPush,
         OtherPullRequest, Changing

\* The checks that were passed have held.
LEMMA SeenStep == PullInv /\ [Next]_vars => Seen'
<1> SUFFICES ASSUME PullInv, [Next]_vars PROVE Seen'
  OBVIOUS
<1> USE NamesOfChecks DEF Opening
<1>0. TypeInv /\ TypeOK /\ Seen
  BY DEF PullInv, TypeInv
<1>1. CASE pc' = "oid" \/ pc' \notin Opening
  BY <1>1 DEF Seen, Before
<1>2. CASE Check
  <2>1. /\ pc \in CheckNames /\ Holds[pc] /\ Observe /\ pc' = After(pc)
        /\ \A f \in Before[pc] : since[f]
    BY <1>0, <1>2 DEF Check, Step, Seen
  <2>2. \A f \in CheckNames : since[f] \/ Holds[f] => since'[f]
    BY <1>0, <2>1, ObserveOpening
  <2>3. CASE pc = "repository" /\ plan.from = plan.to
    <3>1. plan.source = plan.repository
      BY <1>0, <2>3 DEF TypeInv, Learned, Payload
    <3>2. Holds.repository => Holds.source
      BY <2>3, <3>1 DEF Holds
    <3>3. Before["published"] = Before["repository"] \cup {"repository", "source"}
      BY DEF Before
    <3>4. pc' = "published"
      BY <2>1, <2>3, OrderOfChecks
    <3>5. \A f \in Before["repository"] : f \in CheckNames
      BY DEF Before, BeforeNames
    <3>6. \A f \in Before["published"] : since'[f]
      BY <2>1, <2>2, <2>3, <3>2, <3>3, <3>5
    <3>7. QED
      BY <3>4, <3>6 DEF Seen
  <2>4. CASE ~(pc = "repository" /\ plan.from = plan.to)
    <3>1. Before[After(pc)] = Before[pc] \cup {pc} /\ Before[pc] \cup {pc} \subseteq CheckNames
      BY <2>1, <2>4, OrderOfChecks DEF Before, BeforeNames
    <3>2. \A f \in Before[pc'] : since'[f]
      BY <2>1, <2>2, <3>1
    <3>3. QED
      BY <3>2 DEF Seen
  <2>5. QED
    BY <2>3, <2>4
<1>3. CASE RunStep \/ Surface \/ Create \/ SearchAgain
  BY <1>1, <1>3, Done DEF RunStep, Surface, Create, SearchAgain, Report
<1>4. CASE CreateFails
  BY <1>4 DEF CreateFails, Seen, Before
<1>5. CASE OthersAct
  <2>1. pc' = pc /\ Observe
    BY <1>5, OthersKeep
  <2>2. CASE pc \in Opening
    <3>1. Before[pc] \subseteq CheckNames
      BY <2>2 DEF Before, BeforeNames
    <3>2. QED
      BY <1>0, <2>1, <2>2, <3>1, ObserveOpening DEF Seen
  <2>3. QED
    BY <2>1, <2>2 DEF Seen
<1>6. CASE UNCHANGED vars
  BY <1>0, <1>6 DEF vars, Seen
<1>7. QED
  BY <1>0, <1>1, <1>2, <1>3, <1>4, <1>5, <1>6, Ahead DEF Next, OthersAct

\* A request after the first is opened where the preview said.
LEMMA ComparedStep == PullInv /\ [Next]_vars => Compared'
<1> SUFFICES ASSUME PullInv, [Next]_vars PROVE Compared'
  OBVIOUS
<1> USE NamesOfChecks DEF Opening
<1>0. TypeInv /\ TypeOK /\ Compared
  BY DEF PullInv, TypeInv
<1>1. CASE pc' \notin Opening
  BY <1>1 DEF Compared
<1>2. CASE pc \in Opening /\ UNCHANGED <<queue, plan>>
  BY <1>0, <1>2 DEF Compared, PlannedTarget
<1>3. CASE Confirm \/ StartSequence
  <2>1. queue'.at = 1
    BY <1>0, <1>3 DEF Confirm, StartSequence, TypeInv, Learned
  <2>2. QED
    BY <2>1 DEF Compared
<1>4. CASE Compare
  <2>1. /\ IsOpen(Request) => PlannedTarget = queue.targets[queue.at]
        /\ UNCHANGED <<queue, plan>> /\ pc' = IF IsOpen(Request) THEN "oid" ELSE "run"
    BY <1>4 DEF Compare, Step, Dispatch, Checks
  <2>2. QED
    BY <2>1 DEF Compared, PlannedTarget
<1>5. CASE RunStep \/ Surface \/ Create \/ SearchAgain
  BY <1>1, <1>5, Done DEF RunStep, Surface, Create, SearchAgain, Report
<1>6. CASE Check \/ CreateFails
  BY <1>2, <1>6 DEF Check, CreateFails
<1>7. CASE OthersAct
  BY <1>1, <1>2, <1>7, OthersKeep
<1>8. CASE UNCHANGED vars
  BY <1>1, <1>2, <1>8 DEF vars
<1>9. QED
  BY <1>0, <1>1, <1>3, <1>4, <1>5, <1>6, <1>7, <1>8, Ahead DEF Next, OthersAct

\* Once it has been asked for the last time, the base repository answers to its
\* name until that is exchanged.
LEMMA UnmovedStep == PullInv /\ [Next]_vars => Unmoved'
<1> SUFFICES ASSUME PullInv, [Next]_vars PROVE Unmoved'
  OBVIOUS
<1> USE NamesOfChecks DEF Opening
<1>0. TypeInv /\ TypeOK /\ Unmoved /\ Settled \subseteq Opening
  BY DEF PullInv, TypeInv, Settled
<1>1. CASE pc' \notin Settled
  BY <1>1 DEF Unmoved
<1>2. CASE pc' \notin Opening \/ pc' = "oid"
  BY <1>0, <1>1, <1>2 DEF Settled
<1>3. CASE pc \in Settled /\ Observe /\ UNCHANGED plan
  <2>1. since'.moved = (since.moved \/ canonical'[plan.to] # canonical[plan.to])
    BY <1>0, <1>3, ObserveOpening
  <2>2. ~since'.moved => canonical'[plan.to] = canonical[plan.to] /\ ~since.moved
    BY <2>1
  <2>3. QED
    BY <1>0, <1>3, <2>2 DEF Unmoved
<1>4. CASE Check
  <2>1. /\ pc \in CheckNames /\ Holds[pc] /\ Observe /\ pc' = After(pc)
        /\ UNCHANGED <<plan, canonical>>
    BY <1>4 DEF Check, Step, world, answers
  <2>2. CASE pc \in Settled
    BY <1>3, <2>1, <2>2
  <2>3. CASE pc = "repository"
    <3>1. canonical[plan.to] = plan.repository
      BY <2>1, <2>3 DEF Holds
    <3>2. QED
      BY <2>1, <3>1 DEF Unmoved
  <2>4. CASE pc \in {"oid", "ref", "status", "upstream", "dest", "urls", "to"}
    BY <1>1, <2>1, <2>4, OrderOfChecks DEF Settled
  <2>5. QED
    BY <2>1, <2>2, <2>3, <2>4 DEF Settled
<1>5. CASE RunStep \/ Surface \/ Create \/ SearchAgain
  BY <1>2, <1>5, Done DEF RunStep, Surface, Create, SearchAgain, Report
<1>6. CASE CreateFails
  BY <1>3, <1>6 DEF CreateFails, Settled
<1>7. CASE OthersAct
  <2>1. UNCHANGED <<plan, pc>> /\ Observe
    BY <1>7, OthersKeep
  <2>2. QED
    BY <1>1, <1>3, <2>1
<1>8. CASE UNCHANGED vars
  BY <1>0, <1>8 DEF vars, world, answers, Unmoved
<1>9. QED
  BY <1>0, <1>2, <1>4, <1>5, <1>6, <1>7, <1>8, Ahead DEF Next, OthersAct

\* Where nothing is resolved there is nothing to be exact.
LEMMA NothingRead ==
  ASSUME scan' = NoScan
  PROVE  ScanInv'
<1>1. scan'.place = "none"
  BY DEF NoScan
<1>2. ScanShape'
  BY <1>1 DEF ScanShape, NoScan
<1>3. QED
  BY <1>1, <1>2 DEF ScanInv, ScanExact

\* Where nothing that it depends on changes, a resolution stays exact.
LEMMA ExactStays ==
  ASSUME UNCHANGED <<answers, loaded, queue, scan, plan>>, Exact
  PROVE  Exact'
<1>1. UNCHANGED <<queue, scan>> /\ UNCHANGED <<tracking, canonical>>
  BY DEF answers
<1>2. /\ Scanned' = Scanned /\ (Aiming' <=> Aiming)
      /\ OpenFrom(scan.at)' = OpenFrom(scan.at)
  BY <1>1 DEF Scanned, Aiming, IsOpen, OpenFrom
<1>3. ReadExact'
  BY <1>1, <1>2, SameAnswers DEF Exact, ReadExact
<1>4. (\A b : IsBranches(b) => Followed(b))'
  BY <1>1, FollowedStays DEF Exact
<1>5. QED
  BY <1>3, <1>4 DEF Exact

\* A resolution is exact as long as nothing disturbs it.
LEMMA ScanStep == PullInv /\ [Next]_vars => ScanInv'
<1> SUFFICES ASSUME PullInv, [Next]_vars PROVE ScanInv'
  OBVIOUS
<1>0. TypeInv /\ TypeOK /\ ScanShape /\ ScanExact
  BY DEF PullInv, TypeInv, ScanInv
<1>1. CASE scan' = NoScan
  BY <1>1, NothingRead
<1>2. CASE Begin \/ FollowBranch \/ AimRequest
  <2>1. /\ pc \in Resolving /\ pc # "idle" /\ Observe
        /\ UNCHANGED <<answers, loaded, queue, plan, pc>>
    BY <1>2 DEF Begin, FollowBranch, AimRequest, Resolve, world, Resolving, Rechecking
  <2>2. CASE Begin
    <3>1. ScanShape' /\ Exact'
      BY <1>0, <2>1, <2>2, BeginExact DEF Begin
    <3>2. QED
      BY <3>1 DEF ScanInv, ScanExact
  <2>3. CASE FollowBranch \/ AimRequest
    <3>1. ScanShape' /\ (Exact => Exact')
      BY <1>0, <2>1, <2>3, FollowExact, AimExact DEF FollowBranch, AimRequest
    <3>2. scan.place # "none"
      BY <2>3 DEF FollowBranch, Follow, EndScan, FollowSame, FollowCheckout, FollowRemote,
                  FollowTracking, FollowCreate, Following, AimRequest, Aim, AimUpstream,
                  FollowPush, AimDestination, AimUrl, AimBaseName, AimRepository, AimSource,
                  AimBase
    <3>3. ASSUME pc \in Rechecking, ~since'.disturbed PROVE Exact'
      <4>1. ~since.disturbed
        BY <2>1, <3>2, <3>3, ObserveResolving
      <4>2. Exact
        BY <1>0, <3>2, <3>3, <4>1 DEF ScanExact
      <4>3. QED
        BY <3>1, <4>2
    <3>4. QED
      BY <2>1, <3>1, <3>3 DEF ScanInv, ScanExact
  <2>4. QED
    BY <1>2, <2>2, <2>3
<1>3. CASE UNCHANGED scan /\ scan.place = "none"
  <2>1. scan'.place = "none"
    BY <1>3
  <2>2. ScanShape'
    BY <1>0, <1>3 DEF ScanShape
  <2>3. QED
    BY <2>1, <2>2 DEF ScanInv, ScanExact
<1>4. CASE RunStep \/ Surface \/ Create \/ CreateFails \/ SearchAgain
  <2>1. UNCHANGED scan /\ pc \notin Resolving
    BY <1>4, NamesOfChecks DEF RunStep, Surface, Create, CreateFails, SearchAgain, Report,
                               Advance, Resolving, Rechecking
  <2>2. QED
    BY <1>0, <1>3, <2>1 DEF TypeOK
<1>5. CASE OthersAct
  <2>1. UNCHANGED <<loaded, queue, scan, plan, pc>> /\ Observe
    BY <1>5, OthersKeep
  <2>2. ScanShape'
    BY <1>0, <2>1 DEF ScanShape, ReadFields
  <2>3. ASSUME pc \in Rechecking, scan.place # "none", ~since'.disturbed PROVE Exact'
    <3>1. ~since.disturbed /\ UNCHANGED answers
      BY <2>1, <2>3, ObserveResolving
    <3>2. Exact
      BY <1>0, <2>3, <3>1 DEF ScanExact
    <3>3. QED
      BY <2>1, <3>1, <3>2, ExactStays
  <2>4. QED
    BY <2>1, <2>2, <2>3 DEF ScanInv, ScanExact
<1>6. CASE UNCHANGED vars
  <2>1. UNCHANGED <<answers, loaded, queue, scan, plan, pc, since>>
    BY <1>6 DEF vars, world
  <2>2. ScanShape'
    BY <1>0, <2>1 DEF ScanShape, ReadFields
  <2>3. ScanExact'
    BY <1>0, <2>1, ExactStays DEF ScanExact
  <2>4. QED
    BY <2>2, <2>3 DEF ScanInv
<1>7. CASE \/ \E requests \in Prompts : Submit(requests)
           \/ Preview \/ Prepare \/ Confirm \/ LoadPolicy \/ StartSequence
           \/ CheckBefore \/ CheckAfter \/ Compare \/ Check \/ Refuse
  BY <1>1, <1>7 DEF Submit, Preview, Prepare, Confirm, LoadPolicy, StartSequence, CheckBefore,
                    CheckAfter, Compare, Check, Refuse, Step
<1>8. CASE \/ ReadStatus \/ ReadUpstream \/ ReadDestination \/ ReadUrl \/ ReadHeadOid \/ ReadHeadRef
           \/ ReadBaseName \/ ReadRepository \/ ReadSource \/ ReadPublished \/ ReadBase
  BY <1>1, <1>8 DEF Learn, ReadStatus, ReadUpstream, ReadDestination, ReadUrl, ReadHeadOid,
       ReadHeadRef, ReadBaseName, ReadRepository, ReadSource, ReadPublished, ReadBase, Step
<1>9. QED
  BY <1>2, <1>4, <1>5, <1>6, <1>7, <1>8 DEF Next, OthersAct

\* When a step's turn has come, what follows it has been aimed as previewed, or
\* the resolution that said so was disturbed.
LEMMA AimedStep == PullInv /\ [Next]_vars => AimedOnTurn'
<1> SUFFICES ASSUME PullInv, [Next]_vars PROVE AimedOnTurn'
  OBVIOUS
<1> USE NamesOfChecks DEF Opening, Step
<1>0. TypeInv /\ TypeOK /\ AimedOnTurn /\ ScanShape /\ ScanExact
  BY DEF PullInv, TypeInv, ScanInv
<1>1. CASE pc' \notin {"compare", "run"}
  BY <1>1 DEF AimedOnTurn
<1>2. CASE queue' = queue /\ ~Downstream
  <2>1. ~Downstream'
    BY <1>2 DEF Downstream, OpenFrom, IsOpen
  <2>2. QED
    BY <2>1 DEF AimedOnTurn
<1>3. CASE queue' = queue /\ (since'.aimed \/ since'.disturbed)
  BY <1>3 DEF AimedOnTurn
<1>4. CASE StartSequence \/ CheckAfter
  <2>1. /\ pc \in Rechecking /\ pc # "idle" /\ AsPreviewed /\ Observe
        /\ queue' = queue
    BY <1>4 DEF StartSequence, CheckAfter, Rechecking
  <2>2. scan.place # "none"
    BY <2>1 DEF AsPreviewed
  <2>3. CASE since.disturbed
    BY <1>3, <2>1, <2>2, <2>3, ObserveResolving
  <2>4. CASE ~since.disturbed
    <3>1. Exact
      BY <1>0, <2>1, <2>2, <2>4 DEF ScanExact
    <3>2. Aimed
      BY <1>0, <2>1, <3>1, ResolvedAims
    <3>3. QED
      BY <1>3, <2>1, <3>2, ObserveResolving
  <2>5. QED
    BY <2>3, <2>4
<1>5. CASE pc \in {"compare", "run"} /\ Observe /\ queue' = queue
  <2>1. Downstream => since'.aimed \/ since'.disturbed
    BY <1>0, <1>5, ObserveWaiting DEF AimedOnTurn
  <2>2. QED
    BY <1>2, <1>3, <1>5, <2>1
<1>6. CASE Compare
  BY <1>5, <1>6 DEF Compare
<1>7. CASE Confirm
  <2>1. /\ pc = "confirm" /\ queue' = queue
        /\ pc' = IF IsSequence THEN "load" ELSE Dispatch(Request)
    BY <1>7 DEF Confirm
  <2>2. CASE IsSequence
    BY <1>1, <2>1, <2>2
  <2>3. CASE ~IsSequence
    <3>1. Len(queue.requests) \in Nat /\ Len(queue.requests) <= 1 /\ queue.at = 1
      BY <1>0, <2>1, <2>3, RequestType DEF IsSequence, TypeInv, Learned
    <3>2. ~Downstream
      BY <3>1 DEF Downstream, OpenFrom
    <3>3. QED
      BY <1>2, <2>1, <3>2
  <2>4. QED
    BY <2>2, <2>3
<1>8. CASE Prepare \/ ReadBase
  <2>1. queue' = queue /\ pc' = Planned
    BY <1>8 DEF Prepare, ReadBase, Learn
  <2>2. QED
    BY <1>1, <1>2, <2>1 DEF Planned
<1>9. CASE \/ \E requests \in Prompts : Submit(requests)
           \/ Begin \/ FollowBranch \/ AimRequest \/ Preview \/ LoadPolicy \/ CheckBefore
           \/ Refuse
  BY <1>1, <1>9 DEF Submit, Begin, FollowBranch, AimRequest, Resolve, Resolving, Rechecking,
                    Preview, LoadPolicy, CheckBefore, Refuse, PlanFrom
<1>10. CASE \/ ReadStatus \/ ReadUpstream \/ ReadDestination \/ ReadUrl \/ ReadHeadOid \/ ReadHeadRef
           \/ ReadBaseName \/ ReadRepository \/ ReadSource \/ ReadPublished
  BY <1>1, <1>10 DEF Learn, ReadStatus, ReadUpstream, ReadDestination, ReadUrl, ReadHeadOid,
       ReadHeadRef, ReadBaseName, ReadRepository, ReadSource, ReadPublished
<1>11. CASE RunStep \/ Surface \/ Create \/ SearchAgain
  BY <1>1, <1>11, Done DEF RunStep, Surface, Create, SearchAgain, Report
<1>12. CASE Check \/ CreateFails
  <2>1. CASE Check
    <3>1. pc \in CheckNames /\ pc' = After(pc)
      BY <2>1 DEF Check
    <3>2. After(pc) \notin {"compare", "run"}
      BY <3>1, OrderOfChecks
    <3>3. QED
      BY <1>1, <3>1, <3>2
  <2>2. CASE CreateFails
    BY <1>1, <2>2 DEF CreateFails
  <2>3. QED
    BY <1>12, <2>1, <2>2
<1>13. CASE OthersAct
  <2>1. UNCHANGED <<queue, pc>> /\ Observe
    BY <1>13, OthersKeep
  <2>2. QED
    BY <1>1, <1>5, <2>1
<1>14. CASE UNCHANGED vars
  <2>1. UNCHANGED <<queue, pc, since>>
    BY <1>14 DEF vars
  <2>2. QED
    BY <1>0, <2>1 DEF AimedOnTurn, Downstream, OpenFrom, IsOpen
<1>15. QED
  BY <1>4, <1>6, <1>7, <1>8, <1>9, <1>10, <1>11, <1>12, <1>13, <1>14 DEF Next, OthersAct

\* A step that does not touch what the prompt has done, or starts anew.
LEMMA EffectStutter ==
  ASSUME EffectOK, effect' \in {effect, NoEffect}
  PROVE  EffectOK'
  BY DEF EffectOK, CreatesWhatWasChecked, LandsWherePreviewed,
         StepsServeThePreviewedTarget, ReportsOpenPullRequests, NoEffect

\* A pull request that matches the payload is the one that is being opened.
LEMMA MatchIsThere ==
  ASSUME TypeInv, pc \in Opening, ~Holds["absent"]
  PROVE  IsThere
<1>1. PICK p \in pulls : p.repository = canonical[plan.to] /\ Matches(p, PlannedTarget)
  BY DEF Holds, Matching
<1>2. p \in Pulls
  BY DEF TypeInv, TypeOK
<1>3. p = Found
  BY <1>1, <1>2 DEF Matches, PlannedTarget, Pulls, Found
<1>4. QED
  BY <1>1, <1>3 DEF IsThere

\* While a pull request is being opened the payload is aimed where the preview
\* said.
LEMMA OpensThePreviewed ==
  ASSUME PullInv, pc \in Opening
  PROVE  Previewed = PlannedTarget
<1>1. queue.at \in Nat \ {0} \/ queue.at = 1
  BY NamesOfChecks, RequestType DEF PullInv, TypeInv, Opening
<1>2. QED
  BY <1>1 DEF PullInv, Compared, Previewed

\* Where the base repository still answers to its name, what is created or
\* found is what was planned.
LEMMA LandsAsPlanned ==
  ASSUME PullInv, pc \in Settled
  PROVE  since.moved \/ (Created = PlannedTarget /\ Found = PlannedTarget)
<1> SUFFICES ASSUME ~since.moved PROVE Created = PlannedTarget /\ Found = PlannedTarget
  BY DEF PullInv, TypeInv, TypeOK, Facts
<1>1. canonical[plan.to] = plan.repository /\ pc \in Opening
  BY NamesOfChecks DEF PullInv, Unmoved, Settled, Opening
<1>2. PlannedTarget \in Pulls /\ Created \in Pulls
  BY <1>1, CreatedType DEF PullInv
<1>3. Found = PlannedTarget
  BY <1>1 DEF Found, PlannedTarget
<1>4. /\ Created.repository = PlannedTarget.repository
      /\ Created.from = PlannedTarget.from
      /\ Created.base = PlannedTarget.base /\ Created.branch = PlannedTarget.branch
  BY <1>1 DEF Created, PlannedTarget
<1>5. QED
  BY <1>2, <1>3, <1>4 DEF Pulls

\* What is created has been checked, and lands where the preview said.
LEMMA CreationSafe ==
  ASSUME PullInv, pc = "create",
         effect' = [effect EXCEPT !.created = @ \cup {Creation}]
  PROVE  EffectOK'
<1>1. \A f \in CheckNames : since[f]
  BY DEF PullInv, Seen, Before, Opening
<1>2. Previewed = PlannedTarget
  BY OpensThePreviewed DEF Opening
<1>3. /\ Creation.since = since
      /\ Creation.pull = Creation.previewed \/ Creation.moved
  BY <1>2, LandsAsPlanned DEF Creation, Settled
<1>4. /\ effect'.created = effect.created \cup {Creation}
      /\ effect'.reported = effect.reported /\ effect'.steps = effect.steps
  BY DEF PullInv, TypeInv, Shapes
<1>5. QED
  BY <1>1, <1>3, <1>4
     DEF PullInv, EffectOK, CreatesWhatWasChecked, LandsWherePreviewed,
         StepsServeThePreviewedTarget, ReportsOpenPullRequests

\* What is reported is there, and is where the preview said.
LEMMA ReportSafe ==
  ASSUME PullInv, pc \in {"absent", "search"}, ~Holds["absent"], Report(Reported)
  PROVE  EffectOK'
<1>0. pc \in Opening /\ pc \in Settled
  BY NamesOfChecks DEF Opening, Settled
<1>1. IsThere
  BY <1>0, MatchIsThere DEF PullInv
<1>2. Previewed = PlannedTarget
  BY <1>0, OpensThePreviewed
<1>3. Reported.present /\ (Reported.pull = Reported.previewed \/ Reported.moved)
  BY <1>0, <1>1, <1>2, LandsAsPlanned DEF Reported
<1>4. /\ effect'.reported = effect.reported \cup {Reported}
      /\ effect'.created = effect.created /\ effect'.steps = effect.steps
  BY DEF Report, PullInv, TypeInv, Shapes
<1>5. QED
  BY <1>3, <1>4
     DEF PullInv, EffectOK, CreatesWhatWasChecked, LandsWherePreviewed,
         StepsServeThePreviewedTarget, ReportsOpenPullRequests

\* A step that has its effect precedes only requests aimed as previewed, or
\* resolved while an answer changed.
LEMMA RunSafe ==
  ASSUME PullInv, RunStep
  PROVE  EffectOK'
<1> DEFINE step == [aimed |-> since.aimed \/ Aimed, disturbed |-> since.disturbed]
<1>1. step.aimed \/ step.disturbed
  BY DEF PullInv, AimedOnTurn, Aimed, RunStep
<1>2. effect' = [effect EXCEPT !.steps = @ \cup {step}]
  BY DEF RunStep
<1> HIDE DEF step
<1>3. /\ effect'.steps = effect.steps \cup {step}
      /\ effect'.created = effect.created /\ effect'.reported = effect.reported
  BY <1>2 DEF PullInv, TypeInv, Shapes
<1>4. QED
  BY <1>1, <1>3
     DEF PullInv, EffectOK, CreatesWhatWasChecked, LandsWherePreviewed,
         StepsServeThePreviewedTarget, ReportsOpenPullRequests

\* Every step keeps what the prompt has done as it should be.
LEMMA EffectStep == PullInv /\ [Next]_vars => EffectOK'
<1> SUFFICES ASSUME PullInv, [Next]_vars PROVE EffectOK'
  OBVIOUS
<1>0. TypeInv /\ EffectOK
  BY DEF PullInv
<1>1. CASE effect' \in {effect, NoEffect}
  BY <1>0, <1>1, EffectStutter
<1>2. CASE RunStep
  BY <1>2, RunSafe
<1>3. CASE Surface \/ SearchAgain
  BY <1>3, ReportSafe DEF Surface, SearchAgain
<1>4. CASE Create
  BY <1>4, CreationSafe DEF Create
<1>5. CASE CreateFails
  BY <1>1, <1>5, CreationSafe DEF CreateFails
<1>6. CASE Check
  BY <1>1, <1>6 DEF Check
<1>7. CASE OthersAct
  BY <1>1, <1>7, OthersKeep
<1>8. CASE UNCHANGED vars
  BY <1>1, <1>8 DEF vars
<1>9. QED
  BY <1>0, <1>1, <1>2, <1>3, <1>4, <1>5, <1>6, <1>7, <1>8, Ahead DEF Next, OthersAct

\* The invariant holds throughout.
LEMMA PullInvariant == Spec => []PullInv
<1>1. Init => PullInv
  <2> SUFFICES ASSUME Init PROVE PullInv
    OBVIOUS
  <2>1. pc = "idle" /\ effect = NoEffect
    BY DEF Init
  <2>2. EffectOK
    BY <2>1 DEF EffectOK, CreatesWhatWasChecked, LandsWherePreviewed,
                StepsServeThePreviewedTarget, ReportsOpenPullRequests, NoEffect
  <2>3. Seen /\ Compared /\ Unmoved /\ AimedOnTurn
    BY <2>1, NamesOfChecks DEF Seen, Compared, Unmoved, AimedOnTurn, Opening, Settled
  <2>4. ScanInv
    BY DEF Init, NoScan, ScanInv, ScanShape, ScanExact
  <2>5. QED
    BY <2>2, <2>3, <2>4, InitType DEF PullInv
<1>2. PullInv /\ [Next]_vars => PullInv'
  <2> SUFFICES ASSUME PullInv, [Next]_vars PROVE PullInv'
    OBVIOUS
  <2>1. TypeInv'
    BY TypeStep DEF PullInv
  <2>2. ScanInv' /\ Seen' /\ Compared' /\ Unmoved' /\ AimedOnTurn' /\ EffectOK'
    BY ScanStep, SeenStep, ComparedStep, UnmovedStep, AimedStep, EffectStep
  <2>3. QED
    BY <2>1, <2>2 DEF PullInv
<1>3. QED
  BY <1>1, <1>2, PTL DEF Spec

-----------------------------------------------------------------------------
(***************************************************************************)
(* The theorems, for prompts of any length and whatever others do.         *)
(***************************************************************************)
\* A pull request is created only after each item of its payload has held
\* since the confirmation (the checks of run_open_pull_request_step, in any
\* interleaving with other clients, renames and pushes).
THEOREM CreationIsChecked == Spec => []CreatesWhatWasChecked
<1>1. PullInv => CreatesWhatWasChecked
  BY DEF PullInv, EffectOK
<1>2. QED
  BY <1>1, PullInvariant, PTL

\* A pull request lands, or is found, where its preview said, unless the
\* repository that answers to the base's name is exchanged after its last check
\* (prepared_pull_request_target, then validate_open_pull_request_plan).
THEOREM LandsAsPreviewed == Spec => []LandsWherePreviewed
<1>1. PullInv => LandsWherePreviewed
  BY DEF PullInv, EffectOK
<1>2. QED
  BY <1>1, PullInvariant, PTL

\* A step before a pull request has its effect only if the pull requests to
\* come were all aimed as previewed at one moment, although they are resolved
\* one read after the other, or if an answer changed among those reads
\* (execute_confirmed, deferred_pull_request_targets).
THEOREM StepsAreAimed == Spec => []StepsServeThePreviewedTarget
<1>1. PullInv => StepsServeThePreviewedTarget
  BY DEF PullInv, EffectOK
<1>2. QED
  BY <1>1, PullInvariant, PTL

\* A pull request reported as existing was open at some moment since the
\* confirmation (matching_pull_request, before and after a failed creation).
THEOREM ReportsAreTrue == Spec => []ReportsOpenPullRequests
<1>1. PullInv => ReportsOpenPullRequests
  BY DEF PullInv, EffectOK
<1>2. QED
  BY <1>1, PullInvariant, PTL
=============================================================================
