-------------------------- MODULE RemotePush_proofs --------------------------
(***************************************************************************)
(* What RemotePush guarantees for all repositories, remotes and            *)
(* configurations, whatever others push and edit meanwhile.                *)
(***************************************************************************)
EXTENDS RemotePush, TLAPS

\* The history is a record of Booleans.
LEMMA ObserveType == Observe => since' \in Histories
  BY DEF Observe, Histories, Nothing

\* What has been seen stays seen until the plan is done with.
LEMMA ObserveKeeps ==
  ASSUME Observe, pc' \in Executing
  PROVE  /\ since.oid \/ HeadOid' = plan'.oid => since'.oid
         /\ since.ref \/ HeadRef' = plan'.branch => since'.ref
         /\ since.route \/ Routed' => since'.route
<1>1. since' = [oid   |-> since.oid \/ HeadOid' = plan'.oid,
                ref   |-> since.ref \/ HeadRef' = plan'.branch,
                route |-> since.route \/ Routed']
  BY DEF Observe
<1>2. QED
  BY <1>1, Zenon

\* A branch resolves to a destination or to none.
LEMMA TargetType ==
  ASSUME config \in ConfigRecords, NEW branch \in Branches,
         NEW upstream \in Destinations \cup {Nil}
  PROVE  TypedPushTarget(branch, upstream) \in Destinations \cup {Nil}
<1>1. /\ config.pushRemote[branch] \in Remotes \cup {Nil}
      /\ config.pushDefault \in Remotes \cup {Nil}
      /\ config.defaultRemote \in Remotes \cup {Nil}
  BY DEF ConfigRecords
<1>2. upstream # Nil => upstream[1] \in Remotes
  BY DEF Destinations
<1>3. ChosenRemote(branch, upstream) \in Remotes \cup {Nil}
  BY <1>1, <1>2 DEF ChosenRemote, OrElse
<1>4. QED
  BY <1>3 DEF TypedPushTarget, Destinations

-----------------------------------------------------------------------------
(***************************************************************************)
(* Types.  A push may only be typed if its destination is known, so the    *)
(* invariant says from where on it is.                                     *)
(***************************************************************************)
Targeted ==
  pc \in {"remote", "confirm"} \cup Executing =>
    plan.target \in Destinations /\ plan.url \in Urls

TypeInv == TypeOK /\ Targeted

\* The initial states are typed.
LEMMA InitType == Init => TypeInv
<1> SUFFICES ASSUME Init PROVE TypeInv
  OBVIOUS
<1> USE DEF Oids, Refs
<1>1. plan \in PlanRecords /\ plan.branch = Nil
  BY DEF Init, NoPlan, PlanRecords
<1>2. since \in Histories /\ effect = NoEffect /\ pc = "idle"
  BY DEF Init, Nothing, Histories
<1>3. config \in ConfigRecords
  BY PushAssumption DEF Init
<1>4. head \in Branches /\ tip \in [Branches -> Oids] /\ remote \in [Urls \X Branches -> Oids]
  BY DEF Init
<1>5. QED
  BY <1>1, <1>2, <1>3, <1>4
     DEF TypeInv, TypeOK, LocalTypeOK, Targeted, Executing, Planning, PlanRecords, Histories,
         NoEffect, EffectRecords

\* Every step keeps the types.
LEMMA TypeStep == TypeInv /\ [Next]_vars => TypeInv'
<1> SUFFICES ASSUME TypeInv, [Next]_vars PROVE TypeInv'
  OBVIOUS
<1> USE GraphAssumption, PushAssumption
<1> USE DEF TypeInv, TypeOK, LocalTypeOK, Targeted, Oids, Refs, Planning, Executing
<1>1. CASE ReadStatus
  <2>1. plan' \in PlanRecords /\ plan'.branch # Nil
    BY <1>1 DEF ReadStatus, OnBornBranch, NoPlan, ConfigRecords, PlanRecords
  <2>2. QED
    BY <1>1, <2>1, ObserveType DEF ReadStatus, Goto, NoEffect, EffectRecords
<1>2. CASE ReadHeadOid
  BY <1>2, ObserveType DEF ReadHeadOid, Goto, HeadOid, PlanRecords
<1>3. CASE ReadHeadRef
  BY <1>3, ObserveType DEF ReadHeadRef, Goto, HeadRef, PlanRecords
<1>4. CASE ReadRoute
  <2>1. plan.branch \in Branches /\ plan.upstream \in Destinations \cup {Nil}
    BY <1>4 DEF ReadRoute, PlanRecords
  <2>2. TypedPushTarget(plan.branch, plan.upstream) \in Destinations \cup {Nil}
    BY <2>1, TargetType
  <2>3. PICK target, url :
          /\ target = TypedPushTarget(plan.branch, plan.upstream) /\ target # Nil
          /\ config.urls[target[1]] = {url}
          /\ plan' = [plan EXCEPT !.target = target, !.url = url]
    BY <1>4 DEF ReadRoute
  <2>4. target \in Destinations /\ url \in Urls
    <3>1. target \in Destinations
      BY <2>2, <2>3
    <3>2. config.urls[target[1]] \subseteq Urls
      BY <3>1 DEF Destinations, ConfigRecords
    <3>3. QED
      BY <3>1, <3>2, <2>3
  <2>5. plan' \in PlanRecords /\ plan'.branch # Nil /\ plan'.target \in Destinations
          /\ plan'.url \in Urls
    BY <2>1, <2>3, <2>4 DEF PlanRecords
  <2>6. QED
    BY <1>4, <2>5, ObserveType DEF ReadRoute, Goto
<1>5. CASE ReadRemote
  <2>1. remote[<<plan.url, plan.target[2]>>] \in Oids
    BY <1>5 DEF ReadRemote, Destinations
  <2>2. QED
    BY <1>5, <2>1, ObserveType DEF ReadRemote, Goto, PlanRecords
<1>6. CASE Confirm \/ CheckHeadOid \/ CheckHeadRef \/ CheckStatus \/ CheckRoute
  BY <1>6, ObserveType
     DEF Confirm, CheckHeadOid, CheckHeadRef, CheckStatus, CheckRoute, Goto
<1>7. CASE Push
  <2> DEFINE name == plan.target[2]
  <2>1. name \in Branches /\ config.urls[plan.target[1]] \subseteq Urls
    BY <1>7 DEF Push, Destinations, ConfigRecords
  <2>2. PICK landed \in SUBSET {url \in config.urls[plan.target[1]] : Accepts(url)} :
          /\ remote' = [place \in DOMAIN remote |->
                          IF place[2] = name /\ place[1] \in landed
                          THEN plan.oid ELSE remote[place]]
          /\ effect' =
               [effect EXCEPT
                  !.landed = landed,
                  !.pushes = {[old |-> remote[<<url, name>>], new |-> plan.oid,
                               expected |-> plan.expected, since |-> since] :
                                url \in {u \in landed : remote[<<u, name>>] # plan.oid}}]
    BY <1>7 DEF Push
  <2>3. remote' \in [Urls \X Branches -> Oids]
    <3>1. plan.oid \in Oids /\ DOMAIN remote = Urls \X Branches
      BY DEF PlanRecords
    <3>2. QED
      BY <2>2, <3>1
  <2>4. {[old |-> remote[<<url, name>>], new |-> plan.oid, expected |-> plan.expected,
          since |-> since] : url \in {u \in landed : remote[<<u, name>>] # plan.oid}}
          \subseteq PushRecords
    <3> SUFFICES ASSUME NEW url \in landed
                 PROVE  [old |-> remote[<<url, name>>], new |-> plan.oid,
                         expected |-> plan.expected, since |-> since] \in PushRecords
      OBVIOUS
    <3>1. remote[<<url, name>>] \in Oids
      BY <2>1, <2>2
    <3>2. plan.oid \in Oids /\ plan.expected \in Oids
      BY DEF PlanRecords
    <3>3. QED
      BY <3>1, <3>2 DEF PushRecords
  <2>5. /\ effect'.landed = landed
        /\ effect'.bound = effect.bound
        /\ effect'.pushes \subseteq PushRecords
        /\ effect' \in EffectRecords
    BY <2>1, <2>2, <2>4 DEF EffectRecords
  <2>6. \/ pc' = "upstream" /\ plan' = plan
        \/ pc' = "idle" /\ plan' = NoPlan
    BY <1>7 DEF Push
  <2>7. plan' \in PlanRecords /\ (pc' = "idle" <=> plan'.branch = Nil)
    BY <1>7, <2>6 DEF Push, PlanRecords, NoPlan
  <2>8. QED
    BY <1>7, <2>3, <2>5, <2>6, <2>7, ObserveType DEF Push
<1>8. CASE SetUpstream
  <2>1. <<plan.target[1], plan.branch>> \in Destinations /\ plan.branch \in Branches
    BY <1>8 DEF SetUpstream, Destinations, PlanRecords
  <2>2. config' \in ConfigRecords
    BY <1>8, <2>1 DEF SetUpstream, ConfigRecords
  <2>3. QED
    BY <1>8, <2>2, ObserveType DEF SetUpstream, NoPlan, PlanRecords, EffectRecords
<1>9. CASE Refuse
  BY <1>9, ObserveType DEF Refuse, Goto, NoPlan, PlanRecords
<1>10. CASE OtherClient
  <2>1. head' \in Branches \cup Commits /\ tip' \in [Branches -> Oids]
    <3>1. CASE SwitchHead
      BY <3>1 DEF SwitchHead
    <3>2. CASE MoveBranch
      <4>1. PICK b \in Branches, oid \in Oids : tip' = [tip EXCEPT ![b] = oid]
        BY <3>2 DEF MoveBranch
      <4>2. QED
        BY <3>2, <4>1 DEF MoveBranch
    <3>3. QED
      BY <1>10, <3>1, <3>2 DEF OtherClient, OtherLocalClient
  <2>2. UNCHANGED <<config, remote, pc, plan, effect>> /\ since' \in Histories
    BY <1>10, ObserveType DEF OtherClient
  <2>3. QED
    BY <2>1, <2>2
<1>11. CASE EditConfig \/ OtherPush
  <2>1. config' \in ConfigRecords /\ remote' \in [Urls \X Branches -> Oids]
    <3>1. CASE EditConfig
      BY <3>1 DEF EditConfig
    <3>2. CASE OtherPush
      <4>1. PICK place \in Urls \X Branches, oid \in Oids :
              remote' = [remote EXCEPT ![place] = oid]
        BY <3>2 DEF OtherPush
      <4>2. QED
        BY <3>2, <4>1 DEF OtherPush
    <3>3. QED
      BY <1>11, <3>1, <3>2
  <2>2. UNCHANGED <<head, tip, pc, plan, effect>> /\ since' \in Histories
    BY <1>11, ObserveType DEF EditConfig, OtherPush
  <2>3. QED
    BY <2>1, <2>2
<1>12. CASE UNCHANGED vars
  BY <1>12 DEF vars
<1>13. QED
  BY <1>1, <1>2, <1>3, <1>4, <1>5, <1>6, <1>7, <1>8, <1>9, <1>10, <1>11, <1>12 DEF Next

\* Reachable states have their types.
THEOREM TypeCorrect == Spec => []TypeOK
<1>1. TypeInv => TypeOK
  BY DEF TypeInv
<1>2. QED
  BY <1>1, InitType, TypeStep, PTL DEF Spec

-----------------------------------------------------------------------------
(***************************************************************************)
(* The inductive invariant: at each place of the execution, what the       *)
(* checks so far have seen.                                                *)
(***************************************************************************)
PastRoute  == {"push", "upstream"}
PastStatus == {"check route"} \cup PastRoute
PastOid    == {"check ref", "check status"} \cup PastStatus

Seen ==
  /\ pc \in PastOid => since.oid
  /\ pc \in PastStatus => since.ref
  /\ pc \in PastRoute => since.route

Checked == pc \in PastRoute => plan.oid # Nil /\ FastForwards

Landed ==
  /\ pc = "upstream" => effect.landed # {}
  /\ pc # "idle" => ~effect.bound

Safe ==
  /\ ReplacesPreviewedObject
  /\ NeverRewinds
  /\ PushesConfirmedState
  /\ UpstreamFollowsPush

PushInv == TypeInv /\ Seen /\ Checked /\ Landed /\ Safe

\* A step that pushes nothing cannot break what is said about pushes.
LEMMA SafeStutter == Safe /\ (effect' = effect \/ effect' = NoEffect) => Safe'
<1> SUFFICES ASSUME Safe, effect' = effect \/ effect' = NoEffect PROVE Safe'
  OBVIOUS
<1>1. effect'.pushes \subseteq effect.pushes
  BY DEF NoEffect
<1>2. effect'.bound => effect'.landed # {}
  BY DEF NoEffect, Safe, UpstreamFollowsPush
<1>3. ReplacesPreviewedObject' /\ NeverRewinds' /\ PushesConfirmedState'
  BY <1>1 DEF Safe, ReplacesPreviewedObject, NeverRewinds, PushesConfirmedState, IsAncestor
<1>4. QED
  BY <1>2, <1>3 DEF Safe, UpstreamFollowsPush

\* Every step keeps the invariant.
LEMMA PushStep == PushInv /\ [Next]_vars => PushInv'
<1> SUFFICES ASSUME PushInv, [Next]_vars PROVE PushInv'
  OBVIOUS
<1>t. TypeInv /\ TypeInv' /\ Safe
  BY TypeStep DEF PushInv
<1> USE DEF PastOid, PastStatus, PastRoute
<1>1. CASE ReadStatus \/ ReadHeadOid \/ ReadHeadRef \/ ReadRoute \/ ReadRemote \/ Refuse
  <2>1. pc' \notin Executing /\ (effect' = effect \/ effect' = NoEffect)
    BY <1>1 DEF ReadStatus, ReadHeadOid, ReadHeadRef, ReadRoute, ReadRemote, Refuse, Goto,
                Executing
  <2>2. Seen' /\ Checked'
    BY <2>1 DEF Seen, Checked, Executing
  <2>3. \/ effect' = NoEffect
        \/ pc # "idle" /\ effect' = effect
        \/ pc' = "idle"
    BY <1>1 DEF ReadStatus, ReadHeadOid, ReadHeadRef, ReadRoute, ReadRemote, Refuse, Goto
  <2>4. pc' # "idle" => ~effect'.bound
    BY <2>3 DEF Landed, PushInv, NoEffect
  <2>5. QED
    BY <1>t, <2>1, <2>2, <2>4, SafeStutter DEF PushInv, Landed, Executing
<1>2. CASE Confirm \/ CheckHeadOid \/ CheckHeadRef \/ CheckStatus \/ CheckRoute
  <2> USE DEF Confirm, CheckHeadOid, CheckHeadRef, CheckStatus, CheckRoute, Goto
  <2>1. /\ UNCHANGED <<head, tip, config, remote, plan, effect>>
        /\ Observe
        /\ pc' \in Executing \ {"upstream"}
    BY <1>2 DEF Executing
  <2>2. /\ pc \in PastOid => since'.oid
        /\ pc \in PastStatus => since'.ref
    BY <2>1, ObserveKeeps DEF PushInv, Seen
  <2>3. CASE Confirm
    BY <1>t, <2>1, <2>3, SafeStutter DEF PushInv, Seen, Checked, Landed
  <2>4. CASE CheckHeadOid
    <3>1. since'.oid
      BY <2>1, <2>4, ObserveKeeps DEF HeadOid
    <3>2. QED
      BY <1>t, <2>1, <2>4, <3>1, SafeStutter DEF PushInv, Seen, Checked, Landed
  <2>5. CASE CheckHeadRef
    BY <1>t, <2>1, <2>2, <2>5, SafeStutter DEF PushInv, Seen, Checked, Landed
  <2>6. CASE CheckStatus
    <3>1. HeadRef' = plan'.branch
      BY <2>1, <2>6 DEF OnBornBranch, HeadRef
    <3>2. since'.ref
      BY <2>1, <3>1, ObserveKeeps
    <3>3. QED
      BY <1>t, <2>1, <2>2, <2>6, <3>2, SafeStutter DEF PushInv, Seen, Checked, Landed
  <2>7. CASE CheckRoute
    <3>1. Routed'
      BY <2>1, <2>7 DEF Routed, TypedPushTarget, ChosenRemote
    <3>2. since'.route
      BY <2>1, <3>1, ObserveKeeps
    <3>3. Checked'
      BY <2>1, <2>7 DEF Checked, FastForwards, IsAncestor
    <3>4. QED
      BY <1>t, <2>1, <2>2, <2>7, <3>2, <3>3, SafeStutter DEF PushInv, Seen, Landed
  <2>8. QED
    BY <1>2, <2>3, <2>4, <2>5, <2>6, <2>7
<1>3. CASE Push
  <2> DEFINE name == plan.target[2]
             record(url) == [old |-> remote[<<url, name>>], new |-> plan.oid,
                             expected |-> plan.expected, since |-> since]
  <2>1. PICK landed \in SUBSET {url \in config.urls[plan.target[1]] : Accepts(url)} :
          /\ effect' = [effect EXCEPT
               !.landed = landed,
               !.pushes = {record(url) : url \in {u \in landed : remote[<<u, name>>] # plan.oid}}]
          /\ \/ landed # {} /\ pc' = "upstream" /\ UNCHANGED plan
             \/ pc' = "idle"
    BY <1>3 DEF Push
  <2>2. /\ effect'.landed = landed
        /\ effect'.bound = effect.bound
        /\ effect'.pushes = {record(url) : url \in {u \in landed : remote[<<u, name>>] # plan.oid}}
    BY <1>t, <2>1 DEF TypeInv, TypeOK, EffectRecords
  <2>3. since.oid /\ since.ref /\ since.route /\ plan.oid # Nil /\ FastForwards
    BY <1>3 DEF Push, PushInv, Seen, Checked
  <2>4. pc = "push" /\ Observe /\ UNCHANGED <<head, tip, config>>
    BY <1>3 DEF Push
  <2>5. Seen' /\ Checked'
    <3>1. CASE pc' = "upstream"
      <4>1. UNCHANGED plan
        BY <2>1, <3>1
      <4>2. since'.oid /\ since'.ref /\ since'.route
        BY <2>3, <2>4, <3>1, ObserveKeeps DEF Executing
      <4>3. QED
        BY <2>3, <4>1, <4>2 DEF Seen, Checked, FastForwards, IsAncestor
    <3>2. CASE pc' = "idle"
      BY <3>2 DEF Seen, Checked
    <3>3. QED
      BY <2>1, <3>1, <3>2
  <2>6. Landed' /\ ~effect'.bound
    BY <2>1, <2>2, <2>4 DEF Landed, PushInv
  <2>7. \A p \in effect'.pushes :
          /\ p.old = plan.expected
          /\ p.new = plan.oid
          /\ p.expected = plan.expected
          /\ p.since = since
    <3> SUFFICES ASSUME NEW url \in landed, remote[<<url, name>>] # plan.oid
                 PROVE  /\ record(url).old = plan.expected
                        /\ record(url).new = plan.oid
                        /\ record(url).expected = plan.expected
                        /\ record(url).since = since
      BY <2>2
    <3>1. Accepts(url)
      OBVIOUS
    <3>2. QED
      BY <3>1 DEF Accepts
  <2>8. plan.oid \in Commits
    BY <1>t, <2>3 DEF TypeInv, TypeOK, PlanRecords, Oids
  <2>9. since = [oid |-> TRUE, ref |-> TRUE, route |-> TRUE]
    BY <1>t, <2>3 DEF TypeInv, TypeOK, Histories
  <2>10. ReplacesPreviewedObject' /\ NeverRewinds' /\ PushesConfirmedState'
    BY <2>3, <2>7, <2>8, <2>9
       DEF ReplacesPreviewedObject, NeverRewinds, PushesConfirmedState, FastForwards, IsAncestor
  <2>11. UpstreamFollowsPush'
    BY <2>6 DEF UpstreamFollowsPush
  <2>12. QED
    BY <1>t, <2>5, <2>6, <2>10, <2>11 DEF PushInv, Safe
<1>4. CASE SetUpstream
  <2>1. effect' = [effect EXCEPT !.bound = TRUE] /\ pc = "upstream" /\ pc' = "idle"
    BY <1>4 DEF SetUpstream
  <2>2. effect'.pushes = effect.pushes /\ effect'.landed = effect.landed
    BY <1>t, <2>1 DEF TypeInv, TypeOK, EffectRecords
  <2>3. Safe'
    BY <1>t, <2>1, <2>2 DEF PushInv, Landed, Safe, ReplacesPreviewedObject, NeverRewinds,
       PushesConfirmedState, UpstreamFollowsPush, IsAncestor
  <2>4. QED
    BY <1>t, <2>1, <2>3 DEF PushInv, Seen, Checked, Landed
<1>5. CASE OtherClient \/ EditConfig \/ OtherPush
  <2>1. UNCHANGED <<pc, plan, effect>> /\ Observe
    BY <1>5 DEF OtherClient, EditConfig, OtherPush
  <2>2. Seen'
    BY <2>1, ObserveKeeps DEF PushInv, Seen, Executing
  <2>3. Checked' /\ Landed'
    BY <2>1 DEF PushInv, Checked, Landed, FastForwards, IsAncestor
  <2>4. QED
    BY <1>t, <2>1, <2>2, <2>3, SafeStutter DEF PushInv
<1>6. CASE UNCHANGED vars
  <2>1. Seen' /\ Checked' /\ Landed'
    BY <1>6 DEF vars, PushInv, Seen, Checked, Landed, FastForwards, IsAncestor
  <2>2. QED
    BY <1>t, <1>6, <2>1, SafeStutter DEF vars, PushInv
<1>7. QED
  BY <1>1, <1>2, <1>3, <1>4, <1>5, <1>6 DEF Next

\* The invariant holds throughout.
LEMMA PushInvariant == Spec => []PushInv
<1>1. Init => PushInv
  <2> SUFFICES ASSUME Init PROVE PushInv
    OBVIOUS
  <2>1. pc = "idle" /\ effect = NoEffect
    BY DEF Init
  <2>2. Seen /\ Checked /\ Landed
    BY <2>1 DEF Seen, Checked, Landed, PastOid, PastStatus, PastRoute
  <2>3. Safe
    BY <2>1 DEF NoEffect, Safe, ReplacesPreviewedObject, NeverRewinds, PushesConfirmedState,
       UpstreamFollowsPush
  <2>4. QED
    BY <2>2, <2>3, InitType DEF PushInv
<1>2. QED
  BY <1>1, PushStep, PTL DEF Spec

-----------------------------------------------------------------------------
(***************************************************************************)
(* The theorems, for all repositories, configurations and other clients.   *)
(***************************************************************************)
\* push_current_branch's lease and the validation together: the object that
\* is replaced is the one the preview saw.
THEOREM PreviewedObjectIsReplaced == Spec => []ReplacesPreviewedObject
<1>1. PushInv => ReplacesPreviewedObject
  BY DEF PushInv, Safe
<1>2. QED
  BY <1>1, PushInvariant, PTL

\* ensure_push_is_fast_forward and the lease: no commit leaves a remote branch.
THEOREM PushesOnlyFastForward == Spec => []NeverRewinds
<1>1. PushInv => NeverRewinds
  BY DEF PushInv, Safe
<1>2. QED
  BY <1>1, PushInvariant, PTL

\* validate_push_plan: commit, branch and destination have been those of the
\* repository since the confirmation.
THEOREM PushedStateWasSeen == Spec => []PushesConfirmedState
<1>1. PushInv => PushesConfirmedState
  BY DEF PushInv, Safe
<1>2. QED
  BY <1>1, PushInvariant, PTL

\* The second step of a push that sets the upstream follows a first that landed.
THEOREM UpstreamNeedsPush == Spec => []UpstreamFollowsPush
<1>1. PushInv => UpstreamFollowsPush
  BY DEF PushInv, Safe
<1>2. QED
  BY <1>1, PushInvariant, PTL

\* run_push_current_branch_step and run_push_set_upstream_step: a push does what its preview announced, or nothing.
THEOREM PushesAreAsPreviewed == Spec => []PushesAsPreviewed
<1>1. PushInv => PushesAsPreviewed
  BY DEF PushInv, Safe, PushesAsPreviewed
<1>2. QED
  BY <1>1, PushInvariant, PTL

=============================================================================
