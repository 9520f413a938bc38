----------------------------- MODULE PullTargets -----------------------------
(***************************************************************************)
(* Where the pull requests of a prompt sequence go                         *)
(* (crates/bitbygit-tui/src/lib.rs: deferred_pull_request_targets,         *)
(* deferred_pull_request_target, github_base_repository).                  *)
(*                                                                         *)
(* The branch that each later request will find is followed through the    *)
(* sequence, and the target of each pull request is put together from what *)
(* Git and GitHub answer.  One item is read at a time, while everybody     *)
(* else may change what was read before.  TargetsFrom, at the end, is what *)
(* the same targets are when they are taken at one moment.                 *)
(***************************************************************************)
EXTENDS PushRoute, Sequences, Naturals

CONSTANTS
  Names,          \* HOST/OWNER/REPOSITORY names, in lower case, of one host
  RepositoryOf,   \* the name a URL stands for, Nil if it is not one of GitHub's
  DefaultBranch   \* the default branch of every repository

Requests == [kind : {"create", "checkout"}, branch : Branches]
            \cup [kind : {"track"}, branch : Destinations]
            \cup [kind : {"push", "open"}, branch : Refs]

ASSUME NameAssumption ==
  /\ RepositoryOf \in [Urls -> Names \cup {Nil}]
  /\ DefaultBranch \in Branches
  /\ Nil \notin Names

VARIABLES
  canonical,  \* the name of the repository that answers to a name
  published,  \* the branches of the repositories on GitHub
  tracking,   \* the commit of each remote-tracking branch, or Nil
  loaded,     \* the base branch the session's policy names, or Nil
  queue,      \* the prompt: its requests, the targets previewed, its place
  scan        \* the resolution in progress: its place, and what it has read

\* What a resolution reads.
answers == <<head, tip, tracking, config, canonical, published>>

SequenceBranch(name, bound, upstream) ==
  [name |-> name, bound |-> bound, upstream |-> upstream]
Unresolved == SequenceBranch(Nil, FALSE, Nil)

NoRead == [upstream |-> Nil, dest |-> Nil, from |-> Nil,
           to |-> Nil, repository |-> Nil, source |-> Nil]
NoScan == [place |-> "none", at |-> 0, branch |-> Unresolved, read |-> NoRead,
           targets |-> <<>>]

IsOpen(request) == request.kind = "open"

\* The pull requests of the prompt from a place on, but for the current step.
OpenFrom(i) ==
  {j \in (queue.at + 1)..Len(queue.requests) : i <= j /\ IsOpen(queue.requests[j])}

-----------------------------------------------------------------------------
(***************************************************************************)
(* Names.  A remote with one push URL is the repository it names; the base *)
(* of a pull request is the repository the same remote fetches from, if    *)
(* that is another one, or the remote called upstream, by its fetch URL or *)
(* else its push URL, or the head itself if there is no such remote.       *)
(***************************************************************************)
AnyOf(urls) == CHOOSE u \in Urls : u \in urls

\* single_pull_request_push_url, github_repository_from_push_url
SingleUrl(urls) == IF \E u \in Urls : urls = {u} THEN AnyOf(urls) ELSE Nil
HeadUrl(remote) == SingleUrl(config.urls[remote])
NameOf(url) == IF url = Nil THEN Nil ELSE RepositoryOf[url]

\* Git lists a remote by its URLs: one without any is not there.
UpstreamUrl ==
  IF "upstream" \notin Remotes THEN Nil
  ELSE IF config.fetch["upstream"] # Nil THEN config.fetch["upstream"]
  ELSE IF config.urls["upstream"] # {} THEN AnyOf(config.urls["upstream"])
  ELSE Nil

\* github_base_repository; Nil where a URL is not one of GitHub's.
BaseName(remote, from) ==
  LET own == config.fetch[remote]
  IN IF own # Nil /\ NameOf(own) # from THEN NameOf(own)
     ELSE IF UpstreamUrl # Nil THEN NameOf(UpstreamUrl)
     ELSE from

\* branch_oid, branch_exists: of the repository that answers to a name.
BranchOid(name, branch) == published[<<canonical[name], branch>>]

BaseBranch(requested) == OrElse(requested, OrElse(loaded, DefaultBranch))

\* validate_pull_request_base_head
DistinctRefs(repository, base, source, branch) == ~(repository = source /\ base = branch)

UpstreamOf(b) == IF b.bound THEN b.upstream ELSE config.upstream[b.name]

-----------------------------------------------------------------------------
(***************************************************************************)
(* Following the branch.  Unbound, its upstream is the configured one; a   *)
(* new branch has none, and a first push or a tracking checkout binds it.  *)
(***************************************************************************)
Scanned == queue.requests[scan.at]
Aiming  == IsOpen(Scanned) /\ scan.at > queue.at

BeginScan(name) ==
  /\ scan.place = "none"
  /\ scan' = [NoScan EXCEPT !.place = "follow", !.at = queue.at,
                            !.branch = SequenceBranch(name, FALSE, Nil),
                            !.targets = [i \in DOMAIN queue.requests |-> Nil]]

FollowTo(b) ==
  scan' = [scan EXCEPT !.place = "follow", !.at = @ + 1, !.branch = b, !.read = NoRead]

EndScan ==
  /\ scan.place = "follow"
  /\ OpenFrom(scan.at) = {}
  /\ scan' = [scan EXCEPT !.place = "resolved"]

Following(kind) ==
  /\ scan.place = "follow"
  /\ OpenFrom(scan.at) # {}
  /\ Scanned.kind = kind

\* A checkout of the branch it is on, or a pull request that is the current step.
FollowSame ==
  /\ \/ Following("checkout") /\ Scanned.branch = scan.branch.name
     \/ Following("open") /\ ~Aiming
  /\ FollowTo(scan.branch)

FollowCheckout ==
  /\ Following("checkout")
  /\ Scanned.branch # scan.branch.name
  /\ tip[Scanned.branch] # Nil
  /\ FollowTo(SequenceBranch(Scanned.branch, FALSE, Nil))

\* A remote branch, and then that there is no local one of its name.
FollowRemote ==
  /\ Following("track")
  /\ tracking[Scanned.branch] # Nil
  /\ scan' = [scan EXCEPT !.place = "available"]

FollowTracking ==
  /\ scan.place = "available"
  /\ tip[Scanned.branch[2]] = Nil
  /\ FollowTo(SequenceBranch(Scanned.branch[2], TRUE, Scanned.branch))

FollowCreate ==
  /\ Following("create")
  /\ FollowTo(SequenceBranch(Scanned.branch, TRUE, Nil))

Follow == EndScan \/ FollowSame \/ FollowCheckout \/ FollowRemote \/ FollowTracking \/ FollowCreate

-----------------------------------------------------------------------------
(***************************************************************************)
(* Aiming: a push asks where the branch goes, a pull request for the rest. *)
(***************************************************************************)
ReadNext(place, read) == scan' = [scan EXCEPT !.place = place, !.read = read]

AimUpstream ==
  /\ Following("push") \/ (Following("open") /\ Aiming)
  /\ scan.branch.name # Nil
  /\ ReadNext("dest", [NoRead EXCEPT !.upstream = UpstreamOf(scan.branch)])

Destination == TypedPushTarget(scan.branch.name, scan.read.upstream)

FollowPush ==
  /\ scan.place = "dest"
  /\ ~IsOpen(Scanned)
  /\ Destination # Nil
  /\ FollowTo(IF scan.read.upstream = Nil
              THEN SequenceBranch(scan.branch.name, TRUE, Destination) ELSE scan.branch)

AimDestination ==
  /\ scan.place = "dest"
  /\ IsOpen(Scanned)
  /\ scan.read.upstream # Nil
  /\ Destination # Nil
  /\ ReadNext("url", [scan.read EXCEPT !.dest = Destination])

AimUrl ==
  /\ scan.place = "url"
  /\ NameOf(HeadUrl(scan.read.dest[1])) # Nil
  /\ ReadNext("to", [scan.read EXCEPT !.from = NameOf(HeadUrl(scan.read.dest[1]))])

AimBaseName ==
  /\ scan.place = "to"
  /\ BaseName(scan.read.dest[1], scan.read.from) # Nil
  /\ ReadNext("repository",
              [scan.read EXCEPT !.to = BaseName(scan.read.dest[1], scan.read.from)])

\* One answer serves both where the head is the base.
AimRepository ==
  /\ scan.place = "repository"
  /\ LET answer == canonical[scan.read.to]
     IN IF scan.read.from = scan.read.to
        THEN ReadNext("base", [scan.read EXCEPT !.repository = answer, !.source = answer])
        ELSE ReadNext("source", [scan.read EXCEPT !.repository = answer])

AimSource ==
  /\ scan.place = "source"
  /\ ReadNext("base", [scan.read EXCEPT !.source = canonical[scan.read.from]])

AimBase ==
  /\ scan.place = "base"
  /\ LET base == BaseBranch(Scanned.branch)
         read == scan.read
     IN /\ DistinctRefs(read.repository, base, read.source, read.dest[2])
        /\ BranchOid(read.to, base) # Nil
        /\ scan' = [scan EXCEPT
                      !.place = "follow", !.at = @ + 1, !.read = NoRead,
                      !.targets[scan.at] = [repository |-> read.repository, base |-> base,
                                            from |-> read.source, branch |-> read.dest[2]]]

Aim == \/ AimUpstream \/ FollowPush \/ AimDestination \/ AimUrl \/ AimBaseName
       \/ AimRepository \/ AimSource \/ AimBase

\* Each later pull request has the target the preview said.
AsPreviewed ==
  /\ scan.place = "resolved"
  /\ \A i \in OpenFrom(queue.at) : scan.targets[i] = queue.targets[i]

-----------------------------------------------------------------------------
(***************************************************************************)
(* The same at one moment: the branch before each request, and from it the *)
(* target of a pull request, all in the present state.                     *)
(***************************************************************************)
AfterRequest(b, request) ==
  CASE request.kind = "create" -> SequenceBranch(request.branch, TRUE, Nil)
    [] request.kind = "checkout" /\ request.branch # b.name ->
         IF tip[request.branch] = Nil THEN Unresolved
         ELSE SequenceBranch(request.branch, FALSE, Nil)
    [] request.kind = "track" ->
         IF tracking[request.branch] = Nil \/ tip[request.branch[2]] # Nil THEN Unresolved
         ELSE SequenceBranch(request.branch[2], TRUE, request.branch)
    [] request.kind = "push" /\ b.name # Nil ->
         LET target == TypedPushTarget(b.name, UpstreamOf(b))
         IN IF target = Nil THEN Unresolved
            ELSE IF UpstreamOf(b) = Nil THEN SequenceBranch(b.name, TRUE, target)
            ELSE b
    [] OTHER -> b

BranchesFrom(name) ==
  LET b[i \in queue.at..Len(queue.requests)] ==
        IF i = queue.at THEN SequenceBranch(name, FALSE, Nil)
        ELSE AfterRequest(b[i - 1], queue.requests[i - 1])
  IN b

TargetOf(b, requested) ==
  LET dest   == TypedPushTarget(b.name, UpstreamOf(b))
      from   == NameOf(HeadUrl(dest[1]))
      to     == BaseName(dest[1], from)
      base   == BaseBranch(requested)
      target == [repository |-> canonical[to], base |-> base,
                 from |-> canonical[from], branch |-> dest[2]]
  IN IF \/ b.name = Nil
        \/ UpstreamOf(b) = Nil
        \/ dest = Nil
        \/ from = Nil
        \/ to = Nil
        \/ ~DistinctRefs(target.repository, base, target.from, target.branch)
        \/ BranchOid(to, base) = Nil
     THEN Nil ELSE target

\* Starting on a given branch, the later pull requests go where the preview said.
TargetsFrom(name) ==
  LET b == BranchesFrom(name)
  IN \A i \in OpenFrom(queue.at) :
       TargetOf(b[i], queue.requests[i].branch) = queue.targets[i]

=============================================================================
