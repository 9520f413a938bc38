# A TLA+ model of BitByGit

BitByGit is a terminal Git client whose point is its guardrails: every change
of a repository is planned, previewed, confirmed according to a policy,
checked again against the state it was planned for, executed and audited. This
directory models that machinery, checks it with TLC and proves its main
guarantees with TLAPS.

## 1. The system

All code is in `src/crates`. Sizes include tests.

| Component | State | Operations | What must be right |
|---|---|---|---|
| core operation model, `bitbygit-core/src/lib.rs` | none | kinds, risks, confirmation floors, plans of one step | a risk has its floor |
| policy, `bitbygit-core/src/policy.rs` | none (a value) | `evaluate_confirmation`, `is_protected_branch`, `is_operation_disabled` | configuration escalates only; disabled means blocked |
| configuration, `bitbygit-core/src/config.rs` | the TOML file, written by editors | parse, validate, safe fallback | a broken file never opens anything |
| prompt parser, `bitbygit-core/src/prompt_parser.rs` | none | split a prompt into steps, parse each into a typed request | one meaning per prompt, no free-form command |
| session, `bitbygit-tui/src/lib.rs` `App` | current policy, one pending operation, focus, list and selection, diff, prompt text | event loop, policy reload, submit, confirm, cancel | nothing runs without its confirmation; what is shown is what a key acts on |
| planner, `OperationPlanner` | none (reads the repository) | one plan builder per request, sequence previews, pull request targets | the preview says what will be done, to what |
| executor, `PlanExecutor`, `PromptSequenceExecutor` | the run in progress | validation, audit begin, step, audit finish, deferred steps | one confirmation is sufficient for everything it lets run |
| pull request flow, in `bitbygit-tui` over `bitbygit-gh` | targets captured at preview | resolve head and base, look for duplicates, create | the request created is the one previewed |
| store, `bitbygit-store/src/lib.rs` | `registry`, `state` and `audit` files | add, remove, activate, append audit, list | what was acknowledged is read back |
| guarded Git operations, `bitbygit-git/src/lib.rs` | the repository, shared with every other Git client; the remote | status, checkout, create, merge, rebase, push, pull, fetch, commit | acts on the object that was previewed or not at all |
| bounded commands, `run_bounded_command` | Git, two threads that drain it, a deadline and an output limit | spawn, wait, kill, join | returns, with a whole answer or an error, and leaves nothing running |
| conflict recovery, `bitbygit-git/src/lib.rs` | fingerprint of a conflict, lock file, deadline | continue, abort, skip | recovers the confirmed state only, one process at a time |
| GitHub CLI boundary, `bitbygit-gh/src/lib.rs` | none; GitHub is shared | `gh` command lines, JSON | every answer is about the repository that was asked for |
| command line, terminal, rendering | none that matters | input and output | - |

How they interact. The event loop polls the terminal every 100 ms, reloads the
policy before each event and at least once a second, and handles events one at
a time. A key or the prompt submits a request; the planner reads the repository
and the policy and returns a plan with a *payload*: a snapshot (HEAD, staged
tree, remote object, conflict fingerprint) of what the plan was made for. A
plan of the least requirement runs at once, any other waits in the queue's
single slot for `y` or `Y`. The executor checks conflict mode and policy again,
appends an audit entry, compares the payload with the repository, runs the
command and appends the terminal entry. A prompt sequence is confirmed once:
its first step is planned at the preview, every further one only when its turn
comes, against policy and repository as they are then. Configuration file,
repository and remote are shared with editors and other Git clients; the store
is written by one process at a time, by design.

What is hard here: state read at the preview and used after the confirmation;
a policy edited in between, or unreadable; a branch switched by another client;
one confirmation covering steps planned later; failures between two effects;
writes cut short; a pull request whose head, base and duplicates are read from three
places; a screen that shows an older state than a key acts on; and, in the Git
layer, races with remotes, other processes and deadlines. `PROJECT.json` lists each at its line.

## 2. Modules

| Module | Models | Needs |
|---|---|---|
| `Policy` | the evaluators of `policy.rs`, risks of the plan builders, comparison of previewed and current evaluations | - |
| `GuardedSession` | session, planner and executors over a shared configuration file and repository | `Policy` |
| `SnapshotLog` | an append-only snapshot file: `write_snapshot`, `read_snapshot_optional` | - |
| `Lists` | the elements of a list that pass a filter | - |
| `Store` | registry and application state of `LocalStore` | `SnapshotLog`, `Lists`, `StoreContract` |
| `StoreContract` | the abstract specification `Store` implements | `Lists` |
| `AuditLog` | the audit file: `append_audit`, `list_audit_entries` | `Lists` |
| `LocalRepository` | HEAD, local branches and the other Git clients that move them | - |
| `PushRoute` | the Git configuration that decides where a push goes: `typed_push_target` | `LocalRepository` |
| `RemotePush` | a push: `plan_push`, `validate_push_plan`, lease, upstream | `PushRoute` |
| `RemotePull` | a pull: `plan_pull`, `validate_pull_plan`, publication, merge or rebase | `LocalRepository` |
| `GuardedCommit` | a commit: `plan_commit`, `run_commit_step`, `commit_staged_tree` | `LocalRepository` |
| `GuardedSwitch` | checkout, new branch, merge and rebase, command by command | `LocalRepository` |
| `PullTargets` | where the pull requests of a sequence go, read item by item: `deferred_pull_request_targets` | `PushRoute` |
| `PullRequest` | a pull request, alone or as a step of a sequence, over Git and GitHub | `PullTargets` |
| `BoundedCommand` | one Git command under a deadline and an output limit | - |
| `RecoveryFence` | the fingerprint of a recovery and its two validations, deadlines | - |
| `RecoveryLock` | the lock of a recovery: two files, their identity, killed processes | - |
| `StatusPanel` | event loop, focus, list of changed files, diff, staging a row | - |
| `PromptParser` | editing the prompt, splitting it, the typed request of each step | - |
| `Confirmation` | what a waiting plan says: prompt, key, reasons, action | `Policy`, `Lists` |
| `MC*` | the instances TLC checks | the module named |
| `MCLocalFiles` | the sum of `Store`, `AuditLog` and `RecoveryLock` | the three |
| `MCTerminal` | the sum of `StatusPanel`, `PromptParser` and `Confirmation` | the three |
| `Session_proofs` | theorems about `Policy` and `GuardedSession` | both, TLAPS |
| `Local_proofs` | theorems about `Store`, `AuditLog`, `BoundedCommand`, `StatusPanel` and `Confirmation`, and the induction they need | the five, TLAPS |
| `Command_proofs` | theorems about `RecoveryFence`, `RecoveryLock` and `PromptParser` | the three, TLAPS |
| `RemotePush_proofs`, `RemotePull_proofs`, `GuardedCommit_proofs`, `GuardedSwitch_proofs`, `PullRequest_proofs` | theorems about the module named | it, TLAPS |

`GuardedSession` treats a step as one command; `RemotePush`, `RemotePull`,
`GuardedCommit`, `GuardedSwitch`, `PullRequest` and the `Recovery` modules open
that step up, and `BoundedCommand` opens up a command of a recovery. A *sum* puts
parts that share no state into one specification: the variable `part` is chosen
initially, and a behaviour takes the steps of that part only.

Definitions named "Faulty variant" are plausible bugs; each is used to show that a
property notices it, and by nothing else.

### Policy

Branch names are elements of `Branches`; a pattern is the set of branches it
matches. Of the reasons of an evaluation only the protected-branch ones are
kept, as pairs of branch and action label: they are the ones compared. Risk
levels and requirements are numbers in their order.

### GuardedSession

`pc` is the place of the session's only thread; the `run` record is what
`execute_confirmed` or `PlanExecutor::execute` holds in local variables. The
repository is the branch HEAD names and the operation in progress: the two
facts a guard of a session reads. Correspondence:

| Action | Code |
|---|---|
| `ReloadTick` | `reload_policy` in the loop of `run`; also a submission that is refused while it is planned |
| `SubmitRequest`, `SubmitSequence` | reload, then `plan_request` / `plan_prompt_sequence`, `submit_operation` |
| `HandleKey` | reload, then `handle_key` with an operation pending, a click included |
| `SequenceLoad`, `SequenceCheck` | the head of `execute_confirmed`: two reloads, comparison of the whole preview |
| `DeferredLoad`, `DeferredPlan`, `DeferredRecheck` | its loop: reload, plan, reload, compare |
| `CheckPlan` | `PlanExecutor::execute` up to the step: conflict mode, `validate_policy` |
| `AuditBegin`, `CheckPayload`, `RunStep`, `StepFails`, `AuditFinish` | `execute_step` |
| `StepRefused` | every early return with an error before a step has an effect |
| `Wrap` | `execute_operation_with`, `execute_prompt_sequence_with` |
| `Stop`, `Restart` | quit or crash at any point; `from_startup` |
| `EditConfig`, `OtherGitClient` | everyone else |

Choices a reader should know. A reload and the handling of its event are one
action: nothing else of the session runs between, and an edit between them is
the same as an edit after. Reading HEAD for a preview is atomic with planning;
reading it for a check (`CheckPayload`) is not atomic with the command
(`RunStep`). That window is open in the code as well - docs/guardrails.md
(lines 135-138) leaves other Git clients to "their normal concurrency boundary" -
so the history variable `moved` records a switch inside it, and
`ProtectionWasShown` exempts the commands that work on whatever HEAD is, but
not a push or a commit on a branch, which name their ref. Every plan has
exactly one step. A file that parses is a policy, also the prefix of one that
an editor has only half written: it is one of `Policies`. Variables marked
*history* are read by properties only.

### SnapshotLog, Store, AuditLog

A line is abstracted to what it decodes to. A write that is not acknowledged
leaves nothing, an unterminated rest of any length, or the whole line; nothing
removes that rest, so the next line is glued to it. For the snapshot files all
rests are alike, because no glued line decodes; in the audit log a rest that
ends inside the time stamp still joins into a valid entry with a garbled stamp
(or a number too large), and one of five fields is listed as an entry: the three
classes of `Tails`. `StoreContract` states what a reader may rely on: each
change of what is read is one whole update, nothing old returns, and an
acknowledged update is lost only directly behind a failed one. `Store`
implements it under the mapping in `Store!Contract`.

### LocalRepository, RemotePush, RemotePull, GuardedCommit

Each module has the same shape: the planner reads in several steps, the user
confirms, the step checks what was read and then acts, and between any two of
these other clients may do what they like. One `git` command is one step. The
ancestry of commits is a given relation: making a commit is picking one that
fits. What a reader should know:

- `HeadTarget` is read by two commands, so `HeadOid` and `HeadRef` are two steps
  everywhere, and a preview may hold a pair that never existed together. The
  properties therefore say of each part that it has been current since the
  confirmation, not of the pair; between the last check and the command nothing
  is promised except by the command itself (lease, compare-and-swap).
- The six settings that determine where a push goes are read in one step.
  The refusal of a branch that is behind its tracking ref is left out: it only
  refuses. Git answers "up to date" for a remote ref that already is at the
  pushed commit, before it looks at the lease. A remote may have several push
  URLs when it is pushed to.
- The ref a pull fetches into beforehand is private to the process: fetching,
  reading and deleting it are one step.
- A commit is made with `commit-tree` and `update-ref`; on a detached HEAD the ref is
  `HEAD` itself, which follows a branch if it has become symbolic meanwhile.
  The displayed staged paths and the tree are read by two commands.

### GuardedSwitch

The planner reads worktree, branch, HEAD and the branches named, each by a step of its
own, `Check` reads them again, one thing at a time in the order of `Checks`, and then one
Git command runs, which takes some of them by name and some by object: `merge --ff-only` and `rebase` are given the
commit, `switch` the name, `switch -c` a new name and a commit. `SwitchLocal`
therefore models what the name means at that moment, Git's guess of a remote
branch included. Worktree and index
are one bit, `clean`. A merge or rebase that conflicts is left to the
recovery modules.

### PullTargets, PullRequest

An item that is read is one step, at the preview and at the execution alike: the
branch, its upstream, its destination, a URL, the name of a repository, a branch on
GitHub. What others do to the repository, its configuration, the policy's default
base and GitHub comes between any two. A run is a sequence of requests whose later
steps are planned when their turn comes, as in the executor: the targets of all
pull requests are resolved at the preview, before the first step, before and
after a further step is planned, and when the pull request itself is planned.

`PullTargets` is that resolution. `scan` is its place: the request it has come to, the
branch the sequence will be on there, and what has been read of the target in
hand. `Follow` carries the branch through the requests, a checkout, a tracking
checkout, a new branch and a first push included, and `Aim` reads a target
(`deferred_pull_request_target`); `AsPreviewed` compares what was read with the
preview. Since one answer may change while the next is read, a resolution can be put
together from moments at which no request was aimed anywhere near: the code does not
exclude it, and the model allows it. `TargetsFrom` says what the same targets are at one moment.
It is used by the history only: `since.aimed` tells whether there was such a moment
since the last resolution began, with every target as previewed, and `since.disturbed`
whether one of the answers changed while they were being read.
`StepsServeThePreviewedTarget` demands the former of every step that has an effect, or
the latter: a resolution that nobody disturbs is as good as one at a single moment.

`LandsWherePreviewed` compares where a pull request was created or found with what
the preview of the sequence said, after everything that ran in between. `since.moved`
is its exception: the name of the base repository is asked for once and used once
more by `gh pr create`; a repository that is exchanged behind the last question
gets the request.

- Names are those of one GitHub host in lower case, so that comparing them is
  equality. `canonical` is the repository that answers to a name, and `Rename` lets
  another one answer.
- The settings that give a branch its upstream, or a push its destination, are several
  commands to the code and one step here, and so is the answer of `gh` about one
  repository or one branch. The default branch belongs to that answer and never changes.
- The search for an existing pull request at the preview only fills the text of
  the plan and is left out. The two searches at the execution are steps.
- Every call of `gh` may fail: `Refuse` ends the run, and a creation that fails
  goes on to the second search as the code does.
- `gh` names a head `owner:branch`. Two forks of one owner in one network cannot be
  told apart by it; GitHub does not create them, and the model has one fork.
- Planning a step that is not a pull request is one action (`Prepare`), and so is
  running it (`RunStep`): their own windows are those of `RemotePush` and `GuardedSwitch`.

### BoundedCommand

The caller's loop, the two drain threads, Git, a helper Git has started in its
process group, and the clock are concurrent. Output is counted in chunks of one
read; the digest of a stream is the number of chunks it covers. `PollOutput`,
`PollExit`, `PollDeadline` and the joins follow the loop in its order: the shared
flag, then `try_wait`, then the deadline. A process may leave the group, and
`try_wait` may fail.

### StatusPanel, PromptParser, Confirmation

`StatusPanel` has the loop of `run` as steps: draw, reload, handle one event. What
was drawn (rectangles, rows, offset) is kept apart from what is true now, because
a key is understood by the former. Git's porcelain records are computed from a
worktree, an index and a HEAD, rename detection included, and read back by the
parser; `Bare` says what the parser would see in a path that stands where a
record is expected, since the old name of a rename is a record of its own.
`staging` of a policy is what it does to the Stage family: run at once, wait for
a key, or refuse. The panel of registered repositories is left out, and so are
copies, ignored paths and renames in the worktree (`.R`, after `git add -N`): Git reports
copies only if `status.renames` says so, and the session asks for no ignored paths. Of a
`.R` row the code would act on the new path alone; no property speaks of that. The
parser's error (`ShowNoStatus`) is kept, although nothing Git
writes here leads to it.

The panel wraps its lines. `LinesAbove` are the widths of the lines above the selected
row, the branch, an operation in progress and the labels; `Wrapped` is the least
number of lines each takes in the panel, and `OnScreen` whether the row is left inside the
border. The code counts one line for each (`status_file_visible_len`), which is
`VisibleLen`. So `SelectionIsVisible` is claimed of screens without a wrapped line above
the selection, and `SelectionIsOnScreen` of all, which the code does not keep (section 4).
Where the panels of a small terminal do not fit, how the layout solver shares what there is
depends on the library: `Split` is then every height it may give.

`PromptParser` treats a prompt as tokens: blanks, quotes, the connectors' marks,
and runs of other characters. `MAX_PROMPT_LEN` is counted in tokens. A
behaviour either types tokens one at a time and deletes them, or writes a request that
was in somebody's mind, in one of the forms the parser documents, so that what is understood can be
compared with what was meant (`intended`).

`Confirmation` is about the sentence a plan shows. A sentence is the record of
the key it names and the steps it speaks of; `apply_policy_evaluation` rewrites it
when the policy demands more than the plan was worded for. The tall and the
compact panel are two operators over the same plan. Plans that run at once show no
sentence and are left out.

### RecoveryFence, RecoveryLock

`RecoveryFence` is about the one thing a fingerprint cannot do, read everything at
once. Inputs are files, retained open and compared by identity and change time
(`same_recovery_file`), and commands, whose output is compared. `Unchanged`
follows the code in three respects: an existing file counts as changed by any
write, even of the same contents; an absent file and an output are compared by
value, so that a change and its reversal go unnoticed; and the index is compared
last. That every write changes a file's change time is assumed: it holds up to
the granularity of the file system's clock, and on Windows only the modification
time is compared. Which inputs there are, and which configurations are refused
because Git would start a process of its own, is abstracted to `Files`, `Probes`
and `Refuse`.

`RecoveryLock` is about sessions that are different processes. `Open` creates a
missing file, `TryLock` never waits, `EnsureIdentity` compares one of the two
files. `Meddle` is anyone who removes or replaces a lock file. `Kill` releases the
locks, as the system does; the Git that was started lives on where it has a
process group of its own (`GitOutlives`, Unix), and ends with its session where a
job object holds it (Windows).

## 3. Runs

| Run | Question | Instance |
|---|---|---|
| `session` | is one confirmation sufficient for all it lets run, is every effect shown and audited, does every run end, is a configuration adopted? | a stage, a merge abort and a rebase, one per confirmation level and kind of check, and a sequence of checkout, commit and push: the branch changes inside it and its last two steps carry a protected-branch rule; the default policy and one that differs from it in every respect but the prompt; corrupt file; under `FairSpec` |
| `local_files` | do the two snapshot files agree, is the contract implemented, is a listing complete, can two recoveries run at once? | three repositories, two recent ones, three lines a file; six audit calls; three sessions, five identities of lock files, both replaced at any moment, kills |
| `audit_persists` | expected violation: see Findings | the same instance |
| `push` | does a push replace what was previewed, where it was previewed, and never rewind? | one branch or a detached HEAD, two commits, two remotes, two URLs; upstream, push remote and URLs are edited at any moment |
| `pull` | is what was fetched published and integrated, and nothing else? | three commits that fork, one branch, one upstream; merges and rebases, conflicts |
| `commit` | does the confirmed tree land on the previewed branch and parent? | two branches, three commits, three trees, first commits and a detached HEAD; hooks and signing switched on and off |
| `recovery_fence` | was the confirmed state there when a recovery starts, and has a refusal or a timeout started nothing? | the index, another file, one command, three contents; a deadline at any moment |
| `switch` | is the branch that was previewed the one reached, and does no other branch move? | two branches and one that has the short name of a remote branch, a fork of three commits, HEAD on a branch and detached; two changes by others |
| `pull_request` | is a pull request created, reported, and preceded by other steps only as previewed, and does it land where the preview said? | a repository and its fork, two branches, two commits; alone and behind a push, a checkout, a tracking checkout or a new branch; four configurations, one whose remote called upstream has a push URL only; two changes by others |
| `bounded_command` | is an accepted answer whole, does nothing stay behind, does every call return? | one chunk kept, two allowed, pipes of one chunk, four chunks written, deadline at time two; under fairness |
| `terminal` | do selection, diff, staging, the parsed prompt and the displayed plan agree with what the session acts on? | four paths (a rename among them, and a long name that reads like a record), three worktrees, two terminal sizes, three policies and the fallback; prompts of four typed tokens and every request written out; four policies and five sequences of plans |
| `terminal_wraps` | expected violation: see Findings | 80 columns and 18 lines, short names |

Bounds. Two branches are enough to have a protected one, one protected by
configuration only, and a switch between them; `NoBranch` is the detached HEAD.
Two policies, and a file that holds none, are enough for an edit during every
window and for a change back. For a push two commits in a line suffice - a rewind is a push of the
older one -, for a pull a fork of three commits gives every relation its checks
distinguish: equal, ahead, behind, diverged; a branch more gives HEAD another
place to be. Pushing from several branches is left to the proofs, which hold for
any number: with two URLs a second branch multiplies the remote states by nine. One input of
each kind, and the index, are enough for the fence, because it treats all
inputs of a kind alike. Five identities let each of three sessions hold another
pair of files in the states that matter: two at the paths, three open elsewhere.
`MaxOrphans` bounds the Git processes that have outlived their session at one,
which is enough for a second recovery beside it. Two changes by others reach every
check of a switch or a pull request: one that breaks what was previewed, and one
that restores it or hides it from a later check; with every read a step, `pull_request` has
1.4 million states and runs of 280 steps. A pipe of one chunk blocks its
writer, and four chunks fill both streams past the limit while one is still in a
pipe. The small terminal shows the compact panels, which do not fit into it; a list of four
paths is longer than the rows of either size, and the long name is wrapped above, at or
below the selected row; four tokens hold a connector with a word on either side.
A sequence of three steps has a first, a middle and a last one. Three
lines hold a whole snapshot, a glued one and one more, six audit calls two torn
lines in a row and entries around them. `Store` and `AuditLog` stop at their
bounds, and a store whose first write was torn really is stuck: `MCLocalFiles.cfg`
and `MCAuditPersists.cfg` switch the deadlock check off; the others do not.

Fairness. `FairSpec` is weak fairness of the session's own steps and of the
reload. The session is one thread that never waits for the user inside a run,
`event::poll` returns after 100 ms and the reload happens at least every second
(`POLICY_RELOAD_INTERVAL`). That external commands and file writes return is
assumed; the Git layer bounds only recoveries in time. Nothing is assumed of
users, editors or other clients. Only a crash may end a run otherwise: `down` is
an allowed end of `RunEnds`, and `ConfigAdopted` is about sessions not stopped.

`BoundedCommand` has weak fairness of the caller, of each drain and of the clock:
they are threads of this process, and time. Nothing is assumed of Git or its
helper, which may hang: that the call returns all the same is `EveryCallReturns`.

## 4. Findings

An audit entry acknowledged after a torn one makes the log unlistable
(`audit_persists`): `append_audit` does not first end an unterminated line, the two
lines join into one with too many fields, and the listing refuses the whole
file. `ListingComplete` says how far the damage goes: never a listing silently
short.

The status panel shows one line less than it counts (`terminal_wraps`): it renders with
`wrap`, and `status_file_visible_len` takes one line for the branch and one for each file. In a
terminal of 80 columns the panel is 25 wide inside, the summary of a branch with an
upstream takes two lines, and at 18 lines the last of five rows falls below the border.
A list that is scrolled to its end keeps the selected row there: `s` and `u` then act on
a file that is not on the screen. The test `status_window_follows_selected_file` checks the selection
against the same count. `SelectionIsVisible`, proved for all sizes, says when the count is right.

The modules show five more things that are worth knowing. No run checks them; the
first three have a definition that can be added to the configuration named, as
an INVARIANT, to see how they happen.

1. `MCLocalFiles.cfg`, `ActiveStateSurvivesReload`: a snapshot acknowledged after a
   torn write is not read back, for the same reason as above. The contract says how
   far this goes: never an older content than before.
2. `MCLocalFiles.cfg`, `UnterminatedLineIgnored`: a file whose first line is torn is
   refused for good, because the raw content goes to the parser of the older,
   unframed format.
3. `MCLocalFiles.cfg` with `Meddled = {}`, `Serialized`: on Unix a BitByGit that is
   killed during a recovery releases its lock while the Git it started goes on,
   and the next BitByGit recovers at the same time, although docs/guardrails.md
   (lines 131-135) says the lock is held through execution and serializes
   recoveries. It does on Windows, if nobody replaces the guard (theorem
   `LockSerializes`).
4. A process of Git's that has left the process group and keeps a pipe open makes
   the caller of `run_bounded_command` wait for it, whatever the deadline: the joins
   are unconditional, and the kill reaches the group only. The comment at
   `bitbygit-git/src/lib.rs` 3104-3105 speaks of processes in the group.
   `EveryCallReturns` exempts this case; `NoWriterAtTheJoin` is the definition to
   put into `MCBoundedCommand.cfg`.
5. When `try_wait` itself fails (line 3084) the call returns at once with Git still
   running. `LeavesNothingBehind` is about the other returns.

A remark that is no finding: with the risks the plan builders assign, the
minimum requirement of a protected branch never exceeds the floor of the
operation's risk (theorem `RequirementIgnoresBranch`). Protection acts through
the *reason* only, so the comparison of reasons in `confirmation_covers` and
`validate_policy` is not a refinement of the guard but all of it.

## 5. Proofs

What is assumed is the named ASSUME of each module, and TLC evaluates them on every
run: names and objects that are told apart (`BranchAssumption`, `PushAssumption`), well-formed
requests and plans (`SessionAssumption`, `SwitchAssumption`, `ConfirmationAssumption`, the
`PullAssumption` of `PullRequest`), the words of the prompt's grammar and requests that can be
said in it (`PromptAssumption`, `RequestAssumption`), an ancestry that is reflexive and transitive
(`GraphAssumption`), limits that are positive and in order (`BoundAssumption`), and that a
content is told from none (`StoreAssumption`, `AuditAssumption`, `PanelAssumption`). Nothing is
assumed on the number of branches, policies, requests, files, sessions or paths, or on the
length of sequences, files, prompts and outputs.

`Session_proofs`, the policy: evaluations have their type, no configuration lowers a
floor, the requirement does not depend on the branch, an operation with the least
requirement has no reason to show.

`Session_proofs`, the session: `TypeCorrect`, `EffectsAreAuthorized`,
`ProtectionIsShown`, `PoliciesAreFresh`, `FailureStops`,
`AuditTrailIsTruthful`, each `Spec => []...`. The properties speak of the moment
of an effect, while what makes them true was established several steps before;
so the inductive invariant carries it along:

- `RunExists`, `RunShape`: a run is there while its steps are, and its previewed
  evaluations match its requests;
- `PendingShows`: the pending operation's reasons are exactly what its preview
  displays, for single operations and sequences;
- `SequenceCovered`: in a sequence nothing it compares with is blocked or above
  the confirmation given;
- `PlanRisk`, `PlanAuthorized`, `PlanShown`: between the comparison and the
  effect the current plan's evaluation under the run's policy is within the
  confirmation, and its reasons are among those shown;
- `PolicyIsFresh`: the run's policy is one that was on disk since the step began;
- `SucceededSoFar`, `Announced`: all earlier steps succeeded; the audit log's last
  entry is the step's.

TLC checked this invariant before the proof. The proof has a
lemma per group of actions (`UserSafe`, `EnvironmentSafe`, `SequenceCheckSafe`,
`DeferredRecheckSafe`, `CheckPlanSafe`, `RunStepSafe`, `ExecutorSafe`) and the
last step of each theorem is temporal.

`RemotePush_proofs`, `RemotePull_proofs` and `GuardedCommit_proofs`: all safety
properties of the three runs, from `GraphAssumption` (ancestry is reflexive and
transitive) and the disjointness of names, for all histories, remotes and
configurations. The invariant says at each place of the execution what the
checks so far have seen (`Seen`), with what the last check has established and
nobody else can undo: that the pushed commit is a descendant of the expected
object (`Checked`), that a destination is known (`Targeted`), that the tree differs
from the parent's (`NotEmpty`), that the waiting commit object is the planned one
(`MadeAsPlanned`). Effects are records of what held when they happened, so a step
without an effect keeps what is said about them (`SafeStutter`).

`Command_proofs`, the fence of a recovery: the properties of the run, that a refusal or a timeout has started nothing
among them (`NothingStarted`), and type correctness. The difficulty is that when the final
validation begins it is not known whether it will succeed. The invariant
(`FinalPass`) says that from then on either there has been a moment at which all
existing files were as read, or one that is still to be validated has been
written and cannot pass (`WillFail`): a file does not become unwritten again.

`Command_proofs`, the lock of a recovery: `LockExcludes` for any number of sessions and files, from two
facts: no file is locked twice (`LockedOnce`), and a file that was compared is
still at its path unless it has been replaced since (`AtPath`). `LockSerializes`
adds that a guard nobody replaces is never recorded as replaced.

`GuardedSwitch_proofs`: `SwitchesConfirmedState`, `PreviewedCommitIsUsed` and
`OtherBranchesAreKept`. As for a push, the invariant says what each check of the list
has seen; what Git takes by object is the previewed one by the plan alone, what
it takes by name only as far as its check reaches.

`PullRequest_proofs`: `CreationIsChecked`, `LandsAsPreviewed`, `StepsAreAimed` and
`ReportsAreTrue`, for prompts of any length. The targets captured at the preview are
compared at four places and used at a fifth, so `PullInv` says of each place which
checks lie behind it (`Seen`), that the target planned is the one previewed
(`Compared`), and what is claimed of the requests created or reported so far (`EffectOK`).
`Unmoved` carries the name of the base repository from its last check to the creation, or
`since.moved`; `LandsAsPlanned` concludes that what `gh` names is what was planned, the
head included, which it names by owner only. The hard part is a resolution in
many reads. `ScanExact` says that, as long as no answer has changed since it began
(`since.disturbed`), what has been read is what there is: the branch it has come to is the
branch before that request (`Followed`), what it holds of the target in hand is current
(`ReadExact`), and each target it has put together is the target of that request
at this moment. At its end all of them are (`ResolvedAims`), and with the comparison the step is aimed, which
`AimedOnTurn` keeps until its turn comes. That branch is a recursive
function over the requests, whose equation takes the induction below (`BranchesDef`).
In `Local_proofs`, `Command_proofs` and `PullRequest_proofs` there is induction. The library's
induction theorems take an operator and cannot be cited, but that the order of numbers is well-founded can: a set of numbers that
contains 0 and the successor of each of its members has no least number outside
(`LeastNatural`, `SetInduction`; each module has its own copy of these two, since
what they extend declares the same names and cannot be extended together). From this a
recursive function exists and is unique, and what it returns for every list can be proved. Filters and folds that are reasoned
about are therefore written as recursive functions (`Lists!Sublist`,
`ParseStatus`, `AllReasons`, `ScanOf`, `Words`, `BranchesFrom`).

- *Audit log and store*, in `Local_proofs`: `EvidenceIsComplete`, `ReferencesAreRegistered`,
  `RecentStaysOrdered`, and `StoreKeepsContract`, that `Store` implements
  `StoreContract`. A file is read from its last whole line (`ReadLast`,
  `LineAppended`), and a call that is cut short leaves the old content, the new one, or a
  line that does not decode (`Written`). `StoreInv` adds what the order of the
  two writes of a removal is for: as long as no write of the state was missed and both
  files can be read, the state names registered repositories only, and a removal that
  is half done has already taken its repository out of the state. `AuditInv`:
  a log that can be parsed lists exactly what was acknowledged, in order.
- *Bounded command*, in `Local_proofs`: `DigestIsComplete` and `NothingIsLeftBehind`. What a
  drain has counted and what is in its pipe add up to what was written (`Counted`); output is missing from a digest only if
  the limit was exceeded (`NothingMissed`); a drain at the end of its stream leaves nobody who
  could write to it (`AtTheEnd`); and the caller returns without an error of its own only
  when both drains have met that end (`JoinsInOrder`, `Outcome`).
- *Status panel*, in `Local_proofs`: `SelectionStaysVisible`, `DiffFollowsSelection`,
  `ListIsWhatGitReported`, `RowsAreCarriedOutWhole`, for every worktree and any names of paths.
  For the selection the clamp is half of it; the other half is that lines which fit add up to the
  rows the code counts (`OnScreenIs`).
  `ReadPorcelain` is the centre: what the parser makes of Git's records is exactly what Git
  reported, although the old name of a rename is a bare record that may look like
  another one, because the parser skips it. From there `RowsReported` and `RowUnique`
  tell that the rows are those entries, each once, and `RowActs` what the paths
  given to `git add` or `git restore` do to index and worktree.
- *Confirmation*, in `Local_proofs`: `NamedKeyWorks` and `PlanIsExplained`, for every policy, branch and
  sequence. A sentence is written for the plan's risk and rewritten, for single plans
  and sequences in different ways; so `PlanInv` ties its key and its steps to the
  requirement and the steps of the plan. That the one reason a small terminal shows
  demands the requirement in force rests on three facts: no minimum of a
  protected branch exceeds the risk it applies to, so the risk always explains an
  evaluation (`RiskExplains`); combining evaluations loses no reason, and requires what
  the most demanding one does (`CombinedExplains`); and the order in which reasons are
  shown puts a controlling one first (`FirstReason`).

- *Prompt*, in `Command_proofs`: `PromptSplitsAtUnquotedConnectors` and
  `PromptUnderstoodAsWritten`, for all tokens, prompts and requests. The first compares the
  scan, which goes from left to right with a flag, with a definition that knows no order: the cuts
  are all connectors outside of quotes. So the invariant of the scan (`Scanned`) says after each token that
  the flag is the parity of the quotes so far (`QuotedNext`), that the segments so far
  are the pieces between the cuts so far (`HoldsUpTo`) and the rest begins behind the last of them
  (`GoesOnAt`). What it rests on is that cuts do not overlap
  (`CutsAreApart`): of a run of ampersands every other one is skipped. The second goes the other
  way, from what is written to what is read. A text *is a step* (`IsStep`) if no connector and
  no character of the shell stands in it outside of quotes and its quotes are closed; every written
  request is one, the message of a commit with whatever is in it included (`CommitIsStep`), and each is
  parsed as the request it says (`WrittenIs`). A step alone is one segment
  (`StepAlone`), and nothing is cut within a step wherever it stands (`NothingInside`), so two
  of them joined by any connector are two segments (`StepsJoined`). The invariant of the
  panel, `PromptInv`, is then small: the prompt consists of tokens, and what was written is
  understood. A name that holds `&` or `;`, which Git permits, or that is the word
  `and` or `then`, cannot be said in a prompt; `RequestAssumption` leaves it out, and with it a
  new branch called `list` and a message with a quote in it. A word of the grammar is one token, for
  the theorem as for the runs.

Model-checked only: liveness (`RunEnds`, `ConfigAdopted`, `EveryCallReturns`), which
is out of the prover's reach. Every invariant and every action property that a run checks is proved.

Proved only: type invariants of modules whose run does not check them, and
what follows from a stronger statement a run does check or concerns a single step:
`StopsAtFirstFailure`. The runs of push, pull and commit
check one property for what the operation does (`PushesAsPreviewed`,
`PullsAsPreviewed`, `CommitsAsPreviewed`) and one for the state it relied on; the
theorems also give the parts of the former, each by its name.

## 6. Plan

Done: all modules of section 2, and the proofs of section 5. Next, in this order:

1. `ConfirmedExecution`: an abstract specification of the session (a request is
   confirmed, announced, executed once, or dropped), implemented by
   `GuardedSession`; composition of `AuditLog` with it.
2. `RecoveryFence` and `RecoveryLock` composed, with the Git that runs as one of
   those who write. A direct product was tried: without the symmetry
   of each half it is too large, so it needs a coarser fence.

Not modelled, and why: rendering, terminal modes, the mouse but for the click
that cancels, and wording, because no property of this project is about them;
TOML and JSON, which libraries parse; argument lists of `git` and `gh`, whose
meaning is the external program's; `main.rs`, the audit debug listing, scripts and CI, which
keep no state.
