-------------------------------- MODULE Store --------------------------------
(***************************************************************************)
(* The repository registry and the application state of LocalStore         *)
(* (crates/bitbygit-store/src/lib.rs).  The store keeps nothing in memory: *)
(* every call reads the files afresh, computes the new content and appends *)
(* it.  It has one writer by design.  A call may fail or the process may   *)
(* die in any write, and between the two writes of a removal.              *)
(*                                                                         *)
(* A registry is the set of the repositories in it: the time stamps of a   *)
(* record decide nothing.                                                  *)
(***************************************************************************)
EXTENDS SnapshotLog, Lists

CONSTANTS
  Repos,      \* repositories, one per identifier
  NoRepo,     \* no active repository, no removal in progress
  RecentCap,  \* length of the list of recent repositories
  MaxLines    \* bound: lines in a file

States == [active : Repos \cup {NoRepo}, recent : Seq(Repos)]

ASSUME StoreAssumption ==
  /\ NoRepo \notin Repos
  /\ \A repos \in SUBSET Repos : repos \notin {Broken, Unreadable}
  /\ Broken \notin States /\ Unreadable \notin States
  /\ RecentCap \in Nat \ {0}
  /\ MaxLines \in Nat

VARIABLES
  registryFile, \* repositories file
  stateFile,    \* state file
  removing,     \* the repository whose removal has written only the state
  missed        \* history: files where an acknowledged write is not what readers see

storeVars == <<registryFile, stateFile, removing, missed>>

NoState   == [active |-> NoRepo, recent |-> <<>>]

\* load_registry_map and load_state.
Registry == ReadSnapshot(registryFile, {})
State    == ReadSnapshot(stateFile, NoState)
Loads    == Registry # Unreadable /\ State # Unreadable

FileOf   == [registry |-> registryFile, state |-> stateFile]

HasRoom(file) == Len(file.lines) < MaxLines

StoreInit ==
  /\ registryFile = EmptyFile
  /\ stateFile = EmptyFile
  /\ removing = NoRepo
  /\ missed = {}

-----------------------------------------------------------------------------
Without(recent, repo) == Sublist(recent, Repos \ {repo})

\* Faulty variant, for trying the properties.
PushRecentLast(recent, repo) == Append(Without(recent, repo), repo)

PushRecent(recent, repo) ==
  LET queue == <<repo>> \o Without(recent, repo)
  IN SubSeq(queue, 1, IF Len(queue) > RecentCap THEN RecentCap ELSE Len(queue))

SaveRegistry(repos, acknowledged) ==
  /\ HasRoom(registryFile)
  /\ registryFile' \in WriteSnapshot(registryFile, repos, acknowledged)
  /\ missed' = IF acknowledged /\ Registry' # repos THEN missed \cup {"registry"} ELSE missed
  /\ UNCHANGED stateFile

SaveState(state, acknowledged) ==
  /\ HasRoom(stateFile)
  /\ stateFile' \in WriteSnapshot(stateFile, state, acknowledged)
  /\ missed' = IF acknowledged /\ State' # state THEN missed \cup {"state"} ELSE missed
  /\ UNCHANGED registryFile

\* A repository already in the registry is written again, with a new time stamp.
AddRepository(repo) ==
  /\ removing = NoRepo
  /\ Loads
  /\ \E acknowledged \in BOOLEAN : SaveRegistry(Registry \cup {repo}, acknowledged)
  /\ UNCHANGED removing

SetActive(repo) ==
  /\ removing = NoRepo
  /\ Loads
  /\ repo \in Registry
  /\ \E acknowledged \in BOOLEAN :
       SaveState([active |-> repo, recent |-> PushRecent(State.recent, repo)], acknowledged)
  /\ UNCHANGED removing

\* Without a repository to look up, the registry is not read.
ClearActive ==
  /\ removing = NoRepo
  /\ State # Unreadable
  /\ \E acknowledged \in BOOLEAN : SaveState([State EXCEPT !.active = NoRepo], acknowledged)
  /\ UNCHANGED removing

\* Faulty variant, for trying the properties: no state is saved before.
RemoveRegistryOnly(repo) ==
  /\ removing = NoRepo
  /\ Loads
  /\ \E acknowledged \in BOOLEAN : SaveRegistry(Registry \ {repo}, acknowledged)
  /\ removing' = NoRepo

\* remove_repository saves the state first; its registry only if that succeeded.
RemoveFromState(repo) ==
  /\ removing = NoRepo
  /\ Loads
  /\ \E acknowledged \in BOOLEAN :
       /\ SaveState([active |-> IF State.active = repo THEN NoRepo ELSE State.active,
                     recent |-> Without(State.recent, repo)], acknowledged)
       /\ removing' = IF acknowledged THEN repo ELSE NoRepo

RemoveFromRegistry ==
  /\ removing # NoRepo
  /\ \E acknowledged \in BOOLEAN : SaveRegistry(Registry \ {removing}, acknowledged)
  /\ removing' = NoRepo

CrashInRemoval ==
  /\ removing # NoRepo
  /\ removing' = NoRepo
  /\ UNCHANGED <<registryFile, stateFile, missed>>

StoreNext ==
  \/ \E repo \in Repos : AddRepository(repo) \/ SetActive(repo) \/ RemoveFromState(repo)
  \/ ClearActive \/ RemoveFromRegistry \/ CrashInRemoval

StoreSpec == StoreInit /\ [][StoreNext]_storeVars

-----------------------------------------------------------------------------
(***************************************************************************)
(* Properties.                                                             *)
(***************************************************************************)

\* The active and the recent repositories are registered ones, also when a
\* removal stops between its two files or in one of them (the order of the two
\* saves in remove_repository) - as long as no acknowledged state was missed.
NoDanglingReference ==
  "state" \notin missed /\ Loads =>
    /\ State.active \in Registry \cup {NoRepo}
    /\ \A i \in DOMAIN State.recent : State.recent[i] \in Registry

\* The list of recent repositories names none twice, keeps to its length, and the
\* active one is its head, through removals and failed writes (push_recent).
RecentIsOrdered ==
  State # Unreadable =>
    /\ Len(State.recent) <= RecentCap
    /\ \A i, j \in DOMAIN State.recent : State.recent[i] = State.recent[j] => i = j
    /\ State.active # NoRepo => State.recent # <<>> /\ Head(State.recent) = State.active

\* What readers see of the two files follows the contract: every change is one
\* whole update, nothing older comes back, and an acknowledged write is lost only
\* right behind a failed one (write_snapshot, read_snapshot_optional).
Contract == INSTANCE StoreContract WITH
  registered <- Registry, recorded <- State,
  kept  <- {f \in {"registry", "state"} : WholeLines(FileOf[f]) # {}},
  doubt <- {f \in {"registry", "state"} : FileOf[f].torn}
ImplementsContract == Contract!Spec

\* An active repository that was set, and acknowledged, is read back by the next
\* process (active_and_recent_state_survives_reload in the store's tests).
ActiveStateSurvivesReload == "state" \notin missed

\* An unterminated line changes nothing of what is read from the lines before it
\* (state_reader_ignores_unterminated_snapshot_line in the store's tests).
UnterminatedLineIgnored ==
  State = ReadSnapshot([stateFile EXCEPT !.torn = FALSE], NoState)

=============================================================================
